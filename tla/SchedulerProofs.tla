-------------------------- MODULE SchedulerProofs ---------------------------
(* The lemmas about the operators that pick a position of a run queue, the  *)
(* steps that use them, and the theorems about the scheduler.               *)
EXTENDS SchedulerSteps, WellFoundedInduction

-----------------------------------------------------------------------------

\* The minimum of a set of natural numbers that is not empty.
LEMMA MinProperties ==
    ASSUME NEW S \in SUBSET Nat, S # {}
    PROVE  Min(S) \in S /\ \A y \in S : Min(S) <= y
  <1>1. PICK x \in S : \A y \in S : ~(<<y, x>> \in OpToRel(<, Nat))
    BY WFMin, NatLessThanWellFounded, Zenon
  <1>1a. \A y \in S : ~(y < x)
    BY <1>1, Zenon DEF OpToRel
  <1>2. \A y \in S : x <= y
    BY <1>1a
  <1> QED
    BY <1>2, Zenon DEF Min

\* The concatenation of two sequences, entry by entry.
LEMMA Concatenation ==
    ASSUME NEW P, NEW a \in Seq(P), NEW b \in Seq(P)
    PROVE  /\ a \o b \in Seq(P)
           /\ Len(a \o b) = Len(a) + Len(b)
           /\ \A i \in 1 .. Len(a) + Len(b) :
                 (a \o b)[i] = IF i <= Len(a) THEN a[i] ELSE b[i - Len(a)]
  <1>1. a \o b \in Seq(P)
    OBVIOUS
  <1>2. Len(a \o b) = Len(a) + Len(b)
    OBVIOUS
  <1>3. \A i \in 1 .. Len(a) + Len(b) :
           (a \o b)[i] = IF i <= Len(a) THEN a[i] ELSE b[i - Len(a)]
    OBVIOUS
  <1> QED
    BY <1>1, <1>2, <1>3

\* The maximum of a set of priorities that is not empty.
LEMMA MaxPriority ==
    ASSUME NEW S \in SUBSET Priority, S # {}
    PROVE  Max(S) \in S
  <1>1. \A x \in S : x \in {1, 2, 3, 4}
    BY DEF Priority, MIN_PRIORITY, MAX_PRIORITY
  <1>2. \E x \in S : \A y \in S : x >= y
    <2>1. CASE 4 \in S
      BY <1>1, <2>1
    <2>2. CASE 4 \notin S /\ 3 \in S
      BY <1>1, <2>2
    <2>3. CASE 4 \notin S /\ 3 \notin S /\ 2 \in S
      BY <1>1, <2>3
    <2>4. CASE 4 \notin S /\ 3 \notin S /\ 2 \notin S
      BY <1>1, <2>4
    <2> QED
      BY <2>1, <2>2, <2>3, <2>4
  <1> QED
    BY <1>2, Zenon DEF Max

\* A position of a run queue holds a process.
LEMMA QueueEntry ==
    ASSUME run_queue \in [Priority -> Seq(Pid)], NEW q \in Priority,
           NEW i \in DOMAIN run_queue[q]
    PROVE  run_queue[q][i] \in Pid
  <1>1. run_queue[q] \in Seq(Pid)
    OBVIOUS
  <1> QED
    BY <1>1

\* The run queue entry with the least position in a set of runnable ones.
LEMMA LeastRunnable ==
    ASSUME run_queue \in [Priority -> Seq(Pid)], NEW st, NEW q \in Priority,
           NEW S \in SUBSET RunnableAt(st, q), S # {}
    PROVE  /\ run_queue[q][Min(S)] \in Pid
           /\ Runnable(st, run_queue[q][Min(S)])
           /\ InQueue(run_queue[q][Min(S)], q)
  <1>1. run_queue[q] \in Seq(Pid)
    OBVIOUS
  <1>2. S \subseteq DOMAIN run_queue[q]
    BY DEF RunnableAt
  <1>3. S \in SUBSET Nat
    BY <1>1, <1>2
  <1>4. Min(S) \in S
    BY <1>3, MinProperties
  <1>5. Min(S) \in RunnableAt(st, q)
    BY <1>4
  <1> QED
    BY <1>5, QueueEntry DEF RunnableAt, InQueue

\* select_next_process_with_lock returns a queued process that can run, and
\* fails only when none can.
LEMMA SelectedCanRun ==
    ASSUME run_queue \in [Priority -> Seq(Pid)], priority[current_pid] \in Priority,
           NEW st
    PROVE  \/ /\ select_next_process(st) \in Pid
              /\ Runnable(st, select_next_process(st))
              /\ \E q \in Priority : InQueue(select_next_process(st), q)
           \/ /\ select_next_process(st) = NoPid
              /\ \A q \in Priority : RunnableAt(st, q) = {}
  <1> DEFINE current_priority == priority[current_pid]
             ready  == {q \in Priority : RunnableAt(st, q) # {}}
             higher == {q \in ready : q > current_priority}
             sel    == select_next_process(st)
  <1>1. CASE higher # {}
    <2>1. sel = FirstOf(st, Max(higher))
      BY <1>1 DEF select_next_process
    <2>2. Max(higher) \in higher
      <3>1. higher \in SUBSET Priority
        OBVIOUS
      <3> HIDE DEF higher
      <3> QED
        BY <1>1, <3>1, MaxPriority
    <2>3. Max(higher) \in Priority /\ RunnableAt(st, Max(higher)) # {}
      BY <2>2, Zenon
    <2> QED
      BY <2>1, <2>3, LeastRunnable, Zenon DEF FirstOf
  <1>2. CASE higher = {} /\ current_priority \in ready
    <2>1. sel = NextOf(st, current_priority)
      BY <1>2 DEF select_next_process
    <2> DEFINE own == {i \in DOMAIN run_queue[current_priority] :
                          run_queue[current_priority][i] = current_pid}
               after == {i \in RunnableAt(st, current_priority) : own # {} /\ i > Min(own)}
               from == IF after # {} THEN after ELSE RunnableAt(st, current_priority)
    <2>2. sel = run_queue[current_priority][Min(from)]
      BY <2>1 DEF NextOf
    <2>3. from \in SUBSET RunnableAt(st, current_priority) /\ from # {}
      BY <1>2, Zenon
    <2> HIDE DEF from
    <2> QED
      BY <2>2, <2>3, LeastRunnable
  <1>3. CASE higher = {} /\ current_priority \notin ready /\ ready # {}
    <2>1. sel = FirstOf(st, Max(ready))
      BY <1>3 DEF select_next_process
    <2>2. Max(ready) \in ready
      <3>1. ready \in SUBSET Priority
        OBVIOUS
      <3> HIDE DEF ready
      <3> QED
        BY <1>3, <3>1, MaxPriority
    <2>3. Max(ready) \in Priority /\ RunnableAt(st, Max(ready)) # {}
      BY <2>2, Zenon
    <2> QED
      BY <2>1, <2>3, LeastRunnable, Zenon DEF FirstOf
  <1>4. CASE ready = {}
    <2>1. sel = NoPid
      BY <1>4 DEF select_next_process
    <2> QED
      BY <1>4, <2>1
  <1> QED
    BY <1>1, <1>2, <1>3, <1>4

\* The idle task is in the run queue of the lowest priority.
LEMMA IdleQueued ==
    ASSUME IInv
    PROVE  InQueue(idle_pid, MIN_PRIORITY)
  <1>1. idle_pid \in Pid /\ gc_pid \in Pid
    BY SchedulerAssumption DEF Pid, idle_pid, gc_pid
  <1>2. MIN_PRIORITY \in Priority
    BY DEF Priority, MIN_PRIORITY, MAX_PRIORITY
  <1>3. state[idle_pid] \in {"READY", "RUNNING"} /\ priority[idle_pid] = MIN_PRIORITY
    BY DEF IInv, IdleReady
  <1>4. ASSUME NEW q \in Pid, pc[q] = "push"
        PROVE  arg[q] # idle_pid
    BY <1>4 DEF IInv, PickedFree, FillPlaces
  <1>5. ~(slot = idle_pid /\ pc[gc_pid] \in {"clean", "release"})
    BY <1>3 DEF IInv, GcClean, CleaningPlaces
  <1>6. ~Unqueued(idle_pid)
    BY <1>3, <1>4, <1>5 DEF Unqueued
  <1> QED
    BY <1>1, <1>2, <1>3, <1>6 DEF IInv, RunQueuesExact

\* As long as the idle task can run, a switch finds a process that can run,
\* and the kernel does not stop.
LEMMA SwitchFinds ==
    ASSUME IInv, NEW st, Runnable(st, idle_pid), SelectAndSwitch(st)
    PROVE  \E new \in Pid :
              /\ new = select_next_process(st)
              /\ Runnable(st, new) /\ ~Unqueued(new)
              /\ current_pid' = new
              /\ state' = IF new = current_pid THEN st ELSE [st EXCEPT ![new] = "RUNNING"]
              /\ panic' = panic
  <1>1. run_queue \in [Priority -> Seq(Pid)] /\ priority[current_pid] \in Priority
    BY DEF IInv, TypeOK
  <1>2. MIN_PRIORITY \in Priority
    BY DEF Priority, MIN_PRIORITY, MAX_PRIORITY
  <1>3. RunnableAt(st, MIN_PRIORITY) # {}
    BY IdleQueued DEF InQueue, RunnableAt
  <1>4. /\ select_next_process(st) \in Pid /\ Runnable(st, select_next_process(st))
        /\ \E q \in Priority : InQueue(select_next_process(st), q)
    BY <1>1, <1>2, <1>3, SelectedCanRun
  <1>5. select_next_process(st) # NoPid
    BY <1>4, SchedulerAssumption DEF Pid, NoPid
  <1>6. ~Unqueued(select_next_process(st))
    BY <1>4 DEF IInv, RunQueuesExact
  <1> QED
    BY <1>4, <1>5, <1>6 DEF SelectAndSwitch, switch_to_process

\* Erasing a process from a queue without duplicates removes it, and only it,
\* and leaves no duplicate.
LEMMA EraseRemoves ==
    ASSUME NEW s \in Seq(Pid), NEW e,
           \A i, j \in DOMAIN s : s[i] = s[j] => i = j
    PROVE  /\ EraseFirst(s, e) \in Seq(Pid)
           /\ \A i, j \in DOMAIN EraseFirst(s, e) :
                 EraseFirst(s, e)[i] = EraseFirst(s, e)[j] => i = j
           /\ \A p : (\E i \in DOMAIN EraseFirst(s, e) : EraseFirst(s, e)[i] = p)
                       <=> (p # e /\ \E i \in DOMAIN s : s[i] = p)
  <1> DEFINE at == {i \in DOMAIN s : s[i] = e}
             m == Min(at)
             t == SubSeq(s, 1, m - 1) \o SubSeq(s, m + 1, Len(s))
  <1>1. CASE at = {}
    BY <1>1 DEF EraseFirst
  <1>2. CASE at # {}
    <2>1. at \in SUBSET Nat
      OBVIOUS
    <2>2. m \in at
      <3> HIDE DEF at
      <3> QED
        BY <1>2, <2>1, MinProperties
    <2>3. m \in 1 .. Len(s) /\ s[m] = e
      BY <2>2
    <2>4. EraseFirst(s, e) = t
      BY <1>2, Zenon DEF EraseFirst
    <2> HIDE DEF m, at
    <2>5. /\ t \in Seq(Pid)
          /\ Len(t) = Len(s) - 1
          /\ \A i \in 1 .. Len(s) - 1 : t[i] = IF i < m THEN s[i] ELSE s[i + 1]
      <3> DEFINE a == SubSeq(s, 1, m - 1)
                 b == SubSeq(s, m + 1, Len(s))
      <3>1. /\ a \in Seq(Pid) /\ Len(a) = m - 1
            /\ \A i \in 1 .. m - 1 : a[i] = s[i]
        BY <2>3
      <3>2. /\ b \in Seq(Pid) /\ Len(b) = Len(s) - m
            /\ \A i \in 1 .. Len(s) - m : b[i] = s[m + i]
        BY <2>3
      <3> HIDE DEF a, b
      <3>3. /\ a \o b \in Seq(Pid) /\ Len(a \o b) = Len(a) + Len(b)
            /\ \A i \in 1 .. Len(a) + Len(b) :
                  (a \o b)[i] = IF i <= Len(a) THEN a[i] ELSE b[i - Len(a)]
        BY <3>1, <3>2, Concatenation, ZenonT(40)
      <3>4. /\ a \o b \in Seq(Pid) /\ Len(a \o b) = Len(s) - 1
            /\ \A i \in 1 .. Len(s) - 1 :
                  (a \o b)[i] = IF i < m THEN s[i] ELSE s[i + 1]
        <4> DEFINE u == a \o b
        <4>1. /\ u \in Seq(Pid) /\ Len(u) = Len(a) + Len(b)
              /\ \A i \in 1 .. Len(a) + Len(b) :
                    u[i] = IF i <= Len(a) THEN a[i] ELSE b[i - Len(a)]
          BY <3>3
        <4> HIDE DEF u
        <4>2. u \in Seq(Pid) /\ Len(u) = Len(s) - 1
          BY <2>3, <3>1, <3>2, <4>1
        <4>3. ASSUME NEW i \in 1 .. Len(s) - 1
              PROVE  u[i] = IF i < m THEN s[i] ELSE s[i + 1]
          <5>1. CASE i < m
            BY <2>3, <3>1, <3>2, <4>1, <5>1, SMTT(30), Zenon
          <5>2. CASE i >= m
            <6>1. i \in 1 .. Len(a) + Len(b) /\ ~(i <= Len(a))
              BY <2>3, <3>1, <3>2, <5>2
            <6>2. u[i] = b[i - Len(a)]
              BY <4>1, <6>1
            <6>3. i - Len(a) \in 1 .. Len(s) - m /\ m + (i - Len(a)) = i + 1
              BY <2>3, <3>1, <5>2
            <6>4. b[i - Len(a)] = s[m + (i - Len(a))]
              BY <3>2, <6>3
            <6>5. u[i] = s[i + 1]
              BY <6>2, <6>3, <6>4
            <6>6. ~(i < m)
              BY <2>3, <5>2
            <6> QED
              BY <6>5, <6>6
          <5> QED
            BY <2>3, <5>1, <5>2
        <4> QED
          BY <4>2, <4>3 DEF u
      <3> QED
        BY <3>4, Zenon DEF a, b
    <2> HIDE DEF t
    <2>6. DOMAIN t = 1 .. Len(s) - 1 /\ DOMAIN s = 1 .. Len(s) /\ Len(s) \in Nat
      BY <2>5
    <2>7. \A i, j \in DOMAIN t : t[i] = t[j] => i = j
      BY <2>3, <2>5, <2>6, SMTT(30), Zenon
    <2>8. ASSUME NEW p, NEW i \in DOMAIN t, t[i] = p
          PROVE  p # e /\ \E j \in DOMAIN s : s[j] = p
      BY <2>3, <2>5, <2>6, <2>8, SMTT(30), Zenon
    <2>9. ASSUME NEW p, p # e, NEW i \in DOMAIN s, s[i] = p
          PROVE  \E j \in DOMAIN t : t[j] = p
      <3>1. CASE i < m
        BY <2>3, <2>5, <2>6, <2>9, <3>1
      <3>2. CASE i > m
        <4>1. i - 1 \in DOMAIN t /\ t[i - 1] = s[i]
          BY <2>3, <2>5, <2>6, <3>2
        <4> QED
          BY <2>9, <4>1
      <3> QED
        BY <2>3, <2>6, <2>9, <3>1, <3>2
    <2> QED
      BY <2>4, <2>5, <2>7, <2>8, <2>9, Zenon
  <1> QED
    BY <1>1, <1>2

\* get_free_pid, the choice of a slot.
LEMMA get_free_pid_Inv ==
    ASSUME IInv, NEW p \in Pid, get_free_pid(p), panic' = "none"
    PROVE  IInv'
  <1>1. /\ pc[p] = "pick" /\ p = current_pid
        /\ UNCHANGED <<state, rounds, sleep_timeout, current_pid, next_pid, slot>>
    BY DEF get_free_pid, At, Goto, pcbVars, clockVars
  <1>2. p # idle_pid /\ p # gc_pid
    BY <1>1, UserPlace DEF IdlePlaces, GcPlaces, CleaningPlaces
  <1>3. PICK l \in {"pick_next", "pick_found"}, c \in Pid \cup {NoPid} :
           /\ pc' = [pc EXCEPT ![p] = l] /\ arg' = [arg EXCEPT ![p] = c]
           /\ l = "pick_next" => state[next_pid] = "EMPTY"
           /\ l = "pick_found" => c \in Pid /\ state[c] = "EMPTY"
    <2>1. arg = [arg EXCEPT ![p] = arg[p]] /\ arg[p] \in Pid \cup {NoPid}
      BY SameLocals
    <2>2. CASE state[next_pid] = "EMPTY"
      BY <2>1, <2>2 DEF get_free_pid, Goto
    <2>3. CASE state[next_pid] # "EMPTY"
      <3> DEFINE c == (next_pid + Min(Scan)) % MAX_PROCESS
      <3>1. Scan # {}
        BY <2>3 DEF get_free_pid
      <3>2. PICK i \in Scan : i = Min(Scan)
        <4>1. Scan \in SUBSET Nat
          BY DEF Scan
        <4> QED
          BY <3>1, <4>1, MinProperties, Zenon
      <3>3. i \in Nat /\ state[(next_pid + i) % MAX_PROCESS] = "EMPTY"
        BY <3>2 DEF Scan
      <3>4. next_pid + i \in Nat
        BY <3>3, Constants DEF IInv, TypeOK
      <3>5. c \in Pid /\ state[c] = "EMPTY"
        BY <3>2, <3>3, <3>4, Constants, SchedulerAssumption
      <3>6. arg' = [arg EXCEPT ![p] = c] /\ pc' = [pc EXCEPT ![p] = "pick_found"]
        BY <2>3, <3>1 DEF get_free_pid, Goto
      <3> HIDE DEF c
      <3> QED
        BY <3>5, <3>6, Zenon
    <2> QED
      BY <2>2, <2>3
  <1>4. l = "pick_found" => c \in Pid \ {idle_pid, gc_pid}
    BY <1>3 DEF IInv, IdleReady, GcClean
  <1>5. UNCHANGED <<op, pid, ppid, priority, run_queue, panic>>
    BY DEF get_free_pid, At, pcbVars
  <1>6. Goes(p, l, op[p], c)
    BY <1>1, <1>2, <1>3, <1>4, <1>5, SameLocals DEF get_free_pid, At, Goto, pcbVars, clockVars, Goes, Places
  <1>7. OwnPlace(p, l, op[p], c)
    BY <1>1, <1>2, <1>3, <1>4, <1>5 DEF OwnPlace, IdlePlaces, GcPlaces, CleaningPlaces
  <1>8. SlotFits(p, l, c)
    BY <1>1, <1>2, <1>3, <1>4, <1>5 DEF IInv, TypeOK, SlotFits, FillPlaces, CleaningPlaces
  <1>9. state[p] # "WAITING"
    BY <1>1 DEF IInv, WaitersAwait
  <1> QED
    BY <1>1, <1>2, <1>6, <1>7, <1>8, <1>9, MoveInv

\* gc_task, the search for a killed process.
LEMMA gc_scan_Inv ==
    ASSUME IInv, NEW p \in Pid, gc_scan(p)
    PROVE  IInv'
  <1>1. /\ pc[p] = "scan" /\ p = current_pid
        /\ UNCHANGED <<state, rounds, sleep_timeout, current_pid, next_pid>>
    BY DEF gc_scan, At, Goto, pcbVars, clockVars
  <1>2. p = gc_pid /\ p # idle_pid
    BY <1>1, Constants DEF IInv, CodeOfTask, IdlePlaces, GcPlaces, CleaningPlaces
  <1>3. PICK l \in {"notify", "block"} :
           /\ pc' = [pc EXCEPT ![p] = l] /\ slot' \in 0 .. MAX_PROCESS
           /\ l = "notify" => slot' \in Pid /\ state[slot'] = "KILLED"
    <2> DEFINE killed == {s \in slot .. MAX_PROCESS - 1 : state[s] = "KILLED"}
    <2>1. CASE killed # {}
      <3>1. killed \in SUBSET Nat
        BY DEF IInv, TypeOK
      <3>2. PICK m \in killed : m = Min(killed)
        <4> HIDE DEF killed
        <4> QED
          BY <2>1, <3>1, MinProperties, Zenon
      <3>3. slot' = Min(killed) /\ pc' = [pc EXCEPT ![p] = "notify"]
        BY <2>1 DEF gc_scan, Goto
      <3>4. m \in Nat /\ m <= MAX_PROCESS - 1 /\ state[m] = "KILLED"
        BY <3>2 DEF IInv, TypeOK
      <3>5. m \in Pid /\ m \in 0 .. MAX_PROCESS
        BY <3>4, Constants
      <3> QED
        BY <3>2, <3>3, <3>4, <3>5
    <2>2. CASE killed = {}
      <3>1. slot' = 0 /\ pc' = [pc EXCEPT ![p] = "block"]
        BY <2>2 DEF gc_scan, Goto
      <3> QED
        BY <3>1, Constants
    <2> QED
      BY <2>1, <2>2
  <1>4. state[p] # "KILLED"
    BY <1>2 DEF IInv, GcClean
  <1>5. Goes(p, l, op[p], arg[p])
    BY <1>1, <1>2, <1>3, <1>4, SameLocals DEF gc_scan, At, Goto, pcbVars, clockVars, Goes, Places
  <1>6. OwnPlace(p, l, op[p], arg[p])
    BY <1>1, <1>2, <1>3, <1>4 DEF OwnPlace, IdlePlaces, GcPlaces, CleaningPlaces
  <1>7. SlotFits(p, l, arg[p])
    BY <1>1, <1>2, <1>3, <1>4 DEF IInv, TypeOK, SlotFits, FillPlaces, CleaningPlaces
  <1>8. state[p] # "WAITING"
    BY <1>1 DEF IInv, WaitersAwait
  <1> QED
    BY <1>1, <1>2, <1>5, <1>6, <1>7, <1>8, MoveInv

\* What a switch does to the states and to the CPU, when the states st it looks
\* at are such that the other processes have only been woken up.
LEMMA SwitchMoves ==
    ASSUME IInv, NEW st \in [Pid -> process_state],
           st[idle_pid] \in {"READY", "RUNNING"}, SelectAndSwitch(st),
           \A x \in Pid \ {current_pid} :
              \/ st[x] = state[x]
              \/ ~Unqueued(x) /\ state[x] # "KILLED" /\ st[x] \in {"READY", "RUNNING"}
    PROVE  \E new \in Pid :
              /\ current_pid' = new /\ panic' = panic
              /\ new = select_next_process(st)
              /\ CpuMoves(current_pid)
              /\ state' \in [Pid -> process_state]
              /\ st[new] \in {"READY", "RUNNING"}
              /\ \A x \in Pid \ {new} : state'[x] = st[x]
              /\ state'[new] = IF new = current_pid THEN st[new] ELSE "RUNNING"
              /\ \A x \in Pid \ {current_pid} :
                    \/ state'[x] = state[x]
                    \/ ~Unqueued(x) /\ state[x] # "KILLED" /\ state'[x] \in {"READY", "RUNNING"}
  <1>1. PICK new \in Pid :
              /\ new = select_next_process(st)
              /\ Runnable(st, new) /\ ~Unqueued(new)
              /\ current_pid' = new
              /\ state' = IF new = current_pid THEN st ELSE [st EXCEPT ![new] = "RUNNING"]
              /\ panic' = panic
    BY SwitchFinds DEF Runnable
  <1>2. st[new] \in {"READY", "RUNNING"}
    BY <1>1 DEF Runnable
  <1>3. state' \in [Pid -> process_state]
    BY <1>1 DEF process_state
  <1>4. /\ \A x \in Pid \ {new} : state'[x] = st[x]
        /\ state'[new] = IF new = current_pid THEN st[new] ELSE "RUNNING"
    BY <1>1
  <1>5. new # current_pid => state[new] # "KILLED"
    BY <1>2
  <1>6. CpuMoves(current_pid)
    BY <1>1, <1>2, <1>4, <1>5 DEF CpuMoves
  <1>7. ASSUME NEW x \in Pid \ {current_pid}
        PROVE  \/ state'[x] = state[x]
               \/ ~Unqueued(x) /\ state[x] # "KILLED" /\ state'[x] \in {"READY", "RUNNING"}
    BY <1>1, <1>2, <1>4, <1>5
  <1> QED
    BY <1>1, <1>2, <1>3, <1>4, <1>6, <1>7, Zenon

\* reschedule(), the switch under the lock.
LEMMA reschedule_switch_Inv ==
    ASSUME IInv, NEW p \in Pid, reschedule_switch(p)
    PROVE  IInv'
  <1>1. /\ pc[p] = "switch" /\ p = current_pid /\ SelectAndSwitch(state)
        /\ pc' = [pc EXCEPT ![p] = Return[op[p]]]
        /\ UNCHANGED <<pid, ppid, priority, rounds, sleep_timeout, run_queue, next_pid, op, arg, slot>>
    BY Zenon DEF reschedule_switch, At, Goto, pcbVars, clockVars
  <1>2. p # idle_pid
    BY <1>1 DEF IInv, CodeOfTask, IdlePlaces
  <1>3. state \in [Pid -> process_state] /\ state[idle_pid] \in {"READY", "RUNNING"}
    BY DEF IInv, TypeOK, IdleReady
  <1>4. PICK new \in Pid :
              /\ current_pid' = new /\ panic' = panic
              /\ CpuMoves(current_pid)
              /\ state' \in [Pid -> process_state]
              /\ state[new] \in {"READY", "RUNNING"}
              /\ \A x \in Pid \ {new} : state'[x] = state[x]
              /\ state'[new] = IF new = current_pid THEN state[new] ELSE "RUNNING"
              /\ \A x \in Pid \ {current_pid} :
                    \/ state'[x] = state[x]
                    \/ ~Unqueued(x) /\ state[x] # "KILLED" /\ state'[x] \in {"READY", "RUNNING"}
    BY <1>1, <1>3, SwitchMoves, Zenon
  <1>5. PICK l \in Places :
           /\ l = Return[op[p]]
           /\ p = gc_pid => l = "scan"
           /\ p # gc_pid => l \in {"run", "await", "dead"} /\ (op[p] = "await" => l = "await")
    BY <1>1 DEF IInv, CodeOfTask, Return, Places
  <1>6. Goes(p, l, op[p], arg[p])
    BY <1>1, <1>4, <1>5, SameLocals DEF Goes
  <1>7. OwnPlace(p, l, op[p], arg[p])
    BY <1>1, <1>2, <1>5, Zenon DEF OwnPlace, IdlePlaces, GcPlaces, CleaningPlaces
  <1>8. SlotFits(p, l, arg[p])
    BY <1>1, <1>5, SMTT(30), Zenon DEF IInv, TypeOK, SlotFits, FillPlaces, CleaningPlaces
  <1>9. StatesMove(p, l, op[p], arg[p])
    <2>1. state'[p] = state[p] /\ state[p] \notin {"EMPTY", "NEW"}
      BY <1>1, <1>4 DEF IInv, WaitersAwait
    <2>2. state'[p] = "WAITING" =>
             /\ l = "await" /\ p # current_pid'
             /\ (arg[p] \in Pid /\ ppid[arg[p]] = p /\ pid[arg[p]] = arg[p])
                   => state'[arg[p]] \notin {"KILLED", "EMPTY"}
      <3> HAVE state'[p] = "WAITING"
      <3>1. op[p] = "await" /\ p # gc_pid
        BY <1>1, <2>1, Zenon DEF IInv, WaitersAwait, CodeOfTask
      <3>2. (arg[p] \in Pid /\ ppid[arg[p]] = p /\ pid[arg[p]] = arg[p])
                   => state[arg[p]] \notin {"KILLED", "EMPTY"}
        BY <2>1, Zenon DEF IInv, AwaitNeverMissesKill
      <3> QED
        BY <1>1, <1>4, <1>5, <2>1, <3>1, <3>2
    <2>3. state'[idle_pid] \in {"READY", "RUNNING"} /\ (current_pid' = idle_pid => state'[idle_pid] = "RUNNING")
      BY <1>1, <1>2, <1>3, <1>4, Constants
    <2>4. state'[gc_pid] \in {"READY", "RUNNING", "BLOCKED"}
      BY <1>4, Constants DEF IInv, GcClean
    <2> QED
      BY <1>1, <1>4, <2>1, <2>2, <2>3, <2>4, Zenon DEF StatesMove
  <1>10. ClocksMove
    BY <1>1, <1>4 DEF IInv, TypeOK, ClocksMove, SleepersTimed, Sleepers
  <1> QED
    BY <1>1, <1>4, <1>6, <1>7, <1>8, <1>9, <1>10, StepInv, Zenon

\* yield(), under its lock.
LEMMA yield_lock_Inv ==
    ASSUME IInv, NEW p \in Pid, yield_lock(p)
    PROVE  IInv'
  <1>1. /\ pc[p] = "yield_lock" /\ p = current_pid /\ pc' = [pc EXCEPT ![p] = "hlt"]
        /\ UNCHANGED <<pid, ppid, priority, rounds, sleep_timeout, run_queue, next_pid, op, arg, slot>>
    BY DEF yield_lock, At, Goto, pcbVars, clockVars
  <1>2. p = idle_pid /\ p # gc_pid
    BY <1>1, Constants DEF IInv, CodeOfTask, IdlePlaces, GcPlaces, CleaningPlaces
  <1>3. OwnPlace(p, "hlt", op[p], arg[p]) /\ SlotFits(p, "hlt", arg[p])
    <2>1. OwnPlace(p, "hlt", op[p], arg[p])
      BY <1>1, <1>2 DEF OwnPlace, IdlePlaces
    <2>2. SlotFits(p, "hlt", arg[p])
      BY <1>1, <1>2 DEF IInv, TypeOK, SlotFits, FillPlaces
    <2> QED
      BY <2>1, <2>2
  <1>4. ASSUME panic' = panic
        PROVE  Goes(p, "hlt", op[p], arg[p])
    BY <1>1, <1>4, SameLocals DEF Goes, Places
  <1>5. CASE select_next_process(state) = p
    <2>1. state' = [state EXCEPT ![p] = "RUNNING"] /\ UNCHANGED <<current_pid, panic>>
      BY <1>5 DEF yield_lock
    <2>2. ClocksMove
      BY <1>1, <2>1 DEF IInv, TypeOK, ClocksMove, SleepersTimed, Sleepers
    <2>3. "RUNNING" \in process_state \ {"EMPTY", "NEW", "KILLED"}
      BY DEF process_state
    <2>4. OwnState(p, "RUNNING", "hlt", op[p], arg[p])
      BY <1>2, <2>1, <2>3 DEF OwnState
    <2>5. Goes(p, "hlt", op[p], arg[p])
      BY <1>4, <2>1
    <2> QED
      BY <1>3, <2>2, <2>4, <2>5, OwnStateInv, Zenon
  <1>6. CASE select_next_process(state) # p
    <2>1. SelectAndSwitch(state)
      BY <1>6 DEF yield_lock
    <2>2. state \in [Pid -> process_state] /\ state[idle_pid] \in {"READY", "RUNNING"}
      BY DEF IInv, TypeOK, IdleReady
    <2>3. PICK new \in Pid :
              /\ current_pid' = new /\ panic' = panic
              /\ new = select_next_process(state)
              /\ CpuMoves(current_pid)
              /\ state' \in [Pid -> process_state]
              /\ state[new] \in {"READY", "RUNNING"}
              /\ \A x \in Pid \ {new} : state'[x] = state[x]
              /\ state'[new] = IF new = current_pid THEN state[new] ELSE "RUNNING"
              /\ \A x \in Pid \ {current_pid} :
                    \/ state'[x] = state[x]
                    \/ ~Unqueued(x) /\ state[x] # "KILLED" /\ state'[x] \in {"READY", "RUNNING"}
      BY <2>1, <2>2, SwitchMoves
    <2>4. StatesMove(p, "hlt", op[p], arg[p])
      <3>1. new # p /\ state'[p] = state[p] /\ state[p] \in {"READY", "RUNNING"}
        BY <1>2, <1>6, <2>2, <2>3
      <3>2. state'[gc_pid] \in {"READY", "RUNNING", "BLOCKED"}
        BY <2>3, Constants DEF IInv, GcClean
      <3> QED
        BY <1>1, <1>2, <2>3, <3>1, <3>2, Zenon DEF StatesMove
    <2>5. ClocksMove
      BY <1>1, <2>3, SMTT(30), Zenon DEF IInv, TypeOK, ClocksMove, SleepersTimed, Sleepers
    <2> QED
      BY <1>1, <1>3, <1>4, <2>3, <2>4, <2>5, StepInv, Zenon
  <1> QED
    BY <1>5, <1>6

\* A fault: the process is killed and another one gets the CPU at once.
LEMMA fault_Inv ==
    ASSUME IInv, NEW p \in Pid, fault(p)
    PROVE  IInv'
  <1>1. /\ pc[p] \in {"run", "returned"} /\ p = current_pid /\ pc' = [pc EXCEPT ![p] = "dead"]
        /\ op' = [op EXCEPT ![p] = "kill"] /\ SelectAndSwitch(KilledBy(p))
        /\ UNCHANGED <<pid, ppid, priority, rounds, sleep_timeout, run_queue, next_pid, arg, slot>>
    BY Zenon DEF fault, MayFault, Goto, pcbVars, clockVars
  <1>2. p # idle_pid /\ p # gc_pid
    BY <1>1, UserPlace DEF IdlePlaces, GcPlaces, CleaningPlaces
  <1>3. PICK st \in [Pid -> process_state] :
           /\ SelectAndSwitch(st)
           /\ st[p] = "KILLED"
           /\ \A x \in Pid \ {p} :
                 \/ st[x] = state[x]
                 \/ ~Unqueued(x) /\ state[x] # "KILLED" /\ st[x] = "READY"
           /\ \A x \in Pid \ {p} : pid[x] = ppid[p] => st[x] # "WAITING"
           /\ st[idle_pid] \in {"READY", "RUNNING"}
           /\ st[gc_pid] \in {"READY", "RUNNING", "BLOCKED"}
    <2>1. KilledBy(p)[idle_pid] \in {"READY", "RUNNING"}
      BY <1>2, KilledByMoves DEF IInv, IdleReady
    <2> QED
      BY <1>1, <1>2, <2>1, KilledByMoves, Zenon
  <1>4. PICK new \in Pid :
              /\ current_pid' = new /\ panic' = panic
              /\ CpuMoves(current_pid)
              /\ state' \in [Pid -> process_state]
              /\ st[new] \in {"READY", "RUNNING"}
              /\ \A x \in Pid \ {new} : state'[x] = st[x]
              /\ state'[new] = IF new = current_pid THEN st[new] ELSE "RUNNING"
              /\ \A x \in Pid \ {current_pid} :
                    \/ state'[x] = state[x]
                    \/ ~Unqueued(x) /\ state[x] # "KILLED" /\ state'[x] \in {"READY", "RUNNING"}
    BY <1>1, <1>3, SwitchMoves, Zenon
  <1>5. new # p
    BY <1>3, <1>4, Zenon
  <1>6. Goes(p, "dead", "kill", arg[p])
    BY <1>1, <1>4, SameLocals DEF Goes, Places
  <1>7. OwnPlace(p, "dead", "kill", arg[p])
    BY <1>1, <1>2 DEF OwnPlace, IdlePlaces, GcPlaces, CleaningPlaces
  <1>8. SlotFits(p, "dead", arg[p])
    BY <1>1, <1>2 DEF IInv, TypeOK, SlotFits, FillPlaces
  <1>9. StatesMove(p, "dead", "kill", arg[p])
    <2>1. state'[p] = "KILLED"
      BY <1>3, <1>4, <1>5, Zenon
    <2>2. \A x \in Pid \ {p} : pid[x] = ppid[p] => state'[x] # "WAITING"
      BY <1>1, <1>3, <1>4, <1>5, ZenonT(40)
    <2>3. state'[idle_pid] \in {"READY", "RUNNING"} /\ (current_pid' = idle_pid => state'[idle_pid] = "RUNNING")
      BY <1>1, <1>2, <1>3, <1>4, Constants
    <2>4. state'[gc_pid] \in {"READY", "RUNNING", "BLOCKED"}
      BY <1>3, <1>4, Constants, Zenon
    <2> QED
      BY <1>1, <1>4, <2>1, <2>2, <2>3, <2>4, Zenon DEF StatesMove
  <1>10. ClocksMove
    <2>1. \A x \in Pid : state'[x] \in {"READY", "RUNNING", "KILLED"} \/ state'[x] = state[x]
      BY <1>3, <1>4, ZenonT(40)
    <2> QED
      BY <1>1, <2>1, Zenon DEF IInv, TypeOK, ClocksMove, SleepersTimed, Sleepers
  <1> QED
    BY <1>1, <1>4, <1>6, <1>7, <1>8, <1>9, <1>10, StepInv, Zenon

\* await_termination, whether the child is alive or not.
LEMMA await_termination_Inv ==
    ASSUME IInv, NEW p \in Pid, await_termination(p)
    PROVE  IInv'
  <1>1. /\ pc[p] = "await" /\ p = current_pid
        /\ UNCHANGED <<pid, ppid, priority, rounds, sleep_timeout, run_queue, current_pid,
                       next_pid, slot, panic>>
    BY DEF await_termination, At, pcbVars, clockVars
  <1>2. p # idle_pid /\ p # gc_pid
    BY <1>1, UserPlace DEF IdlePlaces, GcPlaces, CleaningPlaces
  <1>3. CASE StillAlive(p, arg[p])
    <2>1. /\ state' = [state EXCEPT ![p] = "WAITING"] /\ pc' = [pc EXCEPT ![p] = "resched"]
          /\ op' = [op EXCEPT ![p] = "await"] /\ arg' = arg
      BY <1>3 DEF await_termination, Goto
    <2>2. ASSUME arg[p] \in Pid
          PROVE  state[arg[p]] \notin {"KILLED", "EMPTY"}
      <3>0. PICK c \in Pid : c = arg[p]
        BY <2>2
      <3>1. PICK q \in Awaited(p, c) : q = Min(Awaited(p, c)) /\ state[q] \notin {"KILLED", "EMPTY"}
        <4>1. Awaited(p, c) \in SUBSET Nat
          BY Constants DEF Awaited
        <4>2. Awaited(p, c) # {} /\ state[Min(Awaited(p, c))] \notin {"KILLED", "EMPTY"}
          BY <1>3, <3>0 DEF StillAlive
        <4> QED
          BY <4>1, <4>2, MinProperties
      <3>2. q \in Pid /\ ppid[q] = p /\ pid[q] = c
        BY <3>1 DEF Awaited
      <3>3. q = c
        BY <1>2, <3>2, Constants DEF IInv, PidOfSlot
      <3> QED
        BY <3>0, <3>1, <3>3
    <2>3. Goes(p, "resched", "await", arg[p])
      BY <1>1, <2>1, SameLocals, SMTT(30), Zenon DEF Goes, Places
    <2>4. OwnPlace(p, "resched", "await", arg[p])
      BY <1>1, <1>2 DEF OwnPlace, IdlePlaces, GcPlaces, CleaningPlaces
    <2>5. SlotFits(p, "resched", arg[p])
      BY <1>1, <1>2 DEF IInv, TypeOK, SlotFits, FillPlaces
    <2>6. ClocksMove
      <3>1. \A x \in Pid : state'[x] = "WAITING" \/ state'[x] = state[x]
        BY <2>1 DEF IInv, TypeOK
      <3> QED
        BY <1>1, <3>1 DEF IInv, TypeOK, ClocksMove, SleepersTimed, Sleepers
    <2>7. "WAITING" \in process_state \ {"EMPTY", "NEW", "KILLED"}
      BY DEF process_state
    <2>8. /\ current_pid' = current_pid /\ state' = [state EXCEPT ![p] = "WAITING"]
          /\ p # idle_pid /\ p # gc_pid
      BY <1>1, <1>2, <2>1
    <2>9. (arg[p] \in Pid /\ ppid[arg[p]] = p /\ pid[arg[p]] = arg[p])
             => state[arg[p]] \notin {"KILLED", "EMPTY"}
      BY <2>2
    <2>10. OwnState(p, "WAITING", "resched", "await", arg[p])
      BY <2>7, <2>8, <2>9 DEF OwnState
    <2> QED
      BY <2>3, <2>4, <2>5, <2>6, <2>10, OwnStateInv, Zenon
  <1>4. CASE ~StillAlive(p, arg[p])
    <2>1. /\ arg' = [arg EXCEPT ![p] = NoPid] /\ pc' = [pc EXCEPT ![p] = "run"]
          /\ UNCHANGED <<state, op>>
      BY <1>4 DEF await_termination, Goto
    <2>2. Goes(p, "run", op[p], NoPid)
      BY <1>1, <2>1, SameLocals DEF Goes, Places
    <2>3. OwnPlace(p, "run", op[p], NoPid)
      BY <1>1, <1>2 DEF OwnPlace, IdlePlaces, GcPlaces, CleaningPlaces
    <2>4. SlotFits(p, "run", NoPid)
      BY <1>1, <1>2, Zenon DEF IInv, TypeOK, SlotFits, FillPlaces
    <2>5. state[p] # "WAITING"
      BY <1>1, Zenon DEF IInv, WaitersAwait
    <2> QED
      BY <1>1, <1>2, <2>1, <2>2, <2>3, <2>4, <2>5, MoveInv, Zenon
  <1> QED
    BY <1>3, <1>4

\* A tick of the timer.
LEMMA tick_Inv ==
    ASSUME IInv, tick
    PROVE  IInv'
  <1> DEFINE p == current_pid
  <1>1. /\ sleep_timeout' = [x \in Pid |-> IF x \in Sleepers THEN sleep_timeout[x] - 1
                                           ELSE sleep_timeout[x]]
        /\ UNCHANGED <<pid, ppid, priority, run_queue, next_pid, op, arg, slot>>
    BY DEF tick, pcbVars
  <1>2. p \in Pid
    BY DEF IInv, TypeOK
  <1>3. PICK l \in Places : /\ pc' = [pc EXCEPT ![p] = l]
                            /\ l = pc[p] \/ (pc[p] = "hlt" /\ l = "yield")
    BY <1>2, SameLocals, Zenon DEF tick, Places
  <1>4. pc[p] = "hlt" => p = idle_pid
    BY <1>2, Constants DEF IInv, CodeOfTask, IdlePlaces, GcPlaces, CleaningPlaces
  <1>5. OwnPlace(p, l, op[p], arg[p])
    <2>1. CASE l = pc[p]
      BY <1>1, <1>2, <2>1 DEF OwnPlace, IInv, CodeOfTask
    <2>2. CASE l # pc[p]
      BY <1>3, <1>4, <2>2, Constants DEF OwnPlace, IdlePlaces
    <2> QED
      BY <2>1, <2>2
  <1>6. SlotFits(p, l, arg[p])
    <2>1. CASE l = pc[p]
      <3>1. /\ l = "pick_next" => state[next_pid] = "EMPTY"
            /\ l \in FillPlaces => arg[p] \in Pid \ {idle_pid, gc_pid}
            /\ l \in {"pick_bump", "pick_found", "new"} => state[arg[p]] = "EMPTY"
            /\ l \in {"paging", "ready"} => state[arg[p]] = "NEW"
        BY <1>2, <2>1, Zenon DEF IInv, PickedFree
      <3>2. /\ p = gc_pid /\ l \in CleaningPlaces => slot \in Pid /\ state[slot] = "KILLED" /\ slot # p
            /\ p = gc_pid /\ l = "unblock" => arg[p] \in Pid
        BY <1>2, <2>1, Zenon DEF IInv, GcClean
      <3>3. l = "unblock" => p = gc_pid
        BY <1>2, <2>1, Constants, Zenon DEF IInv, CodeOfTask, IdlePlaces, GcPlaces, CleaningPlaces
      <3> QED
        BY <1>1, <3>1, <3>2, <3>3, SMTT(30), Zenon DEF IInv, TypeOK, SlotFits
    <2>2. CASE l # pc[p]
      BY <1>1, <1>3, <1>4, <2>2, Constants, Zenon DEF IInv, TypeOK, SlotFits, FillPlaces, CleaningPlaces
    <2> QED
      BY <2>1, <2>2
  <1>7. rounds' \in [Pid -> 0 .. rr_quantum]
    <2>1. CASE rounds' = [rounds EXCEPT ![p] = 0]
      BY <1>2, <2>1, SchedulerAssumption, SMTT(30), Zenon DEF IInv, TypeOK
    <2>2. CASE rounds[p] # rr_quantum /\ rounds' = [rounds EXCEPT ![p] = @ + 1]
      BY <1>2, <2>2, SchedulerAssumption, SMTT(30), Zenon DEF IInv, TypeOK
    <2> QED
      BY <2>1, <2>2, Zenon DEF tick, Preempt, NextRound
  <1>8. ASSUME \A x \in Pid : state'[x] \in {"SLEEPING", "BLOCKED_TIMEOUT"} => Woken[x] = state'[x]
        PROVE  ClocksMove
    <2>1. \A x \in Sleepers : sleep_timeout[x] \in Nat \ {0}
      BY DEF IInv, TypeOK, SleepersTimed, Sleepers
    <2>2. sleep_timeout' \in [Pid -> Nat]
      BY <1>1, <2>1 DEF IInv, TypeOK
    <2>3. ASSUME NEW x \in Pid, state'[x] \in {"SLEEPING", "BLOCKED_TIMEOUT"}
          PROVE  sleep_timeout'[x] > 0
      <3>1. Woken[x] \in {"SLEEPING", "BLOCKED_TIMEOUT"}
        BY <1>8, <2>3
      <3>2. x \in Sleepers /\ sleep_timeout[x] # 1
        BY <3>1, WokenMoves DEF Sleepers
      <3> QED
        BY <1>1, <2>1, <3>2
    <2> QED
      BY <1>7, <2>2, <2>3 DEF ClocksMove, SleepersTimed, Sleepers
  <1>9. CASE state' = Woken /\ UNCHANGED <<current_pid, panic>>
    <2>1. StatesMove(p, l, op[p], arg[p])
      <3>1. /\ state' \in [Pid -> process_state]
            /\ \A x \in Pid : \/ state'[x] = state[x]
                              \/ ~Unqueued(x) /\ state[x] # "KILLED" /\ state'[x] = "READY"
        BY <1>9, WokenMoves, SMTT(30), Zenon
      <3>2. state'[p] \notin {"EMPTY", "NEW"}
        BY <1>2, <3>1 DEF IInv, WaitersAwait
      <3>3. state'[p] = "WAITING" =>
               /\ l \in {"resched", "switch"} /\ op[p] = "await"
               /\ (arg[p] \in Pid /\ ppid[arg[p]] = p /\ pid[arg[p]] = arg[p])
                     => state'[arg[p]] \notin {"KILLED", "EMPTY"}
        <4> HAVE state'[p] = "WAITING"
        <4>1. state[p] = "WAITING"
          BY <1>2, <3>1
        <4>2. pc[p] \in {"resched", "switch"} /\ op[p] = "await"
          BY <1>2, <4>1, Zenon DEF IInv, WaitersAwait
        <4>3. (arg[p] \in Pid /\ ppid[arg[p]] = p /\ pid[arg[p]] = arg[p])
                     => state[arg[p]] \notin {"KILLED", "EMPTY"}
          BY <1>2, <4>1 DEF IInv, AwaitNeverMissesKill
        <4> QED
          BY <1>3, <3>1, <4>2, <4>3, Zenon
      <3>4. state'[idle_pid] = state[idle_pid] /\ state[idle_pid] \in {"READY", "RUNNING"}
        BY <1>9, WokenMoves, Constants DEF IInv, IdleReady
      <3>5. (current_pid' = idle_pid /\ pc'[idle_pid] # "yield_lock") => state'[idle_pid] = "RUNNING"
        <4> HAVE current_pid' = idle_pid /\ pc'[idle_pid] # "yield_lock"
        <4>1. p = idle_pid /\ pc'[p] = l /\ l # "yield_lock"
          BY <1>2, <1>3, <1>9 DEF IInv, TypeOK
        <4>2. pc[p] # "yield_lock"
          BY <1>3, <4>1
        <4> QED
          BY <3>4, <4>1, <4>2 DEF IInv, IdleReady
      <3>6. state'[gc_pid] \in {"READY", "RUNNING", "BLOCKED"}
        BY <3>1, Constants DEF IInv, GcClean
      <3>7. state'[p] = "KILLED" => state[p] = "KILLED"
        BY <1>2, <3>1
      <3> HIDE DEF p
      <3> QED
        BY <3>1, <3>2, <3>3, <3>4, <3>5, <3>6, <3>7, Zenon DEF StatesMove
    <2>2. Goes(p, l, op[p], arg[p])
      BY <1>1, <1>2, <1>3, <1>9, SameLocals DEF Goes
    <2>3. CpuMoves(p)
      BY <1>2, <1>9 DEF CpuMoves
    <2>4. ClocksMove
      BY <1>8, <1>9
    <2> QED
      BY <1>2, <1>5, <1>6, <2>1, <2>2, <2>3, <2>4, StepInv, Zenon
  <1>10. ASSUME NEW st, st = Preempted(Woken), select_next_process(st) # p, SelectAndSwitch(st)
         PROVE  IInv'
    <2>1. /\ st \in [Pid -> process_state]
          /\ st[p] \in {"READY", "BLOCKED", "BLOCKED_TIMEOUT"}
          /\ st[p] = "BLOCKED_TIMEOUT" => Woken[p] = "BLOCKED_TIMEOUT"
          /\ \A x \in Pid \ {p} : st[x] = Woken[x]
      BY <1>2, <1>10, WokenMoves DEF Preempted, process_state
    <2>2. \A x \in Pid \ {p} :
             \/ st[x] = state[x]
             \/ ~Unqueued(x) /\ state[x] # "KILLED" /\ st[x] \in {"READY", "RUNNING"}
      BY <2>1, WokenMoves
    <2>3. st[idle_pid] \in {"READY", "RUNNING"}
      <3>1. Woken[idle_pid] \in {"READY", "RUNNING"}
        BY WokenMoves, Constants DEF IInv, IdleReady
      <3>2. p = idle_pid => st[p] = "READY"
        BY <1>2, <1>10, <3>1, WokenMoves DEF Preempted
      <3> QED
        BY <2>1, <3>1, <3>2, Constants
    <2>4. PICK new \in Pid :
              /\ current_pid' = new /\ panic' = panic
              /\ new = select_next_process(st)
              /\ CpuMoves(current_pid)
              /\ state' \in [Pid -> process_state]
              /\ st[new] \in {"READY", "RUNNING"}
              /\ \A x \in Pid \ {new} : state'[x] = st[x]
              /\ state'[new] = IF new = current_pid THEN st[new] ELSE "RUNNING"
              /\ \A x \in Pid \ {current_pid} :
                    \/ state'[x] = state[x]
                    \/ ~Unqueued(x) /\ state[x] # "KILLED" /\ state'[x] \in {"READY", "RUNNING"}
      BY <1>10, <2>1, <2>2, <2>3, SwitchMoves, ZenonT(40)
    <2>5. new # p /\ state'[p] = st[p] /\ state'[new] = "RUNNING"
      BY <1>2, <1>10, <2>4
    <2>6. StatesMove(p, l, op[p], arg[p])
      <3>1. state'[idle_pid] \in {"READY", "RUNNING"} /\ (new = idle_pid => state'[idle_pid] = "RUNNING")
        BY <2>3, <2>4, <2>5, Constants
      <3>2. state'[gc_pid] \in {"READY", "RUNNING", "BLOCKED"}
        <4>1. CASE gc_pid = p
          BY <1>2, <1>10, <2>1, <2>5, <4>1, WokenMoves, Zenon DEF IInv, GcClean
        <4>2. CASE gc_pid # p
          BY <2>4, <4>2, Constants DEF IInv, GcClean
        <4> QED
          BY <4>1, <4>2
      <3>3. state'[p] \in {"READY", "BLOCKED", "BLOCKED_TIMEOUT"}
        BY <2>1, <2>5
      <3> QED
        BY <2>4, <3>1, <3>2, <3>3, Zenon DEF StatesMove
    <2>7. Goes(p, l, op[p], arg[p])
      BY <1>1, <1>2, <1>3, <2>4, SameLocals DEF Goes
    <2>8. ClocksMove
      <3>1. \A x \in Pid : state'[x] \in {"SLEEPING", "BLOCKED_TIMEOUT"} => Woken[x] = state'[x]
        BY <2>1, <2>4, <2>5
      <3> QED
        BY <1>8, <3>1
    <2> QED
      BY <1>2, <1>5, <1>6, <2>4, <2>6, <2>7, <2>8, StepInv, Zenon
  <1> QED
    BY <1>9, <1>10 DEF tick, Preempt, NextRound

\* gc_task erases the slot it cleans from its run queue.
LEMMA gc_erase_Inv ==
    ASSUME IInv, NEW p \in Pid, gc_erase(p)
    PROVE  IInv'
  <1>1. /\ pc[p] = "erase" /\ p = current_pid /\ pc' = [pc EXCEPT ![p] = "clean"]
        /\ run_queue' = [run_queue EXCEPT ![priority[slot]] = EraseFirst(@, pid[slot])]
        /\ UNCHANGED <<state, pid, ppid, priority, rounds, sleep_timeout, current_pid,
                       next_pid, op, arg, slot, panic>>
    BY DEF gc_erase, At, Goto, pcbVars, clockVars
  <1>2. p = gc_pid /\ p # idle_pid
    BY <1>1, Constants, Zenon DEF IInv, CodeOfTask, IdlePlaces, GcPlaces, CleaningPlaces
  <1>3. PICK d \in Pid : d = slot /\ state[d] = "KILLED" /\ d # p /\ pid[d] = d
    BY <1>1, <1>2, SMTT(30), Zenon DEF IInv, GcClean, CleaningPlaces, PidOfSlot
  <1>4. pc'[p] = "clean" /\ \A x \in Pid \ {p} : pc'[x] = pc[x]
    BY <1>1 DEF IInv, TypeOK
  <1>5. PICK q0 \in Priority, s \in Seq(Pid) : q0 = priority[d] /\ s = run_queue[q0]
    BY DEF IInv, TypeOK
  <1>6. PICK t \in Seq(Pid) :
           /\ t = EraseFirst(s, d)
           /\ \A i, j \in DOMAIN t : t[i] = t[j] => i = j
           /\ \A x : (\E i \in DOMAIN t : t[i] = x) <=> (x # d /\ \E i \in DOMAIN s : s[i] = x)
    <2>1. \A i, j \in DOMAIN s : s[i] = s[j] => i = j
      BY <1>5, ZenonT(40) DEF IInv, RunQueuesExact
    <2> DEFINE u == EraseFirst(s, d)
    <2>2. /\ u \in Seq(Pid)
          /\ \A i, j \in DOMAIN u : u[i] = u[j] => i = j
          /\ \A x : (\E i \in DOMAIN u : u[i] = x) <=> (x # d /\ \E i \in DOMAIN s : s[i] = x)
      BY <2>1, EraseRemoves, Zenon
    <2> HIDE DEF u
    <2>3. u = EraseFirst(s, d)
      BY DEF u
    <2> QED
      BY <2>2, <2>3, Zenon
  <1>7. run_queue'[q0] = t /\ \A q \in Priority \ {q0} : run_queue'[q] = run_queue[q]
    BY <1>1, <1>3, <1>5, <1>6 DEF IInv, TypeOK
  <1>8. TypeOK'
    <2>1. run_queue' \in [Priority -> Seq(Pid)]
      BY <1>1, <1>3, <1>5, <1>6, SMTT(30), Zenon DEF IInv, TypeOK
    <2>2. pc' \in [Pid -> Places]
      BY <1>1 DEF IInv, TypeOK, Places
    <2> QED
      BY <1>1, <2>1, <2>2, Zenon DEF IInv, TypeOK
  <1>9. CodeOfTask'
    BY <1>1, <1>2, <1>4, Constants, ZenonT(40) DEF IInv, CodeOfTask, GcPlaces, CleaningPlaces
  <1>10. IdleReady' /\ GcClean'
    <2>1. IdleReady'
      BY <1>1, <1>2, Zenon DEF IInv, IdleReady
    <2>2. GcClean'
      BY <1>1, <1>2, <1>3, <1>4, SMTT(30), Zenon DEF IInv, GcClean
    <2> QED
      BY <2>1, <2>2
  <1>11. PickedFree'
    BY <1>1, <1>4, ZenonT(40) DEF IInv, PickedFree, FillPlaces
  <1>12. PidOfSlot'
    BY <1>1, <1>2, <1>4 DEF IInv, PidOfSlot
  <1>13. WaitersAwait'
    BY <1>1, <1>4, Zenon DEF IInv, WaitersAwait
  <1>14. SleepersTimed' /\ AwaitNeverMissesKill'
    BY <1>1, Zenon DEF IInv, SleepersTimed, Sleepers, AwaitNeverMissesKill
  <1>15. SelectAlwaysFinds' /\ YieldOnlyRunning'
    BY <1>1, Zenon DEF IInv, SelectAlwaysFinds, YieldOnlyRunning
  <1>16. RunQueuesExact'
    <2>1. Unqueued(d)'
      BY <1>1, <1>2, <1>3, <1>4 DEF Unqueued
    <2>2. ASSUME NEW x \in Pid, x # d
          PROVE  Unqueued(x)' <=> Unqueued(x)
      <3>1. \A q \in Pid : pc'[q] = "push" <=> pc[q] = "push"
        BY <1>1, <1>4, Zenon
      <3> QED
        BY <1>1, <1>3, <2>2, <3>1, Zenon DEF Unqueued
    <2>3. ASSUME NEW x \in Pid
          PROVE  InQueue(x, q0)' <=> (InQueue(x, q0) /\ x # d)
      <3>1. InQueue(x, q0)' <=> \E i \in DOMAIN t : t[i] = x
        BY <1>7 DEF InQueue
      <3>2. InQueue(x, q0) <=> \E i \in DOMAIN s : s[i] = x
        BY <1>5 DEF InQueue
      <3> QED
        BY <1>6, <3>1, <3>2, Zenon
    <2>4. ASSUME NEW q \in Priority, NEW i \in DOMAIN run_queue'[q], NEW j \in DOMAIN run_queue'[q],
                 run_queue'[q][i] = run_queue'[q][j]
          PROVE  i = j
      BY <1>6, <1>7, <2>4, Zenon DEF IInv, RunQueuesExact
    <2>5. ASSUME NEW x \in Pid, NEW q \in Priority
          PROVE  InQueue(x, q)' <=> (~Unqueued(x)' /\ q = priority'[x])
      <3>1. InQueue(x, q) <=> (~Unqueued(x) /\ q = priority[x])
        BY Zenon DEF IInv, RunQueuesExact
      <3>2. CASE q = q0
        BY <1>1, <1>5, <2>1, <2>2, <2>3, <3>1, <3>2, Zenon
      <3>3. CASE q # q0
        <4>1. InQueue(x, q)' <=> InQueue(x, q)
          BY <1>7, <3>3 DEF InQueue
        <4> QED
          BY <1>1, <1>5, <2>1, <2>2, <3>1, <3>3, <4>1, Zenon
      <3> QED
        BY <3>2, <3>3
    <2> QED
      BY <2>4, <2>5, Zenon DEF RunQueuesExact
  <1> QED
    BY <1>8, <1>9, <1>10, <1>11, <1>12, <1>13, <1>14, <1>15, <1>16, SMTT(30), Zenon DEF IInv

\* A step of the current process, whichever it is.
LEMMA Step_Inv ==
    ASSUME IInv, OneExec, NEW p \in Pid, Step(p)
    PROVE  IInv'
  <1>1. CASE reschedule(p) \/ reschedule_switch(p) \/ yield(p) \/ yield_lock(p)
    BY <1>1, reschedule_Inv, reschedule_switch_Inv, yield_Inv, yield_lock_Inv
  <1>2. CASE sleep_ms(p)
    <2>1. CASE panic' = "none"
      BY <1>2, <2>1, sleep_ms_Inv
    <2>2. CASE panic' # "none"
      <3>1. Panics("Only RUNNING processes can sleep")
        BY <1>2, <2>2, Zenon DEF sleep_ms, At
      <3> QED
        BY <3>1, panic_Inv, Zenon DEF Panics, Messages, pcbVars, clockVars
    <2> QED
      BY <2>1, <2>2
  <1>3. CASE kill_current_process(p) \/ fault(p)
    BY <1>3, kill_current_process_Inv, fault_Inv
  <1>4. CASE killed_process_run(p)
    BY <1>4, panic_Inv, Zenon DEF killed_process_run, Panics, Messages, pcbVars, clockVars
  <1>5. CASE await_call(p) \/ await_termination(p)
    BY <1>5, await_call_Inv, await_termination_Inv
  <1>6. CASE get_free_pid(p)
    <2>1. CASE panic' = "none"
      BY <1>6, <2>1, get_free_pid_Inv
    <2>2. CASE panic' # "none"
      <3>1. /\ panic' = "Ran out of processes"
            /\ UNCHANGED <<state, pid, ppid, priority, rounds, sleep_timeout, run_queue,
                           current_pid, next_pid, pc, op, arg, slot>>
        BY <1>6, <2>2, Zenon DEF get_free_pid, At, pcbVars, clockVars
      <3> QED
        BY <3>1, panic_Inv, Zenon DEF Messages
    <2> QED
      BY <2>1, <2>2
  <1>7. CASE exec(p) \/ get_free_pid_take(p) \/ get_free_pid_bump(p) \/ create_paging(p)
    BY <1>7, exec_Inv, get_free_pid_take_Inv, get_free_pid_bump_Inv, create_paging_Inv
  <1>8. CASE new_process(p) \/ queue_process(p) \/ queue_process_push(p)
    BY <1>8, new_process_Inv, queue_process_Inv, queue_process_push_Inv
  <1>9. CASE gc_block(p) \/ gc_scan(p) \/ gc_notify(p)
    BY <1>9, gc_block_Inv, gc_scan_Inv, gc_notify_Inv
  <1>10. CASE gc_unblock(p)
    <2>1. CASE panic' = "none"
      BY <1>10, <2>1, gc_unblock_Inv
    <2>2. CASE panic' # "none"
      <3>1. Panics("Can only unblock BLOCKED/WAITING processes")
        BY <1>10, <2>2, Zenon DEF gc_unblock, At
      <3> QED
        BY <3>1, panic_Inv, Zenon DEF Panics, Messages, pcbVars, clockVars
    <2> QED
      BY <2>1, <2>2
  <1>11. CASE gc_erase(p) \/ gc_clean(p) \/ gc_release(p)
    BY <1>11, gc_erase_Inv, gc_clean_Inv, gc_release_Inv
  <1> QED
    BY <1>1, <1>2, <1>3, <1>4, <1>5, <1>6, <1>7, <1>8, <1>9, <1>10, <1>11, SMTT(30), Zenon
       DEF Step, exec_step, gc_task

\* As long as the calls to exec do not overlap, the inductive invariant holds:
\* exec, kill_current_process, await_termination, gc_task, yield, reschedule and
\* the timer keep what they rely on of each other.
THEOREM Invariant == Spec /\ []OneExec => []IInv
  <1>1. Init => IInv
    BY Init_Inv
  <1>2. IInv /\ OneExec /\ [Next]_vars => IInv'
    <2> SUFFICES ASSUME IInv, OneExec, [Next]_vars PROVE IInv'
      OBVIOUS
    <2>1. CASE tick
      BY <2>1, tick_Inv
    <2>2. ASSUME NEW p \in {current_pid}, Step(p)
          PROVE  IInv'
      <3>1. p \in Pid
        BY DEF IInv, TypeOK
      <3> QED
        BY <2>2, <3>1, Step_Inv
    <2>3. CASE UNCHANGED vars
      BY <2>3, Stutter_Inv
    <2> QED
      BY <2>1, <2>2, <2>3 DEF Next, suspend_kernel
  <1> QED
    BY <1>1, <1>2, PTL DEF Spec

\* Every field of the pcb array and every global of the scheduler keeps its type,
\* for any number of processes.
THEOREM Types == Spec /\ []OneExec => []TypeOK
  <1>1. IInv => TypeOK
    BY DEF IInv
  <1> QED
    BY <1>1, Invariant, PTL

\* select_next_process_with_lock never gets to its thor_unreachable: the idle
\* task stays in the queue of the lowest priority, READY or RUNNING.
THEOREM SelectFinds == Spec /\ []OneExec => []SelectAlwaysFinds
  <1>1. IInv => SelectAlwaysFinds
    BY DEF IInv
  <1> QED
    BY <1>1, Invariant, PTL

\* The assertion of yield() never fails.
THEOREM YieldRuns == Spec /\ []OneExec => []YieldOnlyRunning
  <1>1. IInv => YieldOnlyRunning
    BY DEF IInv
  <1> QED
    BY <1>1, Invariant, PTL

\* await_termination never waits for a child that is dead.
THEOREM AwaitWakes == Spec /\ []OneExec => []AwaitNeverMissesKill
  <1>1. IInv => AwaitNeverMissesKill
    BY DEF IInv
  <1> QED
    BY <1>1, Invariant, PTL

\* The run queues hold every live process once, at its priority, and nothing
\* else.
THEOREM QueuesExact == Spec /\ []OneExec => []RunQueuesExact
  <1>1. IInv => RunQueuesExact
    BY DEF IInv
  <1> QED
    BY <1>1, Invariant, PTL

\* exec only takes EMPTY slots, as long as its calls do not overlap: the slot
\* that get_free_pid picked is still EMPTY when new_process fills it.
THEOREM EmptySlotsTaken == Spec /\ []OneExec => OnlyEmptySlotsTaken
  <1>1. IInv /\ [Next]_vars
          => [\A p \in Pid : (state'[p] = "NEW" /\ state[p] # "NEW") => state[p] = "EMPTY"]_vars
    <2> SUFFICES ASSUME IInv, [Next]_vars, ~UNCHANGED vars
                 PROVE  \A p \in Pid : (state'[p] = "NEW" /\ state[p] # "NEW") => state[p] = "EMPTY"
      OBVIOUS
    <2> QED
      BY NewFromEmpty
  <1> QED
    BY <1>1, Invariant, PTL DEF Spec, OnlyEmptySlotsTaken
=============================================================================
