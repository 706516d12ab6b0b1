--------------------------- MODULE SemaphoreProofs ---------------------------
(***************************************************************************)
(* Proofs that the semaphore loses neither a permit nor a sleeper, for any  *)
(* processes, any initial count and any amounts that are released.  What a  *)
(* step does is said by the place it moves a process to, by the queue, and  *)
(* by who is granted a permit.                                              *)
(***************************************************************************)
EXTENDS Semaphore, FiniteSetTheorems, TLAPS

\* The arguments of init and release are of the type size_t.
Arguments == Initial \in Nat /\ Amounts \subseteq Nat

\* The states of a process that uses a semaphore.
States == {"READY", "RUNNING", "BLOCKED"}

-----------------------------------------------------------------------------
(* The sleep queue.                                                         *)

\* enqueue() adds one process, that was not there, to the end of the queue.
LEMMA Enqueued ==
    ASSUME queue \in Seq(Proc), NEW p \in Proc, queue' = Append(queue, p), ~Queued(p),
           \A i, j \in DOMAIN queue : queue[i] = queue[j] => i = j
    PROVE  /\ queue' \in Seq(Proc)
           /\ \A q : Queued(q)' <=> Queued(q) \/ q = p
           /\ \A i, j \in DOMAIN queue' : queue'[i] = queue'[j] => i = j
<1>1. /\ queue' \in Seq(Proc) /\ Len(queue) \in Nat
      /\ DOMAIN queue = 1..Len(queue) /\ DOMAIN queue' = 1..(Len(queue) + 1)
  OBVIOUS
<1>2. \A i \in 1..Len(queue) : queue'[i] = queue[i] /\ queue[i] # p
  BY <1>1 DEF Queued
<1>3. queue'[Len(queue) + 1] = p
  OBVIOUS
<1> QED
  BY <1>1, <1>2, <1>3 DEF Queued

\* dequeue() takes the first process out of a queue without repetitions.
LEMMA Dequeued ==
    ASSUME queue \in Seq(Proc), queue # <<>>, queue' = Tail(queue),
           \A i, j \in DOMAIN queue : queue[i] = queue[j] => i = j
    PROVE  /\ queue' \in Seq(Proc)
           /\ Head(queue) \in Proc /\ Queued(Head(queue))
           /\ \A q : Queued(q)' <=> Queued(q) /\ q # Head(queue)
           /\ \A i, j \in DOMAIN queue' : queue'[i] = queue'[j] => i = j
<1>1. Len(queue) \in Nat \ {0} /\ DOMAIN queue = 1..Len(queue) /\ Head(queue) = queue[1]
  OBVIOUS
<1>2. queue' \in Seq(Proc) /\ DOMAIN queue' = 1..(Len(queue) - 1)
  BY <1>1
<1>3. \A i \in 1..(Len(queue) - 1) : queue'[i] = queue[i + 1]
  BY <1>1
<1>4. Head(queue) \in Proc /\ Queued(Head(queue))
  BY <1>1 DEF Queued
<1>5. ASSUME NEW q PROVE Queued(q)' <=> \E i \in 2..Len(queue) : queue[i] = q
  <2>1. ASSUME NEW i \in 2..Len(queue), queue[i] = q PROVE Queued(q)'
    <3>1. i - 1 \in DOMAIN queue' /\ queue'[i - 1] = queue[i]
      BY <1>1, <1>2, <1>3
    <3> QED
      BY <2>1, <3>1 DEF Queued
  <2>2. ASSUME NEW i \in DOMAIN queue', queue'[i] = q PROVE \E k \in 2..Len(queue) : queue[k] = q
    <3>1. i + 1 \in 2..Len(queue) /\ queue[i + 1] = q
      BY <1>1, <1>2, <1>3, <2>2
    <3> QED
      BY <3>1
  <2> QED
    BY <2>1, <2>2 DEF Queued
<1>6. \A q : Queued(q)' <=> Queued(q) /\ q # Head(queue)
  BY <1>1, <1>5 DEF Queued
<1>7. \A i, j \in DOMAIN queue' : queue'[i] = queue'[j] => i = j
  BY <1>1, <1>2, <1>3
<1> QED
  BY <1>2, <1>4, <1>6, <1>7

-----------------------------------------------------------------------------
(* The invariant.                                                           *)

\* The spinlock is taken and released by the process that moves.
LEMMA SpinHeldMove ==
    ASSUME IInv, NEW p \in Proc, NEW l \in Places, Goto(p, l),
           \/ spinlock' = spinlock /\ (pc[p] \in Spinlocked <=> l \in Spinlocked)
           \/ spinlock = idle /\ spinlock' = p /\ l \in Spinlocked
           \/ pc[p] \in Spinlocked /\ spinlock' = idle /\ l \notin Spinlocked
    PROVE  SpinlockHeld' /\ spinlock' \in Task
<1>1. \A q \in Proc : pc'[q] = IF q = p THEN l ELSE pc[q]
  BY DEF IInv, TypeOK, Goto
<1>2. idle \notin Proc
  BY CpuAssumption
<1> QED
  BY <1>1, <1>2 DEF IInv, SpinlockHeld, TypeOK, Task

\* Where a process is granted a permit or sleeps does not matter to the grants.
LEMMA GrantedKept ==
    ASSUME IInv, NEW p \in Proc, NEW l, Goto(p, l), queue' = queue,
           pc[p] \in Sleeping <=> l \in Sleeping
    PROVE  Granted' = Granted
<1>1. \A q \in Proc : pc'[q] = IF q = p THEN l ELSE pc[q]
  BY DEF Goto, IInv, TypeOK
<1>2. \A q : Queued(q)' <=> Queued(q)
  BY DEF Queued
<1> QED
  BY <1>1, <1>2 DEF Granted

\* A step that moves one process and keeps the queue and the states, and may
\* change the value.
LEMMA MoveInv ==
    ASSUME IInv, NEW p \in Proc, NEW l \in Places, p = current, Goto(p, l),
           UNCHANGED <<cpuVars, queue>>,
           value' \in Nat, n' \in [Proc -> Nat],
           value' > 0 => queue = <<>>,
           \/ spinlock' = spinlock /\ (pc[p] \in Spinlocked <=> l \in Spinlocked)
           \/ spinlock = idle /\ spinlock' = p /\ l \in Spinlocked
           \/ pc[p] \in Spinlocked /\ spinlock' = idle /\ l \notin Spinlocked,
           pc[p] \in Sleeping <=> l \in Sleeping,
           l = "away" => state[p] # "BLOCKED"
    PROVE  IInv' /\ Granted' = Granted
<1> USE DEF IInv
<1>1. SpinlockHeld' /\ spinlock' \in Task
  BY SpinHeldMove
<1>2. \A q \in Proc : pc'[q] = IF q = p THEN l ELSE pc[q]
  BY DEF Goto, TypeOK
<1>3. \A q : Queued(q)' <=> Queued(q)
  BY DEF Queued
<1>4. TypeOK'
  BY <1>1 DEF TypeOK, cpuVars, Goto
<1>5. QueueSleeps'
  BY <1>2, <1>3 DEF QueueSleeps, cpuVars
<1>6. BackUnblocked'
  BY <1>2 DEF BackUnblocked, cpuVars
<1>7. Granted' = Granted
  BY GrantedKept
<1>8. NoSleeperWhilePermits'
  BY DEF NoSleeperWhilePermits
<1> QED
  BY <1>1, <1>4, <1>5, <1>6, <1>7, <1>8

\* A process goes to sleep.
LEMMA EnqueueInv ==
    ASSUME IInv, NEW p \in Proc, At(p, "locked"), value = 0, enqueue(p), Goto(p, "queued"),
           UNCHANGED <<spinlock, value, n>>
    PROVE  IInv' /\ Granted' = Granted
<1> USE DEF IInv
<1>1. p = current /\ pc[p] = "locked"
  BY DEF At
<1>2. \A q \in Proc : pc'[q] = IF q = p THEN "queued" ELSE pc[q]
  BY DEF Goto, TypeOK
<1>3. "queued" \in Places /\ "queued" \in Spinlocked /\ pc[p] \in Spinlocked
  BY <1>1 DEF Places, Spinlocked, Sleeping
<1>4. SpinlockHeld'
  BY <1>3, SpinHeldMove
<1>5. ~Queued(p)
  BY <1>1 DEF QueueSleeps, Sleeping
<1>6. /\ queue \in Seq(Proc) /\ queue' = Append(queue, p)
      /\ state' = [state EXCEPT ![p] = "BLOCKED"] /\ current' = current
  BY DEF enqueue, TypeOK
<1>7. /\ queue' \in Seq(Proc)
      /\ \A q : Queued(q)' <=> Queued(q) \/ q = p
      /\ \A i, j \in DOMAIN queue' : queue'[i] = queue'[j] => i = j
  BY <1>5, <1>6, Enqueued DEF QueueSleeps
<1>8. TypeOK'
  BY <1>3, <1>6, <1>7 DEF TypeOK, Goto
<1>9. \A q \in Proc : state'[q] = IF q = p THEN "BLOCKED" ELSE state[q]
  BY <1>6 DEF TypeOK, Task
<1>10. QueueSleeps'
  BY <1>2, <1>7, <1>9 DEF QueueSleeps, Sleeping
<1>11. BackUnblocked'
  BY <1>1, <1>2, <1>6 DEF BackUnblocked
<1>12. Granted' = Granted
  BY <1>1, <1>2, <1>7 DEF Granted, Sleeping
<1>13. NoSleeperWhilePermits'
  BY DEF NoSleeperWhilePermits
<1> QED
  BY <1>4, <1>8, <1>10, <1>11, <1>12, <1>13

\* The first process of the queue is granted a permit, by unlock() or by
\* release(), which comes back for the next one.
LEMMA DequeueInv ==
    ASSUME IInv, NEW p \in Proc, NEW l \in {"released", "releasing"},
           p = current, pc[p] \in {"unlocking", "releasing"}, dequeue, Goto(p, l),
           n' \in [Proc -> Nat], UNCHANGED <<spinlock, value>>
    PROVE  IInv' /\ \E h \in Proc \ Granted : Granted' = Granted \cup {h}
<1> USE DEF IInv
<1>0. PICK h : h = Head(queue)
  OBVIOUS
<1>2. \A q \in Proc : pc'[q] = IF q = p THEN l ELSE pc[q]
  BY DEF Goto, TypeOK
<1>3. l \in Places /\ l \in Spinlocked /\ pc[p] \in Spinlocked /\ l \notin Sleeping /\ pc[p] \notin Sleeping
  BY DEF Places, Spinlocked, Sleeping
<1>4. SpinlockHeld'
  BY <1>3, SpinHeldMove
<1>5. /\ queue \in Seq(Proc) /\ queue # <<>> /\ queue' = Tail(queue)
      /\ \A i, j \in DOMAIN queue : queue[i] = queue[j] => i = j
      /\ state' = [state EXCEPT ![h] = "READY"] /\ current' = current
  BY <1>0 DEF dequeue, TypeOK, QueueSleeps
<1>6. /\ queue' \in Seq(Proc)
      /\ h \in Proc /\ Queued(h)
      /\ \A q : Queued(q)' <=> Queued(q) /\ q # h
      /\ \A i, j \in DOMAIN queue' : queue'[i] = queue'[j] => i = j
  BY <1>0, <1>5, Dequeued
<1>7. TypeOK'
  BY <1>3, <1>5, <1>6 DEF TypeOK, Goto
<1>8. \A q \in Proc : state'[q] = IF q = h THEN "READY" ELSE state[q]
  BY <1>5, <1>6 DEF TypeOK, Task
<1>9. pc[h] \in Sleeping /\ h # p
  BY <1>3, <1>6 DEF QueueSleeps
<1>10. QueueSleeps'
  BY <1>2, <1>3, <1>6, <1>8 DEF QueueSleeps
<1>11. BackUnblocked'
  BY <1>2, <1>5 DEF BackUnblocked
<1>12. h \notin Granted /\ Granted' = Granted \cup {h}
  BY <1>2, <1>3, <1>6, <1>9 DEF Granted
<1>13. IsFiniteSet(Granted')
  BY <1>12, FS_AddElement
<1>14. NoSleeperWhilePermits'
  BY <1>5 DEF NoSleeperWhilePermits
<1> QED
  BY <1>4, <1>6, <1>7, <1>10, <1>11, <1>12, <1>13, <1>14

\* A switch to a process that can run, with the states st on the way: nobody
\* becomes or ceases to be BLOCKED.
LEMMA SwitchStates ==
    ASSUME NEW st \in [Task -> States], \A q \in Task : st[q] = "BLOCKED" <=> state[q] = "BLOCKED",
           NEW new \in Task, new \in Candidates(st), SwitchTo(st, new)
    PROVE  /\ current' = new
           /\ state' \in [Task -> States]
           /\ \A q \in Proc : state'[q] = "BLOCKED" <=> state[q] = "BLOCKED"
           /\ new \in Proc => state'[new] # "BLOCKED"
<1>1. new \in Proc => st[new] # "BLOCKED"
  BY CpuAssumption DEF Candidates, Runnable
<1>2. /\ current' = new
      /\ state' = IF new = current THEN st ELSE [st EXCEPT ![new] = "RUNNING"]
  BY DEF SwitchTo
<1>3. CASE new = current
  BY <1>1, <1>2, <1>3 DEF Task
<1>4. CASE new # current
  <2>1. state' = [st EXCEPT ![new] = "RUNNING"]
    BY <1>2, <1>4
  <2>2. \A q \in Proc : state'[q] = IF q = new THEN "RUNNING" ELSE st[q]
    BY <2>1 DEF Task
  <2> QED
    BY <1>1, <1>2, <2>1, <2>2 DEF Task, States
<1> QED
  BY <1>3, <1>4

\* What is left of the invariant when only the CPU goes to another process.
LEMMA CpuInv ==
    ASSUME IInv, UNCHANGED <<pc, queueVars, value, n>>,
           current' \in Task, state' \in [Task -> States],
           \A q \in Proc : state'[q] = "BLOCKED" <=> state[q] = "BLOCKED",
           current' # current /\ current' \in Proc => state'[current'] # "BLOCKED"
    PROVE  IInv' /\ Granted' = Granted
<1> USE DEF IInv
<1>1. TypeOK'
  BY DEF TypeOK, queueVars, States
<1>2. SpinlockHeld'
  BY DEF SpinlockHeld, queueVars
<1>3. \A q : Queued(q)' <=> Queued(q)
  BY DEF Queued, queueVars
<1>4. QueueSleeps'
  BY <1>3 DEF QueueSleeps, queueVars
<1>5. Granted' = Granted
  BY <1>3 DEF Granted
<1>6. BackUnblocked' /\ NoSleeperWhilePermits'
  BY DEF BackUnblocked, NoSleeperWhilePermits, queueVars
<1> QED
  BY <1>1, <1>2, <1>4, <1>5, <1>6

LEMMA TickInv ==
    ASSUME IInv, NEW new \in Task, tick(new)
    PROVE  IInv' /\ Granted' = Granted
<1> DEFINE st == IF state[current] \in {"BLOCKED", "BLOCKED_TIMEOUT"} THEN state
                 ELSE [state EXCEPT ![current] = "READY"]
<1>1. state \in [Task -> States] /\ current \in Task
  BY DEF IInv, TypeOK, States
<1>2. /\ st \in [Task -> States]
      /\ \A q \in Task : st[q] = "BLOCKED" <=> state[q] = "BLOCKED"
  BY <1>1 DEF States
<1>3. /\ new \in Candidates(st)
      /\ IF new = current THEN state' = state /\ UNCHANGED current ELSE SwitchTo(st, new)
      /\ UNCHANGED <<pc, queueVars, value, n>>
  BY DEF tick, Preempt
<1>4. CASE new = current
  BY <1>1, <1>3, <1>4, CpuInv
<1>5. CASE new # current
  <2>1. SwitchTo(st, new)
    BY <1>3, <1>5
  <2> HIDE DEF st
  <2>2. /\ current' = new
        /\ state' \in [Task -> States]
        /\ \A q \in Proc : state'[q] = "BLOCKED" <=> state[q] = "BLOCKED"
        /\ new \in Proc => state'[new] # "BLOCKED"
    BY <1>2, <1>3, <2>1, SwitchStates
  <2> QED
    BY <1>3, <2>2, CpuInv
<1> QED
  BY <1>4, <1>5

\* reschedule() gives the CPU away.
LEMMA AwayInv ==
    ASSUME IInv, NEW p \in Proc, At(p, "switch"), NEW new \in Candidates(state),
           SwitchTo(state, new), Goto(p, "away"), UNCHANGED <<queueVars, value, n>>
    PROVE  IInv' /\ Granted' = Granted
<1> USE DEF IInv
<1>1. p = current /\ pc[p] = "switch" /\ new \in Task
  BY DEF At, Candidates, Task
<1>2. /\ current' = new
      /\ state' \in [Task -> States]
      /\ \A q \in Proc : state'[q] = "BLOCKED" <=> state[q] = "BLOCKED"
      /\ new \in Proc => state'[new] # "BLOCKED"
  BY <1>1, SwitchStates DEF TypeOK, States
<1>3. \A q \in Proc : pc'[q] = IF q = p THEN "away" ELSE pc[q]
  BY DEF Goto, TypeOK
<1>4. /\ "away" \in Sleeping /\ "away" \in Places /\ "away" \notin Spinlocked
      /\ pc[p] \in Sleeping /\ pc[p] \notin Spinlocked
  BY <1>1 DEF Sleeping, Places, Spinlocked
<1>5. SpinlockHeld'
  BY <1>4, SpinHeldMove DEF queueVars
<1>6. TypeOK'
  BY <1>1, <1>2, <1>4 DEF TypeOK, Goto, queueVars, States
<1>7. \A q : Queued(q)' <=> Queued(q)
  BY DEF Queued, queueVars
<1>8. QueueSleeps'
  BY <1>2, <1>3, <1>4, <1>7 DEF QueueSleeps, queueVars
<1>9. Granted' = Granted
  BY <1>4, GrantedKept DEF queueVars
<1>10. BackUnblocked' /\ NoSleeperWhilePermits'
  BY <1>2 DEF BackUnblocked, NoSleeperWhilePermits, queueVars
<1> QED
  BY <1>5, <1>6, <1>8, <1>9, <1>10

\* A process returns from lock() after its sleep, and it does so only with the
\* permit that it was granted.
LEMMA ReturnInv ==
    ASSUME IInv, NEW p \in Proc, p = current, pc[p] \in {"resched", "away"}, state[p] # "BLOCKED",
           Goto(p, "out"), UNCHANGED <<cpuVars, queueVars, value, n>>
    PROVE  IInv' /\ p \in Granted /\ Granted' = Granted \ {p}
<1> USE DEF IInv
<1>1. ~Queued(p)
  BY DEF QueueSleeps
<1>2. \A q \in Proc : pc'[q] = IF q = p THEN "out" ELSE pc[q]
  BY DEF Goto, TypeOK
<1>3. /\ "out" \notin Sleeping /\ "out" \in Places /\ "out" \notin Spinlocked
      /\ pc[p] \in Sleeping /\ pc[p] \notin Spinlocked
  BY DEF Sleeping, Places, Spinlocked
<1>4. SpinlockHeld'
  BY <1>3, SpinHeldMove DEF queueVars
<1>5. TypeOK'
  BY <1>3 DEF TypeOK, Goto, cpuVars, queueVars
<1>6. \A q : Queued(q)' <=> Queued(q)
  BY DEF Queued, queueVars
<1>7. QueueSleeps'
  BY <1>1, <1>2, <1>6 DEF QueueSleeps, cpuVars, queueVars
<1>8. p \in Granted /\ Granted' = Granted \ {p}
  BY <1>1, <1>2, <1>3, <1>6 DEF Granted
<1>9. IsFiniteSet(Granted')
  BY <1>8, FS_RemoveElement
<1>10. BackUnblocked' /\ NoSleeperWhilePermits'
  BY <1>2 DEF BackUnblocked, NoSleeperWhilePermits, cpuVars, queueVars
<1> QED
  BY <1>4, <1>5, <1>7, <1>8, <1>9, <1>10

-----------------------------------------------------------------------------
(* What CountingSemaphore sees of a step.                                   *)

\* The places that CountingSemaphore tells apart.
Parts == {Sleeping, {"lock", "locked"}, {"try_lock", "try_locked"}, {"unlock", "unlocking"},
          {"release", "releasing"}}

LEMMA PermitsNat == ASSUME IInv PROVE Cardinality(Granted) \in Nat /\ Permits \in Nat
BY FS_CardinalityType DEF IInv, TypeOK, Permits

\* A step that moves p, and changes no local variable but its own, changes
\* nothing but what concerns p.
LEMMA Views ==
    ASSUME IInv, NEW p \in Proc, NEW l \in Places, Goto(p, l),
           \A q \in Proc \ {p} : n'[q] = n[q]
    PROVE  /\ Asking' = IF l \in {"lock", "locked"} \cup Sleeping THEN Asking \cup {p} ELSE Asking \ {p}
           /\ Trying' = IF l \in {"try_lock", "try_locked"} THEN Trying \cup {p} ELSE Trying \ {p}
           /\ Debts' = [Debts EXCEPT ![p] = Owed(p)']
           /\ Debts[p] = Owed(p)
           /\ pc'[p] = l
<1>1. \A q \in Proc : pc'[q] = IF q = p THEN l ELSE pc[q]
  BY DEF IInv, TypeOK, Goto
<1>2. \A q \in Proc \ {p} : Owed(q)' = Owed(q)
  BY <1>1 DEF Owed
<1>3. Debts' = [Debts EXCEPT ![p] = Owed(p)'] /\ Debts[p] = Owed(p)
  BY <1>2 DEF Debts
<1>4. Asking' = IF l \in {"lock", "locked"} \cup Sleeping THEN Asking \cup {p} ELSE Asking \ {p}
  BY <1>1 DEF Asking
<1>5. Trying' = IF l \in {"try_lock", "try_locked"} THEN Trying \cup {p} ELSE Trying \ {p}
  BY <1>1 DEF Trying
<1> QED
  BY <1>1, <1>3, <1>4, <1>5

\* Between two places of one part nothing is seen.
LEMMA SamePart ==
    ASSUME IInv, NEW p \in Proc, NEW l \in Places, Goto(p, l), n' = n,
           \A S \in Parts : pc[p] \in S <=> l \in S
    PROVE  UNCHANGED <<Asking, Trying, Debts>>
<1>1. /\ Asking' = IF l \in {"lock", "locked"} \cup Sleeping THEN Asking \cup {p} ELSE Asking \ {p}
      /\ Trying' = IF l \in {"try_lock", "try_locked"} THEN Trying \cup {p} ELSE Trying \ {p}
      /\ Debts' = [Debts EXCEPT ![p] = Owed(p)']
      /\ Debts[p] = Owed(p)
      /\ pc'[p] = l
  BY Views
<1>2. /\ pc[p] \in Sleeping <=> l \in Sleeping
      /\ pc[p] \in {"lock", "locked"} <=> l \in {"lock", "locked"}
      /\ pc[p] \in {"try_lock", "try_locked"} <=> l \in {"try_lock", "try_locked"}
      /\ pc[p] \in {"unlock", "unlocking"} <=> l \in {"unlock", "unlocking"}
      /\ pc[p] \in {"release", "releasing"} <=> l \in {"release", "releasing"}
  BY DEF Parts
<1>3. Owed(p)' = Owed(p)
  BY <1>1, <1>2 DEF Owed
<1>4. Debts' = Debts
  BY <1>1, <1>3 DEF Debts
<1>5. Asking' = Asking /\ Trying' = Trying
  BY <1>1, <1>2 DEF Asking, Trying
<1> QED
  BY <1>4, <1>5

\* A move of p inside one part.
LEMMA Quiet ==
    ASSUME IInv, NEW p \in Proc, NEW l \in Places, p = current, Goto(p, l), l # "away",
           UNCHANGED <<cpuVars, queue, value, n>>,
           \/ spinlock' = spinlock /\ (pc[p] \in Spinlocked <=> l \in Spinlocked)
           \/ spinlock = idle /\ spinlock' = p /\ l \in Spinlocked
           \/ pc[p] \in Spinlocked /\ spinlock' = idle /\ l \notin Spinlocked,
           \A S \in Parts : pc[p] \in S <=> l \in S
    PROVE  IInv' /\ UNCHANGED Abstract!vars
<1>1. pc[p] \in Sleeping <=> l \in Sleeping
  BY DEF Parts
<1>2. value' \in Nat /\ n' \in [Proc -> Nat] /\ (value' > 0 => queue = <<>>)
  BY DEF IInv, TypeOK, NoSleeperWhilePermits
<1>3. IInv' /\ Granted' = Granted
  BY <1>1, <1>2, MoveInv
<1>4. UNCHANGED <<Asking, Trying, Debts>>
  BY SamePart
<1> QED
  BY <1>3, <1>4 DEF Abstract!vars, Permits

LEMMA SpinQuiet ==
    ASSUME IInv, NEW p \in Proc, NEW l \in Places, NEW m \in Spinlocked \cap Places, spin(p, l, m),
           m # "away", UNCHANGED <<value, n>>, \A S \in Parts : l \in S <=> m \in S
    PROVE  IInv' /\ UNCHANGED Abstract!vars
<1>1. /\ p = current /\ pc[p] = l /\ spinlock = idle /\ spinlock' = p
      /\ Goto(p, m) /\ UNCHANGED <<cpuVars, queue>>
  BY DEF spin, acquire_spin, At
<1> QED
  BY <1>1, Quiet

LEMMA UnspinQuiet ==
    ASSUME IInv, NEW p \in Proc, NEW l \in Spinlocked, NEW m \in Places \ Spinlocked, unspin(p, l, m),
           m # "away", UNCHANGED <<value, n>>, \A S \in Parts : l \in S <=> m \in S
    PROVE  IInv' /\ UNCHANGED Abstract!vars
<1>1. /\ p = current /\ pc[p] = l /\ spinlock' = idle
      /\ Goto(p, m) /\ UNCHANGED <<cpuVars, queue>>
  BY DEF unspin, release_spin, At
<1> QED
  BY <1>1, Quiet

-----------------------------------------------------------------------------
(* Each operation keeps the invariant and is what CountingSemaphore allows. *)

AbstractStep == Abstract!Next \/ UNCHANGED Abstract!vars

LEMMA CallStep ==
    ASSUME Arguments, IInv, NEW p \in Proc, call(p)
    PROVE  IInv' /\ AbstractStep
<1> USE DEF Sleeping
<1>1. PICK l \in {"lock", "try_lock", "unlock", "release"}, k \in Amounts \cup {0} :
          /\ p = current /\ pc[p] = "out" /\ Goto(p, l) /\ UNCHANGED <<cpuVars, queueVars, value>>
          /\ n' = IF l = "release" THEN [n EXCEPT ![p] = k] ELSE n
          /\ l = "release" => k \in Amounts
  BY DEF call, At
<1>2. l \in Places /\ l \notin Spinlocked /\ "out" \notin Spinlocked /\ k \in Nat
  BY DEF Places, Spinlocked, Arguments
<1>3. n' \in [Proc -> Nat] /\ \A q \in Proc \ {p} : n'[q] = n[q]
  BY <1>1, <1>2 DEF IInv, TypeOK
<1>4. value' \in Nat /\ (value' > 0 => queue = <<>>) /\ UNCHANGED <<queue, spinlock>>
  BY <1>1 DEF IInv, TypeOK, NoSleeperWhilePermits, queueVars
<1>5. IInv' /\ Granted' = Granted
  BY <1>1, <1>2, <1>3, <1>4, MoveInv
<1>6. /\ Asking' = IF l \in {"lock", "locked"} \cup Sleeping THEN Asking \cup {p} ELSE Asking \ {p}
      /\ Trying' = IF l \in {"try_lock", "try_locked"} THEN Trying \cup {p} ELSE Trying \ {p}
      /\ Debts' = [Debts EXCEPT ![p] = Owed(p)']
      /\ Debts[p] = Owed(p)
      /\ pc'[p] = l
  BY <1>1, <1>2, <1>3, Views
<1>7. p \notin Asking \cup Trying /\ Debts[p] = 0
  BY <1>1, <1>6 DEF Asking, Trying, Owed
<1>8. Permits' = Permits
  BY <1>1, <1>5 DEF Permits
<1>9. CASE l = "lock"
  <2>1. Owed(p)' = 0 /\ Debts' = Debts
    BY <1>6, <1>7, <1>9 DEF Owed, Debts
  <2>2. Asking' = Asking \cup {p} /\ Trying' = Trying
    BY <1>6, <1>7, <1>9
  <2>3. Abstract!Call(p)
    BY <1>7, <1>8, <2>1, <2>2 DEF Abstract!Call
  <2> QED
    BY <1>5, <2>3 DEF AbstractStep, Abstract!Next
<1>10. CASE l = "try_lock"
  <2>1. Owed(p)' = 0 /\ Debts' = Debts
    BY <1>6, <1>7, <1>10 DEF Owed, Debts
  <2>2. Asking' = Asking /\ Trying' = Trying \cup {p}
    BY <1>6, <1>7, <1>10
  <2>3. Abstract!Call(p)
    BY <1>7, <1>8, <2>1, <2>2 DEF Abstract!Call
  <2> QED
    BY <1>5, <2>3 DEF AbstractStep, Abstract!Next
<1>11. CASE l \in {"unlock", "release"}
  <2>1. Owed(p)' \in Amounts \cup {1}
    BY <1>1, <1>6, <1>11 DEF Owed, IInv, TypeOK
  <2>2. Asking' = Asking /\ Trying' = Trying
    BY <1>6, <1>7, <1>11
  <2>3. Abstract!Call(p)
    BY <1>6, <1>7, <1>8, <2>1, <2>2 DEF Abstract!Call
  <2> QED
    BY <1>5, <2>3 DEF AbstractStep, Abstract!Next
<1> QED
  BY <1>9, <1>10, <1>11

\* A permit is taken from the value, by lock() or by try_lock().
LEMMA TakeStep ==
    ASSUME IInv, NEW p \in Proc, NEW l \in {"locked", "try_locked"}, take(p, l)
    PROVE  IInv' /\ AbstractStep
<1> USE DEF Sleeping
<1>1. /\ p = current /\ pc[p] = l /\ value > 0 /\ value' = value - 1 /\ Goto(p, "got")
      /\ UNCHANGED <<cpuVars, queueVars, n>>
  BY DEF take, At
<1>2. "got" \in Places /\ "got" \in Spinlocked /\ l \in Spinlocked
  BY DEF Places, Spinlocked
<1>3. /\ value \in Nat /\ value' \in Nat /\ n' \in [Proc -> Nat] /\ UNCHANGED <<queue, spinlock, n>>
      /\ queue = <<>>
  BY <1>1 DEF IInv, TypeOK, NoSleeperWhilePermits, queueVars
<1>4. IInv' /\ Granted' = Granted
  BY <1>1, <1>2, <1>3, MoveInv
<1>5. /\ Asking' = Asking \ {p}
      /\ Trying' = Trying \ {p}
      /\ Debts' = [Debts EXCEPT ![p] = Owed(p)']
      /\ Debts[p] = Owed(p)
      /\ pc'[p] = "got"
  BY <1>1, <1>2, <1>3, Views
<1>6. p \in Asking \cup Trying
  BY <1>1 DEF Asking, Trying
<1>7. Owed(p)' = Owed(p) /\ Debts' = Debts
  BY <1>1, <1>5 DEF Owed, Debts
<1>8. Permits > 0 /\ Permits' = Permits - 1
  BY <1>1, <1>3, <1>4, PermitsNat DEF Permits
<1>9. Abstract!Take(p)
  BY <1>5, <1>6, <1>7, <1>8 DEF Abstract!Take
<1> QED
  BY <1>4, <1>9 DEF AbstractStep, Abstract!Next

\* A process that slept returns with its permit.
LEMMA ReturnStep ==
    ASSUME IInv, NEW p \in Proc, p = current, pc[p] \in {"resched", "away"}, state[p] # "BLOCKED",
           Goto(p, "out"), UNCHANGED <<cpuVars, queueVars, value, n>>
    PROVE  IInv' /\ AbstractStep
<1> USE DEF Sleeping
<1>1. IInv' /\ p \in Granted /\ Granted' = Granted \ {p}
  BY ReturnInv
<1>2. /\ IsFiniteSet(Granted) /\ Cardinality(Granted) \in Nat /\ Cardinality(Granted)' \in Nat
      /\ value \in Nat
  BY <1>1, PermitsNat, FS_CardinalityType DEF IInv, TypeOK
<1>3. Cardinality(Granted)' = Cardinality(Granted) - 1
  BY <1>1, <1>2, FS_RemoveElement
<1>4. Permits > 0 /\ Permits' = Permits - 1
  BY <1>2, <1>3 DEF Permits
<1>5. /\ Asking' = Asking \ {p}
      /\ Trying' = Trying \ {p}
      /\ Debts' = [Debts EXCEPT ![p] = Owed(p)']
      /\ Debts[p] = Owed(p)
      /\ pc'[p] = "out"
  BY Views DEF Places
<1>6. p \in Asking /\ Owed(p)' = Owed(p) /\ Debts' = Debts
  BY <1>5 DEF Asking, Owed, Debts
<1>7. Abstract!Take(p)
  BY <1>4, <1>5, <1>6 DEF Abstract!Take
<1> QED
  BY <1>1, <1>7 DEF AbstractStep, Abstract!Next

LEMMA RescheduleStep ==
    ASSUME IInv, NEW p \in Proc, reschedule(p, "out"), UNCHANGED <<queueVars, value, n>>
    PROVE  IInv' /\ AbstractStep
<1>1. CASE At(p, "resched") /\ Goto(p, "switch") /\ UNCHANGED cpuVars
  <2>1. IInv' /\ UNCHANGED Abstract!vars
    BY <1>1, Quiet DEF At, Places, Spinlocked, Sleeping, Parts, queueVars
  <2> QED
    BY <2>1 DEF AbstractStep
<1>2. CASE At(p, "resched") /\ state[p] = "RUNNING" /\ Goto(p, "out") /\ UNCHANGED cpuVars
  BY <1>2, ReturnStep DEF At
<1>3. CASE At(p, "switch") /\ (\E new \in Candidates(state) : SwitchTo(state, new)) /\ Goto(p, "away")
  <2>1. IInv' /\ Granted' = Granted
    BY <1>3, AwayInv
  <2>2. UNCHANGED <<Asking, Trying, Debts>>
    BY <1>3, SamePart DEF At, Places, Parts, Sleeping
  <2> QED
    BY <2>1, <2>2 DEF AbstractStep, Abstract!vars, Permits
<1>4. CASE At(p, "away") /\ Goto(p, "out") /\ UNCHANGED cpuVars
  BY <1>4, ReturnStep DEF At, IInv, BackUnblocked
<1> QED
  BY <1>1, <1>2, <1>3, <1>4 DEF reschedule

LEMMA LockStep ==
    ASSUME IInv, NEW p \in Proc, lock(p)
    PROVE  IInv' /\ AbstractStep
<1> USE DEF AbstractStep, Places, Spinlocked, Sleeping, Parts
<1>1. CASE spin(p, "lock", "locked") /\ UNCHANGED <<value, n>>
  BY <1>1, SpinQuiet
<1>2. CASE take(p, "locked")
  BY <1>2, TakeStep
<1>3. CASE unspin(p, "got", "out") /\ UNCHANGED <<value, n>>
  BY <1>3, UnspinQuiet
<1>4. CASE /\ At(p, "locked") /\ value = 0 /\ enqueue(p) /\ Goto(p, "queued")
           /\ UNCHANGED <<spinlock, value, n>>
  <2>1. IInv' /\ Granted' = Granted
    BY <1>4, EnqueueInv
  <2>2. /\ Asking' = Asking \cup {p}
        /\ Trying' = Trying \ {p}
        /\ Debts' = [Debts EXCEPT ![p] = Owed(p)']
        /\ Debts[p] = Owed(p)
        /\ pc'[p] = "queued"
    BY <1>4, Views
  <2>3. p \in Asking /\ p \notin Trying /\ Owed(p)' = Owed(p) /\ Debts' = Debts
    BY <1>4, <2>2 DEF Asking, Trying, Owed, Debts, At
  <2> QED
    BY <1>4, <2>1, <2>2, <2>3 DEF Abstract!vars, Permits
<1>5. CASE unspin(p, "queued", "resched") /\ UNCHANGED <<value, n>>
  BY <1>5, UnspinQuiet
<1>6. CASE reschedule(p, "out") /\ UNCHANGED <<queueVars, value, n>>
  BY <1>6, RescheduleStep
<1> QED
  BY <1>1, <1>2, <1>3, <1>4, <1>5, <1>6 DEF lock

LEMMA TryLockStep ==
    ASSUME IInv, NEW p \in Proc, try_lock(p)
    PROVE  IInv' /\ AbstractStep
<1> USE DEF AbstractStep, Places, Spinlocked, Sleeping
<1>1. CASE spin(p, "try_lock", "try_locked") /\ UNCHANGED <<value, n>>
  BY <1>1, SpinQuiet DEF Parts
<1>2. CASE take(p, "try_locked")
  BY <1>2, TakeStep
<1>3. CASE value = 0 /\ unspin(p, "try_locked", "out") /\ UNCHANGED <<value, n>>
  <2>1. /\ p = current /\ pc[p] = "try_locked" /\ spinlock' = idle
        /\ Goto(p, "out") /\ UNCHANGED <<cpuVars, queue, value, n>>
    BY <1>3 DEF unspin, release_spin, At
  <2>2. value' \in Nat /\ n' \in [Proc -> Nat] /\ (value' > 0 => queue = <<>>)
    BY <2>1 DEF IInv, TypeOK, NoSleeperWhilePermits
  <2>3. IInv' /\ Granted' = Granted
    BY <2>1, <2>2, MoveInv
  <2>4. /\ Asking' = Asking \ {p}
        /\ Trying' = Trying \ {p}
        /\ Debts' = [Debts EXCEPT ![p] = Owed(p)']
        /\ Debts[p] = Owed(p)
        /\ pc'[p] = "out"
    BY <2>1, Views
  <2>5. p \notin Asking /\ p \in Trying /\ Owed(p)' = Owed(p) /\ Debts' = Debts
    BY <2>1, <2>4 DEF Asking, Trying, Owed, Debts
  <2>6. Abstract!Refuse(p)
    BY <2>1, <2>3, <2>4, <2>5 DEF Abstract!Refuse, Permits
  <2> QED
    BY <2>3, <2>6 DEF Abstract!Next
<1> QED
  BY <1>1, <1>2, <1>3 DEF try_lock

\* Nobody sleeps and the k permits that p owes go to the value.
LEMMA CreditStep ==
    ASSUME IInv, NEW p \in Proc, p = current, pc[p] \in {"unlocking", "releasing"}, NEW k \in Nat,
           k = Owed(p), k > 0 => queue = <<>>, value' = value + k, Goto(p, "released"),
           n' \in [Proc -> Nat], \A q \in Proc \ {p} : n'[q] = n[q], UNCHANGED <<cpuVars, queueVars>>
    PROVE  IInv' /\ AbstractStep
<1> USE DEF Sleeping
<1>1. "released" \in Places /\ "released" \in Spinlocked /\ pc[p] \in Spinlocked
  BY DEF Places, Spinlocked
<1>2. /\ value \in Nat /\ value' \in Nat /\ UNCHANGED <<queue, spinlock>>
      /\ value' > 0 => queue = <<>>
  BY DEF IInv, TypeOK, NoSleeperWhilePermits, queueVars
<1>3. IInv' /\ Granted' = Granted
  BY <1>1, <1>2, MoveInv
<1>4. /\ Asking' = Asking \ {p}
      /\ Trying' = Trying \ {p}
      /\ Debts' = [Debts EXCEPT ![p] = Owed(p)']
      /\ Debts[p] = Owed(p)
      /\ pc'[p] = "released"
  BY <1>1, Views
<1>5. Asking' = Asking /\ Trying' = Trying
  BY <1>4 DEF Asking, Trying
<1>6. Owed(p)' = 0
  BY <1>4 DEF Owed
<1>7. Permits' = Permits + k
  BY <1>2, <1>3, PermitsNat DEF Permits
<1>8. CASE k = 0
  <2>1. Debts' = [Debts EXCEPT ![p] = Debts[p]]
    BY <1>4, <1>6, <1>8
  <2>2. Debts = [Debts EXCEPT ![p] = Debts[p]]
    BY DEF Debts
  <2>3. Permits' = Permits
    BY <1>7, <1>8, PermitsNat
  <2> QED
    BY <1>3, <1>5, <2>1, <2>2, <2>3 DEF AbstractStep, Abstract!vars
<1>9. CASE k > 0
  <2>0. k \in 1..Debts[p] /\ Debts[p] - k = 0
    BY <1>4, <1>9
  <2>1. k \in 1..Debts[p] /\ Debts' = [Debts EXCEPT ![p] = @ - k]
    BY <1>4, <1>6, <2>0
  <2>2. Abstract!Give(p)
    BY <1>5, <1>7, <2>1 DEF Abstract!Give
  <2> QED
    BY <1>3, <2>2 DEF AbstractStep, Abstract!Next
<1> QED
  BY <1>8, <1>9

\* One of the permits that p owes goes to the first sleeper.
LEMMA GrantStep ==
    ASSUME IInv, NEW p \in Proc, NEW l \in {"released", "releasing"},
           p = current, pc[p] \in {"unlocking", "releasing"}, dequeue, Goto(p, l),
           n' \in [Proc -> Nat], \A q \in Proc \ {p} : n'[q] = n[q], UNCHANGED <<spinlock, value>>,
           Owed(p) \in Nat \ {0}, (l = "released" /\ Owed(p) = 1) \/ (l = "releasing" /\ n'[p] = Owed(p) - 1)
    PROVE  IInv' /\ AbstractStep
<1> USE DEF Sleeping
<1>1. IInv'
  BY DequeueInv
<1>2. PICK h \in Proc \ Granted : Granted' = Granted \cup {h}
  BY DequeueInv
<1>3. IsFiniteSet(Granted) /\ Cardinality(Granted) \in Nat /\ value \in Nat
  BY PermitsNat DEF IInv, TypeOK
<1>4. Cardinality(Granted)' = Cardinality(Granted) + 1
  BY <1>2, <1>3, FS_AddElement
<1>5. Permits' = Permits + 1
  BY <1>3, <1>4 DEF Permits
<1>6. l \in Places
  BY DEF Places
<1>7. /\ Asking' = Asking \ {p}
      /\ Trying' = Trying \ {p}
      /\ Debts' = [Debts EXCEPT ![p] = Owed(p)']
      /\ Debts[p] = Owed(p)
      /\ pc'[p] = l
  BY <1>6, Views
<1>8. Asking' = Asking /\ Trying' = Trying
  BY <1>7 DEF Asking, Trying
<1>9. Owed(p)' = Owed(p) - 1
  BY <1>7 DEF Owed
<1>10. 1 \in 1..Debts[p] /\ Debts' = [Debts EXCEPT ![p] = @ - 1]
  BY <1>7, <1>9 DEF Debts
<1>11. Abstract!Give(p)
  BY <1>5, <1>8, <1>10 DEF Abstract!Give
<1> QED
  BY <1>1, <1>11 DEF AbstractStep, Abstract!Next

LEMMA UnlockStep ==
    ASSUME IInv, NEW p \in Proc, unlock(p)
    PROVE  IInv' /\ AbstractStep
<1> USE DEF AbstractStep, Places, Spinlocked, Sleeping
<1>0. n \in [Proc -> Nat]
  BY DEF IInv, TypeOK
<1>1. CASE spin(p, "unlock", "unlocking") /\ UNCHANGED <<value, n>>
  BY <1>1, SpinQuiet DEF Parts
<1>2. CASE /\ At(p, "unlocking") /\ queue = <<>> /\ value' = value + 1
           /\ Goto(p, "released") /\ UNCHANGED <<cpuVars, queueVars, n>>
  <2>1. p = current /\ pc[p] = "unlocking" /\ Owed(p) = 1
    BY <1>2 DEF At, Owed
  <2> QED
    BY <1>0, <1>2, <2>1, CreditStep
<1>3. CASE At(p, "unlocking") /\ dequeue /\ Goto(p, "released") /\ UNCHANGED <<spinlock, value, n>>
  <2>1. p = current /\ pc[p] = "unlocking" /\ Owed(p) = 1
    BY <1>3 DEF At, Owed
  <2> QED
    BY <1>0, <1>3, <2>1, GrantStep
<1>4. CASE unspin(p, "released", "out") /\ UNCHANGED <<value, n>>
  BY <1>4, UnspinQuiet DEF Parts
<1> QED
  BY <1>1, <1>2, <1>3, <1>4 DEF unlock

LEMMA ReleaseStep ==
    ASSUME IInv, NEW p \in Proc, release(p)
    PROVE  IInv' /\ AbstractStep
<1>0. n \in [Proc -> Nat] /\ pc \in [Proc -> Places]
  BY DEF IInv, TypeOK
<1>1. CASE spin(p, "release", "releasing") /\ UNCHANGED <<value, n>>
  BY <1>1, SpinQuiet DEF AbstractStep, Places, Spinlocked, Sleeping, Parts
<1>2. CASE /\ At(p, "releasing") /\ n[p] > 0 /\ dequeue /\ n' = [n EXCEPT ![p] = @ - 1]
           /\ UNCHANGED <<pc, spinlock, value>>
  <2>1. p = current /\ pc[p] = "releasing" /\ Owed(p) = n[p]
    BY <1>2 DEF At, Owed
  <2>2. Goto(p, "releasing")
    BY <1>0, <1>2, <2>1 DEF Goto
  <2>3. n' \in [Proc -> Nat] /\ n'[p] = n[p] - 1 /\ \A q \in Proc \ {p} : n'[q] = n[q]
    BY <1>0, <1>2
  <2>4. Owed(p) \in Nat \ {0}
    BY <1>0, <1>2, <2>1
  <2> QED
    BY <1>2, <2>1, <2>2, <2>3, <2>4, GrantStep
<1>3. CASE /\ At(p, "releasing") /\ (n[p] = 0 \/ queue = <<>>) /\ value' = value + n[p]
           /\ n' = [n EXCEPT ![p] = 0] /\ Goto(p, "released") /\ UNCHANGED <<cpuVars, queueVars>>
  <2>1. p = current /\ pc[p] = "releasing" /\ Owed(p) = n[p] /\ n[p] \in Nat
    BY <1>0, <1>3 DEF At, Owed
  <2>2. n' \in [Proc -> Nat] /\ \A q \in Proc \ {p} : n'[q] = n[q]
    BY <1>0, <1>3
  <2> QED
    BY <1>3, <2>1, <2>2, CreditStep
<1> QED
  BY <1>1, <1>2, <1>3 DEF release

-----------------------------------------------------------------------------
LEMMA InitInv ==
    ASSUME Arguments, Init
    PROVE  IInv /\ Abstract!Init
<1>1. /\ pc = [p \in Proc |-> "out"] /\ n = [p \in Proc |-> 0]
      /\ spinlock = idle /\ queue = <<>> /\ value = Initial /\ idle \notin Proc /\ value \in Nat
  BY CpuAssumption DEF Init, QueueInit, Arguments
<1>2. "out" \in Places /\ "out" \notin Spinlocked /\ "out" \notin Sleeping
  BY DEF Places, Spinlocked, Sleeping
<1>3. TypeOK
  BY <1>1, <1>2 DEF TypeOK, Init, CpuInit, Task
<1>4. SpinlockHeld
  BY <1>1, <1>2 DEF SpinlockHeld
<1>5. \A p : ~Queued(p)
  <2>1. queue \in Seq(Proc) /\ Len(queue) = 0
    BY <1>1
  <2>2. DOMAIN queue = {}
    BY <2>1
  <2> QED
    BY <2>2 DEF Queued
<1>6. QueueSleeps
  BY <1>1, <1>5 DEF QueueSleeps
<1>7. BackUnblocked /\ NoSleeperWhilePermits
  BY <1>1, <1>2 DEF BackUnblocked, NoSleeperWhilePermits
<1>8. Granted = {}
  BY <1>1, <1>2 DEF Granted
<1>9. IsFiniteSet(Granted) /\ Cardinality(Granted) = 0
  BY <1>8, FS_EmptySet
<1>10. Permits = Initial
  BY <1>1, <1>9 DEF Permits
<1>11. Asking = {} /\ Trying = {}
  BY <1>1, <1>2 DEF Asking, Trying
<1>12. Debts = [p \in Proc |-> 0]
  BY <1>1 DEF Debts, Owed
<1> QED
  BY <1>3, <1>4, <1>6, <1>7, <1>9, <1>10, <1>11, <1>12 DEF IInv, Abstract!Init

LEMMA NextInv ==
    ASSUME Arguments, IInv, [Next]_vars
    PROVE  IInv' /\ [Abstract!Next]_(Abstract!vars)
<1>1. ASSUME NEW p \in Proc, Step(p) PROVE IInv' /\ AbstractStep
  BY <1>1, CallStep, LockStep, TryLockStep, UnlockStep, ReleaseStep DEF Step
<1>2. ASSUME UNCHANGED <<pc, n>> PROVE UNCHANGED <<Asking, Trying, Debts>>
  BY <1>2 DEF Asking, Trying, Debts, Owed
<1>3. ASSUME NEW new \in Task, tick(new) PROVE IInv' /\ AbstractStep
  <2>1. IInv' /\ Granted' = Granted
    BY <1>3, TickInv
  <2>2. UNCHANGED <<pc, n, value>>
    BY <1>3 DEF tick
  <2> QED
    BY <1>2, <2>1, <2>2 DEF AbstractStep, Abstract!vars, Permits
<1>4. CASE UNCHANGED vars
  <2>1. UNCHANGED <<pc, queueVars, value, n, state, current>>
    BY <1>4 DEF vars, cpuVars
  <2>2. IInv' /\ Granted' = Granted
    BY <2>1, CpuInv DEF IInv, TypeOK, States
  <2> QED
    BY <1>2, <2>1, <2>2 DEF Abstract!vars, Permits
<1> QED
  BY <1>1, <1>3, <1>4 DEF Next, AbstractStep

\* What the invariant says about those who sleep.
LEMMA Safe == IInv => NoSleeperWhilePermits /\ UnblockOnlyBlocked
<1> SUFFICES ASSUME IInv PROVE UnblockOnlyBlocked
  BY DEF IInv
<1>1. queue # <<>> => Head(queue) \in Proc /\ Queued(Head(queue))
  BY DEF IInv, TypeOK, Queued
<1> QED
  BY <1>1 DEF IInv, QueueSleeps, UnblockOnlyBlocked

\* IInv is an invariant of the semaphore, for any processes and any arguments.
THEOREM Invariant ==
    ASSUME Arguments
    PROVE  Spec => []IInv
<1>1. Init => IInv
  BY InitInv
<1>2. IInv /\ [Next]_vars => IInv'
  BY NextInv
<1> QED
  BY <1>1, <1>2, PTL DEF Spec

\* No process sleeps in a semaphore with a positive value, even while a release
\* of several permits is under way.
THEOREM NoLostSleeper ==
    ASSUME Arguments
    PROVE  Spec => []NoSleeperWhilePermits
BY Invariant, Safe, PTL

\* The assertion of unblock_process holds at every dequeue().
THEOREM UnblocksBlocked ==
    ASSUME Arguments
    PROVE  Spec => []UnblockOnlyBlocked
BY Invariant, Safe, PTL

\* The semaphore implements CountingSemaphore: what a release gives is what locks
\* take, one permit for each lock() or try_lock() that succeeds, whichever way
\* the permit goes.
THEOREM Refinement ==
    ASSUME Arguments
    PROVE  Spec => Abstract!Spec
<1>1. Init => Abstract!Init
  BY InitInv
<1>2. IInv /\ [Next]_vars => [Abstract!Next]_(Abstract!vars)
  BY NextInv
<1> QED
  BY <1>1, <1>2, Invariant, PTL DEF Spec, Abstract!Spec
=============================================================================
