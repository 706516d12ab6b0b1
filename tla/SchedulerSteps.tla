--------------------------- MODULE SchedulerSteps ---------------------------
(* What a step of the scheduler may change while the inductive invariant   *)
(* holds on (StepInv), and the steps that only move the control of a        *)
(* process or change the state of the one that runs.                        *)
EXTENDS Scheduler, TLAPS

-----------------------------------------------------------------------------

\* The kernel tasks have slots of their own, and NoPid is none.
LEMMA Constants ==
    /\ idle_pid = 0
    /\ idle_pid \in Pid /\ gc_pid \in Pid /\ gc_pid # idle_pid
    /\ NoPid \notin Pid
    /\ MAX_PROCESS \in Nat /\ Pid = 0 .. MAX_PROCESS - 1
  BY SchedulerAssumption DEF Pid, NoPid, idle_pid, gc_pid

\* The run queues stay exact when neither they nor what should be in them change.
LEMMA RunQueuesFrame ==
    ASSUME RunQueuesExact, run_queue' = run_queue, priority' = priority,
           \A x \in Pid : Unqueued(x)' <=> Unqueued(x)
    PROVE  RunQueuesExact'
  BY DEF RunQueuesExact, InQueue

\* A process that is out of the queues is EMPTY, NEW or KILLED, or READY and
\* about to be queued by the exec that made it.
LEMMA UnqueuedStates ==
    ASSUME IInv, NEW x \in Pid, Unqueued(x)
    PROVE  /\ state[x] \in {"EMPTY", "NEW", "KILLED", "READY"}
           /\ x # current_pid
  <1>1. CASE state[x] \in {"EMPTY", "NEW"}
    BY <1>1 DEF IInv, WaitersAwait
  <1>2. ASSUME NEW q \in Pid, pc[q] = "push", arg[q] = x
        PROVE  state[x] = "READY" /\ x # current_pid
    BY <1>2 DEF IInv, PickedFree
  <1>3. CASE slot = x /\ pc[gc_pid] \in {"clean", "release"}
    BY <1>3 DEF IInv, GcClean, CleaningPlaces
  <1> QED
    BY <1>1, <1>2, <1>3 DEF Unqueued

\* The current process p goes to the place l, inside the operation o, with c in
\* its local.
Goes(p, l, o, c) ==
    /\ p = current_pid
    /\ l \in Places /\ o \in {"none", "sleep", "await", "gc", "kill"}
    /\ c \in Pid \cup {NoPid}
    /\ pc' = [pc EXCEPT ![p] = l]
    /\ op' = [op EXCEPT ![p] = o]
    /\ arg' = [arg EXCEPT ![p] = c]
    /\ UNCHANGED <<pid, ppid, priority, run_queue, panic>>

\* l is in the code of p, and neither enters nor leaves a place where a process
\* is out of its queue.
OwnPlace(p, l, o, c) ==
    /\ p = idle_pid => l \in IdlePlaces
    /\ p = gc_pid => l \in GcPlaces \cup {"resched", "switch"}
    /\ p \notin {idle_pid, gc_pid} => l \notin IdlePlaces \cup GcPlaces
    /\ l \in {"resched", "switch"} =>
          IF p = gc_pid THEN o = "gc" ELSE o \in {"sleep", "await", "kill"}
    /\ \/ l = pc[p] /\ c = arg[p] /\ slot' = slot
       \/ /\ l \notin {"push", "clean", "release"}
          /\ pc[p] \notin {"push", "clean", "release"}

\* What exec and gc_task need of the slot they are at when they reach l.
SlotFits(p, l, c) ==
    /\ next_pid' \in Pid /\ slot' \in 0 .. MAX_PROCESS
    /\ next_pid' = next_pid \/ \A x \in Pid : pc'[x] # "pick_next"
    /\ l = "pick_next" => state[next_pid'] = "EMPTY"
    /\ l \in FillPlaces => c \in Pid \ {idle_pid, gc_pid}
    /\ l \in {"pick_bump", "pick_found", "new"} => state[c] = "EMPTY"
    /\ l \in {"paging", "ready"} => state[c] = "NEW"
    /\ p # gc_pid => slot' = slot
    /\ (p = gc_pid /\ l \in CleaningPlaces) => /\ slot' \in Pid
                                               /\ state[slot'] = "KILLED"
                                               /\ slot' # p
    /\ l = "unblock" => c \in Pid

\* How the states may change: p as it likes, as long as it wakes up its parent
\* when it dies and waits for a process that is alive; the others are only ever
\* woken up or given the CPU.
StatesMove(p, l, o, c) ==
    /\ state' \in [Pid -> process_state]
    /\ \A x \in Pid \ {p} :
          \/ state'[x] = state[x]
          \/ ~Unqueued(x) /\ state[x] # "KILLED" /\ state'[x] \in {"READY", "RUNNING"}
    /\ state'[p] \notin {"EMPTY", "NEW"}
    /\ state'[p] = "WAITING" =>
          /\ \/ l \in {"resched", "switch"} /\ o = "await"
             \/ l = "await" /\ p # current_pid'
          /\ (c \in Pid /\ ppid[c] = p /\ pid[c] = c) => state'[c] \notin {"KILLED", "EMPTY"}
    /\ state'[p] = "KILLED" =>
          \/ state[p] = "KILLED"
          \/ \A x \in Pid \ {p} : pid[x] = ppid[p] => state'[x] # "WAITING"
    /\ state'[idle_pid] \in {"READY", "RUNNING"}
    /\ (current_pid' = idle_pid /\ pc'[idle_pid] # "yield_lock") => state'[idle_pid] = "RUNNING"
    /\ state'[gc_pid] \in {"READY", "RUNNING", "BLOCKED"}

\* The CPU stays with p or goes to a queued process that can run.
CpuMoves(p) ==
    /\ current_pid' \in Pid
    /\ \/ current_pid' = p
       \/ /\ ~Unqueued(current_pid')
          /\ state[current_pid'] # "KILLED"
          /\ state'[current_pid'] \in {"READY", "RUNNING"}

\* The timeouts stay positive.
ClocksMove ==
    /\ rounds' \in [Pid -> 0 .. rr_quantum]
    /\ sleep_timeout' \in [Pid -> Nat]
    /\ SleepersTimed'

\* A step of this kind preserves the invariant.
LEMMA StepInv ==
    ASSUME IInv, NEW p \in Pid, NEW l, NEW o, NEW c,
           Goes(p, l, o, c), OwnPlace(p, l, o, c), SlotFits(p, l, c),
           StatesMove(p, l, o, c), CpuMoves(p), ClocksMove
    PROVE  IInv'
  <1>1. /\ p = current_pid /\ l \in Places /\ UNCHANGED <<pid, ppid, priority, run_queue, panic>>
        /\ pc'[p] = l /\ \A x \in Pid \ {p} : pc'[x] = pc[x]
        /\ op'[p] = o /\ \A x \in Pid \ {p} : op'[x] = op[x]
        /\ arg'[p] = c /\ \A x \in Pid \ {p} : arg'[x] = arg[x]
    <2>1. pc'[p] = l /\ \A x \in Pid \ {p} : pc'[x] = pc[x]
      BY DEF Goes, IInv, TypeOK
    <2>2. op'[p] = o /\ \A x \in Pid \ {p} : op'[x] = op[x]
      BY DEF Goes, IInv, TypeOK
    <2>3. arg'[p] = c /\ \A x \in Pid \ {p} : arg'[x] = arg[x]
      BY DEF Goes, IInv, TypeOK
    <2> QED
      BY <2>1, <2>2, <2>3 DEF Goes
  <1>2. \A x \in Pid \ {p} :
          \/ state'[x] = state[x]
          \/ ~Unqueued(x) /\ state[x] # "KILLED" /\ state'[x] \in {"READY", "RUNNING"}
    BY Zenon DEF StatesMove
  <1>3. TypeOK'
    <2>1. pc' \in [Pid -> Places] /\ op' \in [Pid -> {"none", "sleep", "await", "gc", "kill"}]
      BY DEF Goes, IInv, TypeOK
    <2>2. arg' \in [Pid -> Pid \cup {NoPid}]
      BY DEF Goes, IInv, TypeOK
    <2>3. state' \in [Pid -> process_state] /\ current_pid' \in Pid
      BY DEF StatesMove, CpuMoves
    <2>4. next_pid' \in Pid /\ slot' \in 0 .. MAX_PROCESS
      BY DEF SlotFits
    <2>5. rounds' \in [Pid -> 0 .. rr_quantum] /\ sleep_timeout' \in [Pid -> Nat]
      BY DEF ClocksMove
    <2>6. UNCHANGED <<pid, ppid, priority, run_queue, panic>>
      BY <1>1
    <2> QED
      BY <2>1, <2>2, <2>3, <2>4, <2>5, <2>6, Zenon DEF IInv, TypeOK
  <1>4. CodeOfTask'
    BY <1>1, Constants DEF IInv, CodeOfTask, OwnPlace
  <1>5. IdleReady'
    BY <1>1 DEF StatesMove, IInv, IdleReady
  <1>6. GcClean'
    <2>1. state'[gc_pid] \in {"READY", "RUNNING", "BLOCKED"}
      BY DEF StatesMove
    <2>2. ASSUME pc'[gc_pid] \in CleaningPlaces
          PROVE  slot' \in Pid /\ state[slot'] = "KILLED" /\ slot' # p
      <3>1. CASE p = gc_pid
        BY <1>1, <2>2, <3>1 DEF SlotFits
      <3>2. CASE p # gc_pid
        BY <1>1, <2>2, <3>2, Constants DEF SlotFits, IInv, GcClean
      <3> QED
        BY <3>1, <3>2
    <2>3. ASSUME pc'[gc_pid] \in CleaningPlaces
          PROVE  state'[slot'] = "KILLED" /\ slot' # current_pid'
      BY <1>2, <2>2, <2>3 DEF CpuMoves
    <2>4. pc'[gc_pid] = "unblock" => arg'[gc_pid] \in Pid
      BY <1>1, Constants DEF SlotFits, IInv, GcClean
    <2>5. pc'[gc_pid] = "release" => pc[gc_pid] = "release" /\ slot' = slot
      BY <1>1, Constants DEF OwnPlace, SlotFits
    <2> QED
      BY <1>1, <2>1, <2>2, <2>3, <2>4, <2>5 DEF IInv, GcClean
  <1>7. \A x \in Pid : Unqueued(x)' <=> Unqueued(x)
    <2>1. \A q \in Pid : pc'[q] = "push" <=> pc[q] = "push"
      BY <1>1 DEF OwnPlace
    <2>2. \A q \in Pid : pc[q] = "push" => arg'[q] = arg[q]
      BY <1>1 DEF OwnPlace
    <2>3. pc'[gc_pid] \in {"clean", "release"} <=> pc[gc_pid] \in {"clean", "release"}
      BY <1>1, Constants DEF OwnPlace
    <2>4. pc[gc_pid] \in {"clean", "release"} => slot' = slot
      BY <1>1, Constants DEF OwnPlace, SlotFits
    <2>5. state[p] \notin {"EMPTY", "NEW"} /\ state'[p] \notin {"EMPTY", "NEW"}
      BY <1>1 DEF IInv, WaitersAwait, StatesMove
    <2>6. ASSUME NEW x \in Pid
          PROVE  state'[x] \in {"EMPTY", "NEW"} <=> state[x] \in {"EMPTY", "NEW"}
      BY <1>2, <2>5 DEF Unqueued
    <2> QED
      BY <2>1, <2>2, <2>3, <2>4, <2>6 DEF Unqueued
  <1>8. RunQueuesExact'
    BY <1>1, <1>7, RunQueuesFrame DEF IInv
  <1>9. PickedFree'
    <2>1. ASSUME NEW y \in Pid, Unqueued(y)
          PROVE  state'[y] = state[y] /\ y # current_pid'
      BY <1>1, <1>2, <2>1, UnqueuedStates DEF CpuMoves
    <2>2. ASSUME NEW y \in Pid, state[y] \in {"EMPTY", "NEW"}
          PROVE  state'[y] = state[y]
      BY <2>1, <2>2 DEF Unqueued
    <2>3. ASSUME NEW x \in Pid, pc'[x] = "pick_next"
          PROVE  state'[next_pid'] = "EMPTY"
      <3>1. next_pid' \in Pid /\ state[next_pid'] = "EMPTY"
        BY <1>1, <2>3 DEF SlotFits, IInv, PickedFree
      <3> QED
        BY <2>2, <3>1
    <2>4. ASSUME NEW x \in Pid, pc'[x] \in FillPlaces
          PROVE  /\ arg'[x] \in Pid \ {idle_pid, gc_pid}
                 /\ pc'[x] \in {"pick_bump", "pick_found", "new"} => state[arg'[x]] = "EMPTY"
                 /\ pc'[x] \in {"paging", "ready"} => state[arg'[x]] = "NEW"
                 /\ pc'[x] = "push" => state[arg'[x]] = "READY" /\ Unqueued(arg'[x])
      <3>1. CASE x # p
        BY <1>1, <2>4, <3>1 DEF IInv, PickedFree, Unqueued
      <3>2. CASE x = p /\ l # "push"
        BY <1>1, <2>4, <3>2 DEF SlotFits
      <3>3. CASE x = p /\ l = "push"
        <4>1. pc[p] = "push" /\ c = arg[p]
          BY <3>3 DEF OwnPlace
        <4> QED
          BY <1>1, <2>4, <3>3, <4>1 DEF IInv, PickedFree, Unqueued
      <3> QED
        BY <3>1, <3>2, <3>3
    <2>5. \A y \in Pid : state[y] \in {"EMPTY", "NEW"} => state'[y] = state[y]
      BY <2>2
    <2>6. \A y \in Pid : Unqueued(y) => state'[y] = state[y] /\ y # current_pid'
      BY <2>1
    <2>7. ASSUME NEW x \in Pid, pc'[x] \in FillPlaces
          PROVE  /\ arg'[x] \in Pid \ {idle_pid, gc_pid}
                 /\ pc'[x] \in {"pick_bump", "pick_found", "new"} => state'[arg'[x]] = "EMPTY"
                 /\ pc'[x] \in {"paging", "ready"} => state'[arg'[x]] = "NEW"
                 /\ pc'[x] = "push" => state'[arg'[x]] = "READY" /\ arg'[x] # current_pid'
      BY <2>4, <2>5, <2>6, <2>7
    <2> QED
      BY <2>3, <2>7 DEF PickedFree, FillPlaces
  <1>10. PidOfSlot'
    <2>1. /\ pc'[gc_pid] = "release" <=> pc[gc_pid] = "release"
          /\ pc[gc_pid] = "release" => slot' = slot
      BY <1>1, Constants DEF OwnPlace, SlotFits
    <2>2. ASSUME NEW x \in Pid
          PROVE  state'[x] = "EMPTY" <=> state[x] = "EMPTY"
      <3>1. CASE x = p
        BY <1>1, <3>1 DEF IInv, WaitersAwait, StatesMove
      <3>2. CASE x # p
        BY <1>2, <3>2 DEF Unqueued
      <3> QED
        BY <3>1, <3>2
    <2>3. pc'[gc_pid] = "release" => slot' = slot
      BY <2>1
    <2>4. ASSUME NEW x \in Pid
          PROVE  /\ pid[x] = x \/ (pid[x] = 0 /\ ppid[x] = 0)
                 /\ (state[x] # "EMPTY" /\ ~(pc[gc_pid] = "release" /\ slot = x)) => pid[x] = x
      BY DEF IInv, PidOfSlot
    <2> QED
      BY <1>1, <2>1, <2>2, <2>3, <2>4 DEF PidOfSlot
  <1>11. WaitersAwait'
    <2>1. state'[current_pid'] \notin {"EMPTY", "NEW"}
      BY DEF CpuMoves, StatesMove
    <2>2. ASSUME NEW x \in Pid \ {p}, state'[x] = "WAITING"
          PROVE  /\ state[x] = "WAITING" /\ x # current_pid'
                 /\ pc'[x] = pc[x] /\ op'[x] = op[x]
      BY <1>1, <1>2, <2>2 DEF CpuMoves
    <2>3. state'[p] = "WAITING" => \/ pc'[p] \in {"resched", "switch"} /\ op'[p] = "await"
                                   \/ pc'[p] = "await" /\ p # current_pid'
      BY <1>1 DEF StatesMove
    <2> QED
      BY <1>1, <2>1, <2>2, <2>3 DEF IInv, WaitersAwait
  <1>12. AwaitNeverMissesKill'
    <2>1. ASSUME NEW x \in Pid, NEW y \in Pid,
                 state'[x] = "WAITING", arg'[x] = y, ppid[y] = x, pid[y] = y
          PROVE  state'[y] \notin {"KILLED", "EMPTY"}
      <3>1. CASE x = p
        BY <1>1, <2>1, <3>1 DEF StatesMove
      <3>2. CASE x # p
        <4>1. state[x] = "WAITING" /\ arg[x] = y
          BY <1>1, <1>2, <2>1, <3>2
        <4>2. state[y] \notin {"KILLED", "EMPTY"}
          BY <2>1, <4>1 DEF IInv, AwaitNeverMissesKill
        <4>3. pid[x] = x
          BY <4>1 DEF IInv, PidOfSlot, GcClean, CleaningPlaces
        <4>4. CASE y = p
          BY <2>1, <3>2, <4>2, <4>3, <4>4 DEF StatesMove
        <4>5. CASE y # p
          BY <1>2, <4>2, <4>5
        <4> QED
          BY <4>4, <4>5
      <3> QED
        BY <3>1, <3>2
    <2> QED
      BY <1>1, <2>1 DEF AwaitNeverMissesKill
  <1>13. SleepersTimed'
    BY DEF ClocksMove
  <1>14. SelectAlwaysFinds' /\ YieldOnlyRunning'
    BY <1>1, Zenon DEF IInv, SelectAlwaysFinds, YieldOnlyRunning
  <1> QED
    BY <1>3, <1>4, <1>5, <1>6, <1>8, <1>9, <1>10, <1>11, <1>12, <1>13, <1>14 DEF IInv

\* A step that only moves the control of p, and none of the states.
LEMMA MoveInv ==
    ASSUME IInv, NEW p \in Pid, NEW l, NEW c,
           Goes(p, l, op[p], c), OwnPlace(p, l, op[p], c), SlotFits(p, l, c),
           UNCHANGED <<state, rounds, sleep_timeout, current_pid>>,
           p # idle_pid,
           state[p] = "WAITING" => l \in {"resched", "switch"} /\ c = arg[p]
    PROVE  IInv'
  <1>1. StatesMove(p, l, op[p], c)
    <2>1. p = current_pid /\ p # idle_pid /\ UNCHANGED <<state, current_pid, ppid, pid>>
      BY DEF Goes
    <2>2. state' \in [Pid -> process_state] /\ \A x \in Pid \ {p} : state'[x] = state[x]
      BY <2>1 DEF IInv, TypeOK
    <2>3. state'[p] \notin {"EMPTY", "NEW"} /\ (state'[p] = "KILLED" => state[p] = "KILLED")
      BY <2>1 DEF IInv, WaitersAwait
    <2>4. state'[p] = "WAITING" =>
             /\ l \in {"resched", "switch"} /\ op[p] = "await"
             /\ (c \in Pid /\ ppid[c] = p /\ pid[c] = c) => state'[c] \notin {"KILLED", "EMPTY"}
      <3> HAVE state'[p] = "WAITING"
      <3>1. state[p] = "WAITING" /\ l \in {"resched", "switch"} /\ c = arg[p]
        BY <2>1
      <3>2. op[p] = "await"
        BY <2>1, <3>1 DEF IInv, WaitersAwait
      <3> QED
        BY <2>1, <3>1, <3>2 DEF IInv, AwaitNeverMissesKill
    <2>5. state'[idle_pid] \in {"READY", "RUNNING"} /\ state'[gc_pid] \in {"READY", "RUNNING", "BLOCKED"}
      BY <2>1 DEF IInv, IdleReady, GcClean
    <2> QED
      BY <2>1, <2>2, <2>3, <2>4, <2>5, Zenon DEF StatesMove
  <1>2. CpuMoves(p)
    BY DEF Goes, CpuMoves
  <1>3. ClocksMove
    BY DEF IInv, TypeOK, ClocksMove, SleepersTimed, Sleepers
  <1> QED
    BY <1>1, <1>2, <1>3, StepInv

\* A local that is not assigned keeps its value.
LEMMA SameLocals ==
    ASSUME IInv, NEW p \in Pid
    PROVE  /\ arg = [arg EXCEPT ![p] = arg[p]] /\ arg[p] \in Pid \cup {NoPid}
           /\ op = [op EXCEPT ![p] = op[p]] /\ op[p] \in {"none", "sleep", "await", "gc", "kill"}
           /\ pc = [pc EXCEPT ![p] = pc[p]] /\ pc[p] \in Places
  BY DEF IInv, TypeOK

\* The idle task and gc_task are not where the other processes are.
LEMMA UserPlace ==
    ASSUME IInv, NEW p \in Pid, pc[p] \notin IdlePlaces \cup GcPlaces \cup {"resched", "switch"}
    PROVE  p # idle_pid /\ p # gc_pid
  BY DEF IInv, CodeOfTask

\* reschedule(), the test outside of the lock.
LEMMA reschedule_Inv ==
    ASSUME IInv, NEW p \in Pid, reschedule(p)
    PROVE  IInv'
  <1>1. /\ pc[p] = "resched" /\ p = current_pid
        /\ UNCHANGED <<state, rounds, sleep_timeout, current_pid, next_pid, slot>>
    BY DEF reschedule, At, clockVars
  <1>2. p # idle_pid
    BY <1>1 DEF IInv, CodeOfTask, IdlePlaces
  <1>3. PICK l \in Places : /\ pc' = [pc EXCEPT ![p] = l]
                            /\ l # "switch" => state[p] = "RUNNING"
                            /\ l = "switch" \/ (p = gc_pid /\ l = "scan")
                               \/ (p # gc_pid /\ l \in {"run", "await", "dead"})
    <2>1. Return[op[p]] \in Places
      BY <1>1 DEF IInv, CodeOfTask, Return, Places
    <2>2. IF p = gc_pid THEN Return[op[p]] = "scan" ELSE Return[op[p]] \in {"run", "await", "dead"}
      BY <1>1 DEF IInv, CodeOfTask, Return
    <2>3. "switch" \in Places
      BY DEF Places
    <2> QED
      BY <2>1, <2>2, <2>3, Zenon DEF reschedule, Goto
  <1>4. Goes(p, l, op[p], arg[p])
    BY <1>1, <1>3, SameLocals DEF reschedule, Goes, pcbVars
  <1>5. OwnPlace(p, l, op[p], arg[p])
    BY <1>1, <1>2, <1>3 DEF IInv, CodeOfTask, OwnPlace, IdlePlaces, GcPlaces, CleaningPlaces
  <1>6. SlotFits(p, l, arg[p])
    BY <1>1, <1>3, SMTT(30), Zenon DEF IInv, TypeOK, SlotFits, FillPlaces, CleaningPlaces
  <1> QED
    BY <1>1, <1>2, <1>3, <1>4, <1>5, <1>6, MoveInv

\* The call of await_termination.
LEMMA await_call_Inv ==
    ASSUME IInv, NEW p \in Pid, await_call(p)
    PROVE  IInv'
  <1>1. /\ pc[p] = "run" /\ p = current_pid
        /\ UNCHANGED <<state, rounds, sleep_timeout, current_pid, next_pid, slot>>
    BY DEF await_call, At, Goto, pcbVars, clockVars
  <1>2. p # idle_pid /\ p # gc_pid
    BY <1>1, UserPlace DEF IdlePlaces, GcPlaces, CleaningPlaces
  <1>3. PICK c \in Pid : arg' = [arg EXCEPT ![p] = c]
    BY <1>1, SameLocals, Zenon DEF await_call, At, Goto, pcbVars, clockVars
  <1>4. Goes(p, "await", op[p], c)
    BY <1>1, <1>2, <1>3, SameLocals, Zenon DEF await_call, At, Goto, pcbVars, clockVars, Goes, Places
  <1>5. OwnPlace(p, "await", op[p], c)
    BY <1>1, <1>2, <1>3 DEF OwnPlace, IdlePlaces, GcPlaces, CleaningPlaces
  <1>6. SlotFits(p, "await", c)
    BY <1>1, <1>2, <1>3 DEF IInv, TypeOK, SlotFits, FillPlaces, CleaningPlaces
  <1>7. state[p] # "WAITING"
    BY <1>1 DEF IInv, WaitersAwait
  <1> QED
    BY <1>1, <1>2, <1>4, <1>5, <1>6, <1>7, MoveInv

\* exec, up to get_free_pid.
LEMMA exec_Inv ==
    ASSUME IInv, NEW p \in Pid, exec(p)
    PROVE  IInv'
  <1>1. /\ pc[p] = "run" /\ p = current_pid
        /\ UNCHANGED <<state, rounds, sleep_timeout, current_pid, next_pid, slot>>
    BY DEF exec, At, Goto, pcbVars, clockVars
  <1>2. p # idle_pid /\ p # gc_pid
    BY <1>1, UserPlace DEF IdlePlaces, GcPlaces, CleaningPlaces
  <1>3. PICK l \in {"pick", "returned"} : pc' = [pc EXCEPT ![p] = l]
    BY <1>1, SameLocals DEF exec, At, Goto, pcbVars, clockVars
  <1>4. Goes(p, l, op[p], arg[p])
    BY <1>1, <1>2, <1>3, SameLocals DEF exec, At, Goto, pcbVars, clockVars, Goes, Places
  <1>5. OwnPlace(p, l, op[p], arg[p])
    BY <1>1, <1>2, <1>3 DEF OwnPlace, IdlePlaces, GcPlaces, CleaningPlaces
  <1>6. SlotFits(p, l, arg[p])
    BY <1>1, <1>2, <1>3 DEF IInv, TypeOK, SlotFits, FillPlaces, CleaningPlaces
  <1>7. state[p] # "WAITING"
    BY <1>1 DEF IInv, WaitersAwait
  <1> QED
    BY <1>1, <1>2, <1>4, <1>5, <1>6, <1>7, MoveInv

\* get_free_pid, when next_pid is free.
LEMMA get_free_pid_take_Inv ==
    ASSUME IInv, NEW p \in Pid, get_free_pid_take(p)
    PROVE  IInv'
  <1>1. /\ pc[p] = "pick_next" /\ p = current_pid
        /\ UNCHANGED <<state, rounds, sleep_timeout, current_pid, next_pid, slot>>
    BY DEF get_free_pid_take, At, Goto, pcbVars, clockVars
  <1>2. p # idle_pid /\ p # gc_pid
    BY <1>1, UserPlace DEF IdlePlaces, GcPlaces, CleaningPlaces
  <1>3. next_pid \in Pid \ {idle_pid, gc_pid} /\ state[next_pid] = "EMPTY"
    BY <1>1, SMTT(30), Zenon DEF IInv, TypeOK, PickedFree, IdleReady, GcClean
  <1>4. Goes(p, "pick_bump", op[p], next_pid)
    BY <1>1, <1>2, <1>3, SameLocals DEF get_free_pid_take, At, Goto, pcbVars, clockVars, Goes, Places
  <1>5. OwnPlace(p, "pick_bump", op[p], next_pid)
    BY <1>1, <1>2, <1>3 DEF OwnPlace, IdlePlaces, GcPlaces, CleaningPlaces
  <1>6. SlotFits(p, "pick_bump", next_pid)
    BY <1>1, <1>2, <1>3 DEF IInv, TypeOK, SlotFits, FillPlaces, CleaningPlaces
  <1>7. state[p] # "WAITING"
    BY <1>1 DEF IInv, WaitersAwait
  <1> QED
    BY <1>1, <1>2, <1>4, <1>5, <1>6, <1>7, MoveInv

\* get_free_pid, the update of next_pid.
LEMMA get_free_pid_bump_Inv ==
    ASSUME IInv, NEW p \in Pid, get_free_pid_bump(p), OneExec
    PROVE  IInv'
  <1>1. /\ pc[p] \in {"pick_bump", "pick_found"} /\ p = current_pid
        /\ UNCHANGED <<state, rounds, sleep_timeout, current_pid, slot>>
    BY DEF get_free_pid_bump, At, Goto, pcbVars, clockVars
  <1>2. p # idle_pid /\ p # gc_pid
    BY <1>1, UserPlace DEF IdlePlaces, GcPlaces, CleaningPlaces
  <1>3. next_pid' \in Pid
    <2>1. PICK n \in Nat : next_pid' = n % MAX_PROCESS
      <3>1. next_pid + 1 \in Nat
        BY Constants DEF IInv, TypeOK
      <3>2. pc[p] = "pick_found" => arg[p] + 1 \in Nat
        BY Constants DEF IInv, PickedFree, FillPlaces
      <3> QED
        BY <3>1, <3>2 DEF get_free_pid_bump, At
    <2> QED
      BY <2>1, Constants, SchedulerAssumption
  <1>4. \A x \in Pid : pc'[x] # "pick_next"
    BY <1>1 DEF get_free_pid_bump, Goto, IInv, TypeOK, OneExec, ExecPlaces, FillPlaces
  <1>5. arg[p] \in Pid \ {idle_pid, gc_pid} /\ state[arg[p]] = "EMPTY"
    BY <1>1 DEF IInv, PickedFree, FillPlaces
  <1>6. Goes(p, "new", op[p], arg[p])
    BY <1>1, <1>2, <1>3, <1>4, <1>5, SameLocals DEF get_free_pid_bump, At, Goto, pcbVars, clockVars, Goes, Places
  <1>7. OwnPlace(p, "new", op[p], arg[p])
    BY <1>1, <1>2, <1>3, <1>4, <1>5 DEF OwnPlace, IdlePlaces, GcPlaces, CleaningPlaces
  <1>8. SlotFits(p, "new", arg[p])
    BY <1>1, <1>2, <1>3, <1>4, <1>5 DEF IInv, TypeOK, SlotFits, FillPlaces, CleaningPlaces
  <1>9. state[p] # "WAITING"
    BY <1>1 DEF IInv, WaitersAwait
  <1> QED
    BY <1>1, <1>2, <1>6, <1>7, <1>8, <1>9, MoveInv

\* create_paging, whether it works or not.
LEMMA create_paging_Inv ==
    ASSUME IInv, NEW p \in Pid, create_paging(p)
    PROVE  IInv'
  <1>1. /\ pc[p] = "paging" /\ p = current_pid
        /\ UNCHANGED <<state, rounds, sleep_timeout, current_pid, next_pid, slot>>
    BY DEF create_paging, At, Goto, pcbVars, clockVars
  <1>2. p # idle_pid /\ p # gc_pid
    BY <1>1, UserPlace DEF IdlePlaces, GcPlaces, CleaningPlaces
  <1>3. PICK l \in {"ready", "run", "returned"}, c \in Pid \cup {NoPid} :
           /\ pc' = [pc EXCEPT ![p] = l] /\ arg' = [arg EXCEPT ![p] = c]
           /\ l = "ready" => c = arg[p]
    BY <1>1, SameLocals DEF create_paging, At, Goto, pcbVars, clockVars
  <1>4. arg[p] \in Pid \ {idle_pid, gc_pid} /\ state[arg[p]] = "NEW"
    BY <1>1 DEF IInv, PickedFree, FillPlaces
  <1>5. Goes(p, l, op[p], c)
    BY <1>1, <1>2, <1>3, <1>4, SameLocals DEF create_paging, At, Goto, pcbVars, clockVars, Goes, Places
  <1>6. OwnPlace(p, l, op[p], c)
    BY <1>1, <1>2, <1>3, <1>4 DEF OwnPlace, IdlePlaces, GcPlaces, CleaningPlaces
  <1>7. SlotFits(p, l, c)
    BY <1>1, <1>2, <1>3, <1>4, SMTT(30), Zenon DEF IInv, TypeOK, SlotFits, FillPlaces, CleaningPlaces
  <1>8. state[p] # "WAITING"
    BY <1>1 DEF IInv, WaitersAwait
  <1> QED
    BY <1>1, <1>2, <1>5, <1>6, <1>7, <1>8, MoveInv

\* gc_task, the search for a parent that waits.
LEMMA gc_notify_Inv ==
    ASSUME IInv, NEW p \in Pid, gc_notify(p)
    PROVE  IInv'
  <1>1. /\ pc[p] = "notify" /\ p = current_pid
        /\ UNCHANGED <<state, rounds, sleep_timeout, current_pid, next_pid, slot>>
    BY DEF gc_notify, At, Goto, pcbVars, clockVars
  <1>2. p = gc_pid /\ p # idle_pid
    BY <1>1, Constants DEF IInv, CodeOfTask, IdlePlaces, GcPlaces, CleaningPlaces
  <1>3. PICK l \in {"unblock", "erase"}, c \in Pid \cup {NoPid} :
           /\ pc' = [pc EXCEPT ![p] = l] /\ arg' = [arg EXCEPT ![p] = c]
           /\ l = "unblock" => c \in Pid
    BY SameLocals, SMTT(30), Zenon DEF gc_notify, Goto, WaitingParent
  <1>4. slot \in Pid /\ state[slot] = "KILLED" /\ slot # p
    BY <1>1, <1>2 DEF IInv, GcClean, CleaningPlaces
  <1>5. Goes(p, l, op[p], c)
    BY <1>1, <1>2, <1>3, <1>4, SameLocals DEF gc_notify, At, Goto, pcbVars, clockVars, Goes, Places
  <1>6. OwnPlace(p, l, op[p], c)
    BY <1>1, <1>2, <1>3, <1>4 DEF OwnPlace, IdlePlaces, GcPlaces, CleaningPlaces
  <1>7. SlotFits(p, l, c)
    BY <1>1, <1>2, <1>3, <1>4, SMTT(30), Zenon DEF IInv, TypeOK, SlotFits, FillPlaces, CleaningPlaces
  <1>8. state[p] # "WAITING"
    BY <1>1 DEF IInv, WaitersAwait
  <1> QED
    BY <1>1, <1>2, <1>5, <1>6, <1>7, <1>8, MoveInv

\* A process that waits or is blocked is in its queue.
LEMMA BlockedQueued ==
    ASSUME IInv, NEW x \in Pid,
           state[x] \in {"WAITING", "BLOCKED", "SLEEPING", "BLOCKED_TIMEOUT", "RUNNING"}
    PROVE  ~Unqueued(x)
  BY UnqueuedStates

\* p, on its way to l with op o and arg c, puts itself in the state s.
OwnState(p, s, l, o, c) ==
    /\ current_pid' = current_pid
    /\ s \in process_state \ {"EMPTY", "NEW", "KILLED"}
    /\ state' = [state EXCEPT ![p] = s]
    /\ p = idle_pid => s = "RUNNING" \/ (s = "READY" /\ l = "yield_lock")
    /\ p = gc_pid => s = "BLOCKED"
    /\ s = "WAITING" => /\ l = "resched" /\ o = "await"
                        /\ (c \in Pid /\ ppid[c] = p /\ pid[c] = c)
                              => state[c] \notin {"KILLED", "EMPTY"}

\* A step by which p changes its own state and no other.
LEMMA OwnStateInv ==
    ASSUME IInv, NEW p \in Pid, NEW l, NEW o, NEW c, NEW s,
           Goes(p, l, o, c), OwnPlace(p, l, o, c), SlotFits(p, l, c), ClocksMove,
           OwnState(p, s, l, o, c)
    PROVE  IInv'
  <1> USE DEF OwnState
  <1>1. p = current_pid /\ pc'[p] = l
    BY DEF Goes, IInv, TypeOK
  <1>2. /\ state' \in [Pid -> process_state]
        /\ state'[p] = s /\ \A x \in Pid \ {p} : state'[x] = state[x]
    BY DEF IInv, TypeOK
  <1>3. state'[idle_pid] \in {"READY", "RUNNING"}
    BY <1>2, Constants DEF IInv, IdleReady
  <1>4. (current_pid' = idle_pid /\ pc'[idle_pid] # "yield_lock") => state'[idle_pid] = "RUNNING"
    BY <1>1, <1>2
  <1>5. state'[gc_pid] \in {"READY", "RUNNING", "BLOCKED"}
    BY <1>2, Constants DEF IInv, GcClean
  <1>6. state'[p] = "WAITING" =>
          /\ l = "resched" /\ o = "await"
          /\ (c \in Pid /\ ppid[c] = p /\ pid[c] = c) => state'[c] \notin {"KILLED", "EMPTY"}
    BY <1>2
  <1>7. StatesMove(p, l, o, c)
    BY <1>2, <1>3, <1>4, <1>5, <1>6, Zenon DEF StatesMove
  <1>8. CpuMoves(p)
    BY <1>1 DEF CpuMoves
  <1> QED
    BY <1>7, <1>8, StepInv

\* yield(), up to its lock: the idle task is RUNNING there.
LEMMA yield_Inv ==
    ASSUME IInv, NEW p \in Pid, yield(p)
    PROVE  IInv'
  <1>1. pc[p] = "yield" /\ p = current_pid
    BY Zenon DEF yield, At
  <1>2. p = idle_pid /\ p # gc_pid
    BY <1>1, Constants DEF IInv, CodeOfTask, IdlePlaces, GcPlaces, CleaningPlaces
  <1>3. state[p] = "RUNNING"
    BY <1>1, <1>2 DEF IInv, IdleReady
  <1>4. /\ state' = [state EXCEPT ![p] = "READY"] /\ pc' = [pc EXCEPT ![p] = "yield_lock"]
        /\ UNCHANGED <<pid, ppid, priority, rounds, sleep_timeout, run_queue, current_pid,
                       next_pid, op, arg, slot, panic>>
    BY <1>3 DEF yield, Goto, pcbVars, clockVars
  <1>5. Goes(p, "yield_lock", op[p], arg[p])
    BY <1>1, <1>4, SameLocals DEF Goes, Places
  <1>6. OwnPlace(p, "yield_lock", op[p], arg[p])
    BY <1>1, <1>2 DEF OwnPlace, IdlePlaces
  <1>7. SlotFits(p, "yield_lock", arg[p])
    BY <1>2, <1>4 DEF IInv, TypeOK, SlotFits, FillPlaces
  <1>8. ClocksMove
    BY <1>4 DEF IInv, TypeOK, ClocksMove, SleepersTimed, Sleepers
  <1>9. "READY" \in process_state \ {"EMPTY", "NEW", "KILLED"}
    BY DEF process_state
  <1>10. OwnState(p, "READY", "yield_lock", op[p], arg[p])
    BY <1>2, <1>4, <1>9 DEF OwnState
  <1> QED
    BY <1>5, <1>6, <1>7, <1>8, <1>10, OwnStateInv, Zenon

\* sleep_ms, when its assertion holds.
LEMMA sleep_ms_Inv ==
    ASSUME IInv, NEW p \in Pid, sleep_ms(p), panic' = "none"
    PROVE  IInv'
  <1>1. /\ pc[p] = "run" /\ p = current_pid /\ pc' = [pc EXCEPT ![p] = "resched"]
        /\ op' = [op EXCEPT ![p] = "sleep"] /\ state' = [state EXCEPT ![p] = "SLEEPING"]
        /\ UNCHANGED <<pid, ppid, priority, rounds, run_queue, current_pid, next_pid, arg, slot, panic>>
    BY Zenon DEF sleep_ms, Panics, At, Goto, pcbVars
  <1>2. PICK ticks \in Nat \ {0} : sleep_timeout' = [sleep_timeout EXCEPT ![p] = ticks]
    BY SchedulerAssumption DEF sleep_ms, Panics, At
  <1>3. p # idle_pid /\ p # gc_pid
    BY <1>1, UserPlace DEF IdlePlaces, GcPlaces, CleaningPlaces
  <1>4. Goes(p, "resched", "sleep", arg[p])
    BY <1>1, SameLocals DEF Goes, Places
  <1>5. OwnPlace(p, "resched", "sleep", arg[p])
    BY <1>1, <1>3 DEF OwnPlace, IdlePlaces, GcPlaces, CleaningPlaces
  <1>6. SlotFits(p, "resched", arg[p])
    BY <1>1, <1>3 DEF IInv, TypeOK, SlotFits, FillPlaces
  <1>7. ClocksMove
    <2>1. ASSUME NEW x \in Pid, state'[x] \in {"SLEEPING", "BLOCKED_TIMEOUT"}
          PROVE  sleep_timeout'[x] > 0
      BY <1>1, <1>2, <2>1 DEF IInv, TypeOK, SleepersTimed, Sleepers
    <2> QED
      BY <1>1, <1>2, <2>1 DEF IInv, TypeOK, ClocksMove, SleepersTimed, Sleepers
  <1>8. "SLEEPING" \in process_state \ {"EMPTY", "NEW", "KILLED"}
    BY DEF process_state
  <1>9. OwnState(p, "SLEEPING", "resched", "sleep", arg[p])
    BY <1>1, <1>3, <1>8 DEF OwnState
  <1> QED
    BY <1>4, <1>5, <1>6, <1>7, <1>9, OwnStateInv, Zenon

\* gc_task blocks.
LEMMA gc_block_Inv ==
    ASSUME IInv, NEW p \in Pid, gc_block(p)
    PROVE  IInv'
  <1>1. /\ pc[p] = "block" /\ p = current_pid /\ pc' = [pc EXCEPT ![p] = "resched"]
        /\ op' = [op EXCEPT ![p] = "gc"] /\ state' = [state EXCEPT ![p] = "BLOCKED"]
        /\ UNCHANGED <<pid, ppid, priority, rounds, sleep_timeout, run_queue, current_pid,
                       next_pid, arg, slot, panic>>
    BY DEF gc_block, At, Goto, pcbVars, clockVars
  <1>2. p = gc_pid /\ p # idle_pid
    BY <1>1, Constants DEF IInv, CodeOfTask, IdlePlaces, GcPlaces, CleaningPlaces
  <1>3. Goes(p, "resched", "gc", arg[p])
    BY <1>1, SameLocals DEF Goes, Places
  <1>4. OwnPlace(p, "resched", "gc", arg[p])
    BY <1>1, <1>2 DEF OwnPlace
  <1>5. SlotFits(p, "resched", arg[p])
    BY <1>1, <1>2 DEF IInv, TypeOK, SlotFits, FillPlaces, CleaningPlaces
  <1>6. ClocksMove
    <2>1. \A x \in Pid : state'[x] = "BLOCKED" \/ state'[x] = state[x]
      BY <1>1 DEF IInv, TypeOK
    <2> QED
      BY <1>1, <2>1 DEF IInv, TypeOK, ClocksMove, SleepersTimed, Sleepers
  <1>7. "BLOCKED" \in process_state \ {"EMPTY", "NEW", "KILLED"}
    BY DEF process_state
  <1>8. OwnState(p, "BLOCKED", "resched", "gc", arg[p])
    BY <1>1, <1>2, <1>7 DEF OwnState
  <1> QED
    BY <1>3, <1>4, <1>5, <1>6, <1>8, OwnStateInv, Zenon

\* The states kill_current_process sets: p is KILLED, no parent of it waits any
\* longer, and gc_task, if it was blocked, is READY.
LEMMA KilledByMoves ==
    ASSUME IInv, NEW p \in Pid, p # idle_pid, p # gc_pid
    PROVE  /\ KilledBy(p) \in [Pid -> process_state]
           /\ KilledBy(p)[p] = "KILLED"
           /\ \A x \in Pid \ {p} :
                 \/ KilledBy(p)[x] = state[x]
                 \/ ~Unqueued(x) /\ state[x] # "KILLED" /\ KilledBy(p)[x] = "READY"
           /\ \A x \in Pid \ {p} : pid[x] = ppid[p] => KilledBy(p)[x] # "WAITING"
           /\ KilledBy(p)[idle_pid] = state[idle_pid]
           /\ KilledBy(p)[gc_pid] \in {"READY", "RUNNING", "BLOCKED"}
  <1>1. state \in [Pid -> process_state]
    BY DEF IInv, TypeOK
  <1>2. PICK woken \in SUBSET Pid :
           /\ KilledBy(p) = [x \in Pid |-> IF x = p THEN "KILLED"
                                           ELSE IF x \in woken THEN "READY" ELSE state[x]]
           /\ \A x \in woken : state[x] \in {"WAITING", "BLOCKED"}
           /\ \A x \in Pid \ {p} : pid[x] = ppid[p] /\ state[x] = "WAITING" => x \in woken
    <2> DEFINE woken == {x \in Pid \ {p} : pid[x] = ppid[p] /\ state[x] = "WAITING"}
                        \cup {x \in {gc_pid} : state[x] = "BLOCKED"}
    <2>1. woken \in SUBSET Pid
      BY Constants
    <2>2. KilledBy(p) = [x \in Pid |-> IF x = p THEN "KILLED"
                                       ELSE IF x \in woken THEN "READY" ELSE state[x]]
      BY Zenon DEF KilledBy
    <2>3. /\ \A x \in woken : state[x] \in {"WAITING", "BLOCKED"}
          /\ \A x \in Pid \ {p} : pid[x] = ppid[p] /\ state[x] = "WAITING" => x \in woken
      OBVIOUS
    <2> HIDE DEF woken
    <2> QED
      BY <2>1, <2>2, <2>3, Zenon
  <1>3. KilledBy(p) \in [Pid -> process_state] /\ KilledBy(p)[p] = "KILLED"
    BY <1>1, <1>2 DEF process_state
  <1>4. ASSUME NEW x \in Pid \ {p}
        PROVE  /\ \/ KilledBy(p)[x] = state[x]
                  \/ ~Unqueued(x) /\ state[x] # "KILLED" /\ KilledBy(p)[x] = "READY"
               /\ pid[x] = ppid[p] => KilledBy(p)[x] # "WAITING"
    BY <1>2, BlockedQueued
  <1>5. KilledBy(p)[idle_pid] = state[idle_pid]
    BY <1>2, Constants DEF IInv, IdleReady
  <1>6. KilledBy(p)[gc_pid] \in {"READY", "RUNNING", "BLOCKED"}
    BY <1>2, Constants DEF IInv, GcClean
  <1> QED
    BY <1>3, <1>4, <1>5, <1>6, Zenon

\* The states once the sleep timeouts have been handled: some sleepers are READY.
LEMMA WokenMoves ==
    ASSUME IInv
    PROVE  /\ Woken \in [Pid -> process_state]
           /\ \A x \in Pid : \/ Woken[x] = state[x]
                             \/ /\ state[x] \in {"SLEEPING", "BLOCKED_TIMEOUT"}
                                /\ ~Unqueued(x) /\ Woken[x] = "READY"
           /\ \A x \in Pid : Woken[x] \in {"SLEEPING", "BLOCKED_TIMEOUT"} => sleep_timeout[x] # 1
  <1>1. state \in [Pid -> process_state]
    BY DEF IInv, TypeOK
  <1>2. Woken \in [Pid -> process_state]
    BY <1>1 DEF Woken, process_state
  <1>3. ASSUME NEW x \in Pid
        PROVE  /\ \/ Woken[x] = state[x]
                  \/ state[x] \in {"SLEEPING", "BLOCKED_TIMEOUT"} /\ Woken[x] = "READY"
               /\ Woken[x] \in {"SLEEPING", "BLOCKED_TIMEOUT"} => sleep_timeout[x] # 1
    BY DEF Woken, Sleepers
  <1> QED
    BY <1>2, <1>3, BlockedQueued


-----------------------------------------------------------------------------

\* kill_current_process.
LEMMA kill_current_process_Inv ==
    ASSUME IInv, NEW p \in Pid, kill_current_process(p)
    PROVE  IInv'
  <1>1. /\ pc[p] = "run" /\ p = current_pid /\ pc' = [pc EXCEPT ![p] = "resched"]
        /\ op' = [op EXCEPT ![p] = "kill"] /\ state' = KilledBy(p)
        /\ UNCHANGED <<pid, ppid, priority, rounds, sleep_timeout, run_queue, current_pid,
                       next_pid, arg, slot, panic>>
    BY DEF kill_current_process, At, Goto, pcbVars, clockVars
  <1>2. p # idle_pid /\ p # gc_pid
    BY <1>1, UserPlace DEF IdlePlaces, GcPlaces, CleaningPlaces
  <1>3. Goes(p, "resched", "kill", arg[p])
    BY <1>1, SameLocals DEF Goes, Places
  <1>4. OwnPlace(p, "resched", "kill", arg[p])
    BY <1>1, <1>2 DEF OwnPlace, IdlePlaces, GcPlaces, CleaningPlaces
  <1>5. SlotFits(p, "resched", arg[p])
    BY <1>1, <1>2, SMTT(30), Zenon DEF IInv, TypeOK, SlotFits, FillPlaces
  <1>6. StatesMove(p, "resched", "kill", arg[p])
    <2>1. state'[idle_pid] \in {"READY", "RUNNING"}
      BY <1>1, <1>2, KilledByMoves DEF IInv, IdleReady
    <2> QED
      BY <1>1, <1>2, <2>1, KilledByMoves, SMTT(30), Zenon DEF StatesMove
  <1>7. CpuMoves(p)
    BY <1>1 DEF CpuMoves
  <1>8. ClocksMove
    <2>1. \A x \in Pid : state'[x] \in {"READY", "KILLED"} \/ state'[x] = state[x]
      BY <1>1, <1>2, KilledByMoves
    <2> QED
      BY <1>1, <2>1, ZenonT(40) DEF IInv, TypeOK, ClocksMove, SleepersTimed, Sleepers
  <1> QED
    BY <1>3, <1>4, <1>5, <1>6, <1>7, <1>8, StepInv

\* gc_task unblocks the parent, when the assertion of unblock_process holds.
LEMMA gc_unblock_Inv ==
    ASSUME IInv, NEW p \in Pid, gc_unblock(p), panic' = "none"
    PROVE  IInv'
  <1>1. /\ pc[p] = "unblock" /\ p = current_pid /\ pc' = [pc EXCEPT ![p] = "erase"]
        /\ state[arg[p]] \in {"BLOCKED", "BLOCKED_TIMEOUT", "WAITING"}
        /\ state' = [state EXCEPT ![arg[p]] = "READY"] /\ arg' = [arg EXCEPT ![p] = NoPid]
        /\ UNCHANGED <<pid, ppid, priority, rounds, sleep_timeout, run_queue, current_pid,
                       next_pid, op, slot, panic>>
    BY DEF gc_unblock, Panics, At, Goto, pcbVars, clockVars
  <1>2. p = gc_pid /\ p # idle_pid
    BY <1>1, Constants, SMTT(30), Zenon DEF IInv, CodeOfTask, IdlePlaces, GcPlaces, CleaningPlaces
  <1>3. PICK a \in Pid : a = arg[p]
    BY <1>1, <1>2 DEF IInv, GcClean
  <1>4. slot \in Pid /\ state[slot] = "KILLED" /\ slot # p
    BY <1>1, <1>2 DEF IInv, GcClean, CleaningPlaces
  <1>5. Goes(p, "erase", op[p], NoPid)
    BY <1>1, SameLocals DEF Goes, Places
  <1>6. OwnPlace(p, "erase", op[p], NoPid)
    BY <1>1, <1>2, SMTT(30), Zenon DEF OwnPlace, GcPlaces, CleaningPlaces
  <1>7. SlotFits(p, "erase", NoPid)
    BY <1>1, <1>4 DEF IInv, TypeOK, SlotFits, FillPlaces
  <1>8. /\ state' \in [Pid -> process_state]
        /\ state'[a] = "READY" /\ \A x \in Pid \ {a} : state'[x] = state[x]
    BY <1>1, <1>3 DEF IInv, TypeOK, process_state
  <1>9. state[a] \in {"BLOCKED", "BLOCKED_TIMEOUT", "WAITING"} /\ ~Unqueued(a)
    BY <1>1, <1>3, BlockedQueued
  <1>10. StatesMove(p, "erase", op[p], NoPid)
    <2>1. /\ state[p] \in {"READY", "RUNNING", "BLOCKED"}
          /\ state'[p] \in {"READY", "RUNNING", "BLOCKED"}
      BY <1>2, <1>8, Zenon DEF IInv, GcClean
    <2>2. state'[idle_pid] \in {"READY", "RUNNING"} /\ current_pid' # idle_pid
      BY <1>1, <1>2, <1>8, Constants, Zenon DEF IInv, IdleReady
    <2>3. NoPid \notin Pid
      BY Constants
    <2> QED
      BY <1>2, <1>8, <1>9, <2>1, <2>2, <2>3, Zenon DEF StatesMove
  <1>11. CpuMoves(p)
    BY <1>1 DEF CpuMoves
  <1>12. ClocksMove
    BY <1>1, <1>8, Zenon DEF IInv, TypeOK, ClocksMove, SleepersTimed, Sleepers
  <1> QED
    BY <1>5, <1>6, <1>7, <1>10, <1>11, <1>12, StepInv, SMTT(30), Zenon

\* A step of exec: p, which goes to l, fills the slot c.
Fills(p, l, c) ==
    /\ p = current_pid /\ pc[p] \in {"new", "ready", "push"} /\ arg[p] = c
    /\ l \in {"paging", "push", "run", "await"}
    /\ pc'[p] = l /\ \A x \in Pid \ {p, c} : pc'[x] = pc[x]
    /\ pc'[c] = pc[c] \/ pc'[c] = "run"
    /\ \A x \in Pid \ {c} : state'[x] = state[x]
    /\ state'[c] \in {"NEW", "READY"}
    /\ UNCHANGED <<sleep_timeout, current_pid, next_pid, op, slot, panic>>

\* A step by which p, about to fill or queue the slot c, moves from one place of
\* exec to the next, or out of exec: what does not depend on the slot.
LEMMA FillFrame ==
    ASSUME IInv, OneExec, NEW p \in Pid, NEW l, NEW c \in Pid, Fills(p, l, c)
    PROVE  /\ c \notin {p, idle_pid, gc_pid} /\ p \notin {idle_pid, gc_pid}
           /\ pc[gc_pid] \in CleaningPlaces => slot # c
           /\ \A x \in Pid \ {p} : pc'[x] \notin ExecPlaces /\ pc[x] \notin ExecPlaces
           /\ CodeOfTask' /\ SleepersTimed' /\ SelectAlwaysFinds' /\ YieldOnlyRunning'
           /\ pc'[gc_pid] = pc[gc_pid] /\ state'[gc_pid] = state[gc_pid]
           /\ pc'[idle_pid] = pc[idle_pid] /\ state'[idle_pid] = state[idle_pid]
           /\ \A x \in Pid : state'[x] = "WAITING" =>
                 state[x] = "WAITING" /\ x # p /\ x # c /\ pc'[x] = pc[x]
  <1> USE DEF Fills
  <1>1. c \in Pid \ {idle_pid, gc_pid} /\ state[c] \in {"EMPTY", "NEW", "READY"} /\ c # p
    BY DEF IInv, PickedFree, FillPlaces, WaitersAwait
  <1>2. p # idle_pid /\ p # gc_pid
    BY UserPlace, Zenon DEF IdlePlaces, GcPlaces, CleaningPlaces
  <1>3. pc[gc_pid] \in CleaningPlaces => slot # c
    BY <1>1 DEF IInv, GcClean
  <1>4. \A x \in Pid \ {p} : pc'[x] \notin ExecPlaces /\ pc[x] \notin ExecPlaces
    BY DEF OneExec, ExecPlaces, FillPlaces
  <1>5. /\ pc'[gc_pid] = pc[gc_pid] /\ state'[gc_pid] = state[gc_pid]
        /\ pc'[idle_pid] = pc[idle_pid] /\ state'[idle_pid] = state[idle_pid]
    BY <1>1, <1>2, Constants
  <1>6. CodeOfTask'
    <2>1. ASSUME NEW x \in Pid
          PROVE  pc'[x] = pc[x] \/ (x \notin {idle_pid, gc_pid} /\ pc'[x] \in {"paging", "push", "run", "await"})
      BY <1>1, <1>2
    <2>2. op' = op
      OBVIOUS
    <2> QED
      <3> HIDE DEF Fills
      <3> QED
        BY <1>5, <2>1, <2>2, Zenon DEF IInv, CodeOfTask, IdlePlaces, GcPlaces, CleaningPlaces
  <1>7. SleepersTimed'
    <2>1. \A x \in Pid : state'[x] \in {"SLEEPING", "BLOCKED_TIMEOUT"} => state'[x] = state[x]
      OBVIOUS
    <2> QED
      BY <2>1 DEF IInv, SleepersTimed, Sleepers
  <1>8. SelectAlwaysFinds' /\ YieldOnlyRunning'
    BY Zenon DEF IInv, SelectAlwaysFinds, YieldOnlyRunning
  <1>9. ASSUME NEW x \in Pid, state'[x] = "WAITING"
        PROVE  state[x] = "WAITING" /\ x # p /\ x # c /\ pc'[x] = pc[x]
    BY <1>1, <1>9, SMTT(30), Zenon DEF IInv, WaitersAwait
  <1> QED
    BY <1>1, <1>2, <1>3, <1>4, <1>5, <1>6, <1>7, <1>8, <1>9, Zenon

\* new_process fills the slot.
LEMMA new_process_Inv ==
    ASSUME IInv, OneExec, NEW p \in Pid, new_process(p)
    PROVE  IInv'
  <1>1. /\ pc[p] = "new" /\ p = current_pid /\ pc' = [pc EXCEPT ![p] = "paging"]
        /\ UNCHANGED <<rounds, sleep_timeout, run_queue, current_pid, next_pid, op, arg, slot, panic>>
    BY DEF new_process, At, Goto, clockVars
  <1>2. PICK c \in Pid : c = arg[p] /\ state[c] = "EMPTY" /\ c # p
    BY <1>1, Zenon DEF IInv, PickedFree, FillPlaces, WaitersAwait
  <1>3. /\ pid' = [pid EXCEPT ![c] = c] /\ ppid' = [ppid EXCEPT ![c] = p]
        /\ priority' = [priority EXCEPT ![c] = DEFAULT_PRIORITY]
        /\ state' = [state EXCEPT ![c] = "NEW"]
    BY <1>2 DEF new_process
  <1>4. TypeOK'
    <2>1. pid' \in [Pid -> Pid] /\ ppid' \in [Pid -> Pid]
      BY <1>3, SMTT(30), Zenon DEF IInv, TypeOK
    <2>2. priority' \in [Pid -> Priority]
      BY <1>3 DEF IInv, TypeOK, DEFAULT_PRIORITY, Priority, MIN_PRIORITY, MAX_PRIORITY
    <2>3. state' \in [Pid -> process_state] /\ pc' \in [Pid -> Places]
      BY <1>1, <1>3, SMTT(30), Zenon DEF IInv, TypeOK, process_state, Places
    <2> QED
      BY <1>1, <2>1, <2>2, <2>3, Zenon DEF IInv, TypeOK
  <1>5. /\ pc'[p] = "paging" /\ \A x \in Pid \ {p} : pc'[x] = pc[x]
        /\ state'[c] = "NEW" /\ \A x \in Pid \ {c} : state'[x] = state[x]
    BY <1>1, <1>3 DEF IInv, TypeOK
  <1>6. /\ pid'[c] = c /\ ppid'[c] = p
        /\ \A x \in Pid \ {c} : pid'[x] = pid[x] /\ ppid'[x] = ppid[x] /\ priority'[x] = priority[x]
    BY <1>3, SMTT(30), Zenon DEF IInv, TypeOK
  <1>7. /\ c \notin {p, idle_pid, gc_pid} /\ p \notin {idle_pid, gc_pid}
        /\ pc[gc_pid] \in CleaningPlaces => slot # c
        /\ \A x \in Pid \ {p} : pc'[x] \notin ExecPlaces /\ pc[x] \notin ExecPlaces
        /\ CodeOfTask' /\ SleepersTimed' /\ SelectAlwaysFinds' /\ YieldOnlyRunning'
        /\ pc'[gc_pid] = pc[gc_pid] /\ state'[gc_pid] = state[gc_pid]
        /\ pc'[idle_pid] = pc[idle_pid] /\ state'[idle_pid] = state[idle_pid]
        /\ \A x \in Pid : state'[x] = "WAITING" =>
                 state[x] = "WAITING" /\ x # p /\ x # c /\ pc'[x] = pc[x]
    <2>1. Fills(p, "paging", c)
      BY <1>1, <1>2, <1>5 DEF Fills
    <2> QED
      BY <1>2, <2>1, FillFrame, SMTT(30), ZenonT(40)
  <1>8. IdleReady'
    BY <1>1, <1>6, <1>7, Constants, Zenon DEF IInv, IdleReady
  <1>9. GcClean'
    <2>1. pc[gc_pid] \in CleaningPlaces => /\ state'[slot] = state[slot]
                                           /\ pid'[slot] = pid[slot] /\ ppid'[slot] = ppid[slot]
      BY <1>5, <1>6, <1>7, Zenon DEF IInv, GcClean
    <2> QED
      BY <1>1, <1>7, <2>1, Zenon DEF IInv, GcClean, CleaningPlaces
  <1>10. PickedFree'
    <2>1. /\ pc'[p] = "paging" /\ arg' = arg /\ arg[p] = c /\ state'[c] = "NEW"
          /\ c \notin {idle_pid, gc_pid}
          /\ \A x \in Pid : x # p => pc'[x] \notin ExecPlaces
      BY <1>1, <1>2, <1>5, <1>7, Zenon
    <2> QED
      BY <2>1, Zenon DEF PickedFree, ExecPlaces, FillPlaces
  <1>11. PidOfSlot'
    <2> SUFFICES ASSUME NEW x \in Pid
                 PROVE  /\ pid'[x] = x \/ (pid'[x] = 0 /\ ppid'[x] = 0)
                        /\ (state'[x] # "EMPTY" /\ ~(pc'[gc_pid] = "release" /\ slot' = x)) => pid'[x] = x
      BY Zenon DEF PidOfSlot
    <2>1. CASE x = c
      BY <1>6, <2>1, Zenon
    <2>2. CASE x # c
      <3>1. /\ pid'[x] = pid[x] /\ ppid'[x] = ppid[x] /\ state'[x] = state[x]
            /\ pc'[gc_pid] = pc[gc_pid] /\ slot' = slot
        BY <1>1, <1>5, <1>6, <1>7, <2>2, Zenon
      <3> QED
        BY <3>1, Zenon DEF IInv, PidOfSlot
    <2> QED
      BY <2>1, <2>2, Zenon
  <1>12. WaitersAwait'
    <2>1. current_pid' = current_pid /\ current_pid = p /\ op' = op /\ p # c /\ state'[p] = state[p]
      BY <1>1, <1>5, <1>7, Zenon
    <2>2. ppid'[idle_pid] = ppid[idle_pid]
      BY <1>6, <1>7, Constants, Zenon
    <2> QED
      BY <1>7, <2>1, <2>2, Zenon DEF IInv, WaitersAwait
  <1>13. AwaitNeverMissesKill'
    <2> SUFFICES ASSUME NEW x \in Pid, NEW y \in Pid, state'[x] = "WAITING", arg'[x] = y,
                        ppid'[y] = x, pid'[y] = y
                 PROVE  state'[y] \notin {"KILLED", "EMPTY"}
      BY Zenon DEF AwaitNeverMissesKill
    <2>1. CASE y = c
      BY <1>5, <2>1, Zenon
    <2>2. CASE y # c
      <3>1. state[x] = "WAITING" /\ arg[x] = y /\ ppid[y] = x /\ pid[y] = y /\ state'[y] = state[y]
        BY <1>1, <1>5, <1>6, <1>7, <2>2, Zenon
      <3> QED
        BY <3>1, Zenon DEF IInv, AwaitNeverMissesKill
    <2> QED
      BY <2>1, <2>2, Zenon
  <1>14. RunQueuesExact'
    <2>1. ASSUME NEW x \in Pid
          PROVE  Unqueued(x)' <=> Unqueued(x)
      <3>1. \A q \in Pid : pc'[q] # "push" /\ pc[q] # "push"
        BY <1>1, <1>5, <1>7, Zenon DEF ExecPlaces, FillPlaces
      <3>2. state'[x] \in {"EMPTY", "NEW"} <=> state[x] \in {"EMPTY", "NEW"}
        BY <1>2, <1>5
      <3> QED
        BY <1>1, <1>7, <3>1, <3>2, Zenon DEF Unqueued
    <2>2. Unqueued(c)
      BY <1>2 DEF Unqueued
    <2>3. ASSUME NEW x \in Pid, NEW q \in Priority
          PROVE  InQueue(x, q)' <=> (~Unqueued(x)' /\ q = priority'[x])
      <3>1. InQueue(x, q)' <=> InQueue(x, q)
        BY <1>1, SMTT(30), Zenon DEF InQueue
      <3>2. InQueue(x, q) <=> (~Unqueued(x) /\ q = priority[x])
        BY SMTT(30), Zenon DEF IInv, RunQueuesExact
      <3> QED
        BY <1>6, <2>1, <2>2, <3>1, <3>2, Zenon
    <2> QED
      BY <1>1, <2>3, Zenon DEF IInv, RunQueuesExact
  <1> QED
    BY <1>4, <1>7, <1>8, <1>9, <1>10, <1>11, <1>12, <1>13, <1>14, SMTT(30), Zenon DEF IInv

\* queue_process, the new state.
LEMMA queue_process_Inv ==
    ASSUME IInv, OneExec, NEW p \in Pid, queue_process(p)
    PROVE  IInv'
  <1>1. /\ pc[p] = "ready" /\ p = current_pid /\ pc' = [pc EXCEPT ![p] = "push"]
        /\ UNCHANGED <<pid, ppid, priority, rounds, sleep_timeout, run_queue, current_pid,
                       next_pid, op, arg, slot, panic>>
    BY SMTT(30), Zenon DEF queue_process, At, Goto, pcbVars, clockVars
  <1>2. PICK c \in Pid : c = arg[p] /\ state[c] = "NEW" /\ c # p
    BY <1>1 DEF IInv, PickedFree, FillPlaces, WaitersAwait
  <1>3. state' = [state EXCEPT ![c] = "READY"]
    BY <1>2 DEF queue_process
  <1>4. TypeOK'
    <2>1. "READY" \in process_state /\ "push" \in Places
      BY DEF process_state, Places
    <2>2. state' \in [Pid -> process_state] /\ pc' \in [Pid -> Places]
      BY <1>1, <1>3, <2>1, SMTT(30), Zenon DEF IInv, TypeOK
    <2> QED
      BY <1>1, <2>2, Zenon DEF IInv, TypeOK
  <1>5. /\ pc'[p] = "push" /\ \A x \in Pid \ {p} : pc'[x] = pc[x]
        /\ state'[c] = "READY" /\ \A x \in Pid \ {c} : state'[x] = state[x]
    BY <1>1, <1>3, SMTT(30), Zenon DEF IInv, TypeOK
  <1>7. /\ c \notin {p, idle_pid, gc_pid} /\ p \notin {idle_pid, gc_pid}
        /\ pc[gc_pid] \in CleaningPlaces => slot # c
        /\ \A x \in Pid \ {p} : pc'[x] \notin ExecPlaces /\ pc[x] \notin ExecPlaces
        /\ CodeOfTask' /\ SleepersTimed' /\ SelectAlwaysFinds' /\ YieldOnlyRunning'
        /\ pc'[gc_pid] = pc[gc_pid] /\ state'[gc_pid] = state[gc_pid]
        /\ pc'[idle_pid] = pc[idle_pid] /\ state'[idle_pid] = state[idle_pid]
        /\ \A x \in Pid : state'[x] = "WAITING" =>
                 state[x] = "WAITING" /\ x # p /\ x # c /\ pc'[x] = pc[x]
    <2>1. Fills(p, "push", c)
      BY <1>1, <1>2, <1>5 DEF Fills
    <2> QED
      BY <1>2, <2>1, FillFrame, SMTT(30), ZenonT(40)
  <1>8. IdleReady'
    BY <1>1, <1>7, Zenon DEF IInv, IdleReady
  <1>9. GcClean'
    BY <1>1, <1>5, <1>7, Zenon DEF IInv, GcClean, CleaningPlaces
  <1>10. PickedFree'
    <2>1. /\ pc'[p] = "push" /\ arg' = arg /\ arg[p] = c /\ state'[c] = "READY"
          /\ c \notin {idle_pid, gc_pid} /\ c # current_pid'
          /\ \A x \in Pid : x # p => pc'[x] \notin ExecPlaces
      BY <1>1, <1>2, <1>5, <1>7, Zenon
    <2> QED
      BY <2>1, Zenon DEF PickedFree, ExecPlaces, FillPlaces
  <1>11. PidOfSlot'
    BY <1>1, <1>2, <1>5, <1>7 DEF IInv, PidOfSlot
  <1>12. WaitersAwait'
    BY <1>1, <1>5, <1>7, Zenon DEF IInv, WaitersAwait
  <1>13. AwaitNeverMissesKill'
    BY <1>1, <1>5, <1>7, Zenon DEF IInv, AwaitNeverMissesKill
  <1>14. RunQueuesExact'
    <2>1. ASSUME NEW x \in Pid
          PROVE  Unqueued(x)' <=> Unqueued(x)
      <3>1. \A q \in Pid : (pc'[q] = "push" <=> q = p) /\ pc[q] # "push"
        BY <1>1, <1>5, <1>7, Zenon DEF ExecPlaces, FillPlaces
      <3>2. CASE x = c
        BY <1>1, <1>2, <3>1, <3>2, Zenon DEF Unqueued
      <3>3. CASE x # c
        <4>1. state'[x] = state[x] /\ arg'[p] # x
          BY <1>1, <1>2, <1>5, <3>3, Zenon
        <4> QED
          BY <1>1, <1>7, <3>1, <4>1, Zenon DEF Unqueued
      <3> QED
        BY <3>2, <3>3
    <2> QED
      BY <1>1, <2>1, RunQueuesFrame DEF IInv
  <1> QED
    BY <1>4, <1>7, <1>8, <1>9, <1>10, <1>11, <1>12, <1>13, <1>14 DEF IInv

\* queue_process, the entry at the end of the run queue.
LEMMA queue_process_push_Inv ==
    ASSUME IInv, OneExec, NEW p \in Pid, queue_process_push(p)
    PROVE  IInv'
  <1>1. /\ pc[p] = "push" /\ p = current_pid
        /\ UNCHANGED <<state, pid, ppid, priority, rounds, sleep_timeout, current_pid,
                       next_pid, op, slot, panic>>
    BY Zenon DEF queue_process_push, At, pcbVars, clockVars
  <1>2. PICK c \in Pid : c = arg[p] /\ state[c] = "READY" /\ c # p
    BY <1>1 DEF IInv, PickedFree, FillPlaces
  <1>3. PICK l \in {"await", "run"}, d \in Pid \cup {NoPid} :
           /\ pc' = [pc EXCEPT ![p] = l, ![c] = "run"]
           /\ arg' = [arg EXCEPT ![p] = d]
           /\ run_queue' = [run_queue EXCEPT ![priority[c]] = Append(@, c)]
    BY <1>2, SameLocals, Zenon DEF queue_process_push
  <1>4. TypeOK'
    <2>1. pc' \in [Pid -> Places] /\ arg' \in [Pid -> Pid \cup {NoPid}]
      BY <1>3, Zenon DEF IInv, TypeOK, Places
    <2>2. run_queue' \in [Priority -> Seq(Pid)]
      BY <1>3, SMTT(30), Zenon DEF IInv, TypeOK
    <2> QED
      BY <1>1, <2>1, <2>2, Zenon DEF IInv, TypeOK
  <1>5. /\ pc'[p] = l /\ pc'[c] = "run" /\ \A x \in Pid \ {p, c} : pc'[x] = pc[x]
        /\ \A x \in Pid \ {p} : arg'[x] = arg[x]
    BY <1>2, <1>3 DEF IInv, TypeOK
  <1>6. state'[c] = "READY" /\ \A x \in Pid \ {c} : state'[x] = state[x]
    BY <1>1, <1>2
  <1>7. /\ c \notin {p, idle_pid, gc_pid} /\ p \notin {idle_pid, gc_pid}
        /\ pc[gc_pid] \in CleaningPlaces => slot # c
        /\ \A x \in Pid \ {p} : pc'[x] \notin ExecPlaces /\ pc[x] \notin ExecPlaces
        /\ CodeOfTask' /\ SleepersTimed' /\ SelectAlwaysFinds' /\ YieldOnlyRunning'
        /\ pc'[gc_pid] = pc[gc_pid] /\ state'[gc_pid] = state[gc_pid]
        /\ pc'[idle_pid] = pc[idle_pid] /\ state'[idle_pid] = state[idle_pid]
        /\ \A x \in Pid : state'[x] = "WAITING" =>
                 state[x] = "WAITING" /\ x # p /\ x # c /\ pc'[x] = pc[x]
    <2>1. Fills(p, l, c)
      BY <1>1, <1>2, <1>5, <1>6 DEF Fills
    <2> QED
      BY <1>2, <2>1, FillFrame, SMTT(30), ZenonT(40)
  <1>8. IdleReady'
    BY <1>1, <1>7, Zenon DEF IInv, IdleReady
  <1>9. GcClean'
    BY <1>1, <1>5, <1>7, Constants DEF IInv, GcClean, CleaningPlaces
  <1>10. \A x \in Pid : pc'[x] \notin ExecPlaces
    BY <1>5, <1>7, Zenon DEF ExecPlaces, FillPlaces
  <1>11. PickedFree'
    BY <1>10 DEF PickedFree, ExecPlaces, FillPlaces
  <1>12. PidOfSlot'
    BY <1>1, <1>7, SMTT(30), Zenon DEF IInv, PidOfSlot
  <1>13. WaitersAwait'
    BY <1>1, <1>7 DEF IInv, WaitersAwait
  <1>14. AwaitNeverMissesKill'
    <2> SUFFICES ASSUME NEW x \in Pid, NEW y \in Pid, state'[x] = "WAITING", arg'[x] = y,
                        ppid'[y] = x, pid'[y] = y
                 PROVE  state'[y] \notin {"KILLED", "EMPTY"}
      BY Zenon DEF AwaitNeverMissesKill
    <2>1. x # p /\ arg'[x] = arg[x]
      BY <1>5, <1>7, Zenon
    <2>2. state[x] = "WAITING" /\ arg[x] = y /\ ppid[y] = x /\ pid[y] = y /\ state'[y] = state[y]
      BY <1>1, <2>1, Zenon
    <2> QED
      BY <2>2, Zenon DEF IInv, AwaitNeverMissesKill
  <1>15. RunQueuesExact'
    <2>1. PICK q0 \in Priority, s \in Seq(Pid) : q0 = priority[c] /\ s = run_queue[q0]
      BY SMTT(30), Zenon DEF IInv, TypeOK
    <2>2. run_queue'[q0] = Append(s, c) /\ \A q \in Priority \ {q0} : run_queue'[q] = run_queue[q]
      BY <1>3, <2>1 DEF IInv, TypeOK
    <2>3. /\ DOMAIN s = 1 .. Len(s) /\ DOMAIN Append(s, c) = 1 .. Len(s) + 1 /\ Len(s) \in Nat
          /\ \A i \in 1 .. Len(s) : Append(s, c)[i] = s[i]
          /\ Append(s, c)[Len(s) + 1] = c
      BY <2>1
    <2>4. Unqueued(c) /\ ~InQueue(c, q0)
      BY <1>1, <1>2, <2>1, Zenon DEF IInv, RunQueuesExact, Unqueued
    <2>5. ~Unqueued(c)'
      <3>1. \A q \in Pid : pc'[q] # "push"
        BY <1>10 DEF ExecPlaces, FillPlaces
      <3>2. ~(slot' = c /\ pc'[gc_pid] \in {"clean", "release"})
        BY <1>1, <1>7 DEF CleaningPlaces
      <3> QED
        BY <1>6, <3>1, <3>2 DEF Unqueued
    <2>6. ASSUME NEW x \in Pid, x # c
          PROVE  Unqueued(x)' <=> Unqueued(x)
      <3>1. \A q \in Pid : pc'[q] # "push" /\ (pc[q] = "push" => q = p)
        BY <1>7, <1>10, Zenon DEF ExecPlaces, FillPlaces
      <3> QED
        BY <1>1, <1>2, <1>7, <2>6, <3>1, Zenon DEF Unqueued
    <2>7. ASSUME NEW x \in Pid
          PROVE  InQueue(x, q0)' <=> (InQueue(x, q0) \/ x = c)
      <3>1. InQueue(x, q0)' <=> \E i \in DOMAIN Append(s, c) : Append(s, c)[i] = x
        BY <2>2 DEF InQueue
      <3>2. InQueue(x, q0) <=> \E i \in DOMAIN s : s[i] = x
        BY <2>1 DEF InQueue
      <3> QED
        BY <2>3, <3>1, <3>2
    <2>8. \A i, j \in DOMAIN Append(s, c) : Append(s, c)[i] = Append(s, c)[j] => i = j
      <3>1. \A i, j \in DOMAIN s : s[i] = s[j] => i = j
        <4>1. \A i, j \in DOMAIN run_queue[q0] : run_queue[q0][i] = run_queue[q0][j] => i = j
          BY DEF IInv, RunQueuesExact
        <4> QED
          BY <2>1, <4>1, Zenon
      <3>2. \A i \in DOMAIN s : s[i] # c
        BY <2>1, <2>4 DEF InQueue
      <3> QED
        BY <2>3, <3>1, <3>2
    <2>9. ASSUME NEW q \in Priority, NEW i \in DOMAIN run_queue'[q], NEW j \in DOMAIN run_queue'[q],
                 run_queue'[q][i] = run_queue'[q][j]
          PROVE  i = j
      BY <2>2, <2>8, <2>9, Zenon DEF IInv, RunQueuesExact
    <2>10. ASSUME NEW x \in Pid, NEW q \in Priority
           PROVE  InQueue(x, q)' <=> (~Unqueued(x)' /\ q = priority'[x])
      <3>1. InQueue(x, q) <=> (~Unqueued(x) /\ q = priority[x])
        BY Zenon DEF IInv, RunQueuesExact
      <3>2. CASE q = q0
        BY <1>1, <2>1, <2>4, <2>5, <2>6, <2>7, <3>1, <3>2, Zenon
      <3>3. CASE q # q0
        <4>1. InQueue(x, q)' <=> InQueue(x, q)
          BY <2>2, <3>3 DEF InQueue
        <4> QED
          BY <1>1, <2>1, <2>5, <2>6, <3>1, <3>3, <4>1, Zenon
      <3> QED
        BY <3>2, <3>3
    <2> QED
      BY <2>9, <2>10, Zenon DEF RunQueuesExact
  <1> QED
    BY <1>4, <1>7, <1>8, <1>9, <1>11, <1>12, <1>13, <1>14, <1>15, Zenon DEF IInv

\* gc_task clears the pcb of the slot.
LEMMA gc_clean_Inv ==
    ASSUME IInv, NEW p \in Pid, gc_clean(p)
    PROVE  IInv'
  <1>1. /\ pc[p] = "clean" /\ p = current_pid /\ pc' = [pc EXCEPT ![p] = "release"]
        /\ pid' = [pid EXCEPT ![slot] = 0] /\ ppid' = [ppid EXCEPT ![slot] = 0]
        /\ UNCHANGED <<state, priority, rounds, sleep_timeout, run_queue, current_pid,
                       next_pid, op, arg, slot, panic>>
    BY DEF gc_clean, At, Goto, clockVars
  <1>2. p = gc_pid /\ p # idle_pid
    BY <1>1, Constants, SMTT(30), Zenon DEF IInv, CodeOfTask, IdlePlaces, GcPlaces, CleaningPlaces
  <1>3. PICK d \in Pid : d = slot /\ state[d] = "KILLED" /\ d # p /\ d # 0
    BY <1>1, <1>2, Constants, SMTT(30), Zenon DEF IInv, GcClean, CleaningPlaces, IdleReady
  <1>4. pc'[p] = "release" /\ \A x \in Pid \ {p} : pc'[x] = pc[x]
    BY <1>1, SMTT(30), Zenon DEF IInv, TypeOK
  <1>5. /\ pid'[d] = 0 /\ ppid'[d] = 0
        /\ \A x \in Pid \ {d} : pid'[x] = pid[x] /\ ppid'[x] = ppid[x]
    BY <1>1, <1>3 DEF IInv, TypeOK
  <1>6. TypeOK'
    <2>1. pid' \in [Pid -> Pid] /\ ppid' \in [Pid -> Pid]
      BY <1>1, Constants, Zenon DEF IInv, TypeOK
    <2>2. pc' \in [Pid -> Places]
      BY <1>1 DEF IInv, TypeOK, Places
    <2> QED
      BY <1>1, <2>1, <2>2, Zenon DEF IInv, TypeOK
  <1>7. CodeOfTask'
    BY <1>1, <1>2, <1>4, Constants, Zenon DEF IInv, CodeOfTask, GcPlaces, CleaningPlaces
  <1>8. IdleReady'
    BY <1>1, <1>2, Zenon DEF IInv, IdleReady
  <1>9. GcClean'
    BY <1>1, <1>2, <1>3, <1>4, <1>5 DEF IInv, GcClean
  <1>10. PickedFree'
    BY <1>1, <1>4, ZenonT(40) DEF IInv, PickedFree, FillPlaces
  <1>11. PidOfSlot'
    BY <1>1, <1>2, <1>3, <1>4, <1>5 DEF IInv, PidOfSlot
  <1>12. WaitersAwait'
    BY <1>1, <1>3, <1>4, <1>5, Constants DEF IInv, WaitersAwait
  <1>13. SleepersTimed'
    BY <1>1, Zenon DEF IInv, SleepersTimed, Sleepers
  <1>14. AwaitNeverMissesKill'
    BY <1>1, <1>3, <1>5 DEF IInv, AwaitNeverMissesKill
  <1>15. SelectAlwaysFinds' /\ YieldOnlyRunning'
    BY <1>1, Zenon DEF IInv, SelectAlwaysFinds, YieldOnlyRunning
  <1>16. RunQueuesExact'
    <2>1. \A q \in Pid : pc'[q] = "push" <=> pc[q] = "push"
      BY <1>1, <1>4, SMTT(30), Zenon
    <2>2. \A x \in Pid : Unqueued(x)' <=> Unqueued(x)
      BY <1>1, <1>2, <1>4, <2>1, SMTT(30), Zenon DEF Unqueued
    <2> QED
      BY <1>1, <2>2, RunQueuesFrame DEF IInv
  <1> QED
    BY <1>6, <1>7, <1>8, <1>9, <1>10, <1>11, <1>12, <1>13, <1>14, <1>15, <1>16, SMTT(30), Zenon DEF IInv

\* gc_task gives the slot back.
LEMMA gc_release_Inv ==
    ASSUME IInv, NEW p \in Pid, gc_release(p)
    PROVE  IInv'
  <1>1. /\ pc[p] = "release" /\ p = current_pid /\ pc' = [pc EXCEPT ![p] = "scan"]
        /\ state' = [state EXCEPT ![slot] = "EMPTY"] /\ slot' = slot + 1
        /\ UNCHANGED <<pid, ppid, priority, rounds, sleep_timeout, run_queue, current_pid,
                       next_pid, op, arg, panic>>
    BY DEF gc_release, At, Goto, pcbVars, clockVars
  <1>2. p = gc_pid /\ p # idle_pid
    BY <1>1, Constants, SMTT(30), Zenon DEF IInv, CodeOfTask, IdlePlaces, GcPlaces, CleaningPlaces
  <1>3. PICK d \in Pid : /\ d = slot /\ state[d] = "KILLED" /\ d # p /\ d # idle_pid
                         /\ pid[d] = 0 /\ ppid[d] = 0
    BY <1>1, <1>2, Constants, SMTT(30), Zenon DEF IInv, GcClean, CleaningPlaces, IdleReady
  <1>4. pc'[p] = "scan" /\ \A x \in Pid \ {p} : pc'[x] = pc[x]
    BY <1>1 DEF IInv, TypeOK
  <1>5. state'[d] = "EMPTY" /\ \A x \in Pid \ {d} : state'[x] = state[x]
    BY <1>1, <1>3 DEF IInv, TypeOK
  <1>6. TypeOK'
    <2>1. state' \in [Pid -> process_state]
      BY <1>1, <1>3 DEF IInv, TypeOK, process_state
    <2>2. slot' \in 0 .. MAX_PROCESS
      BY <1>1, <1>3, Constants
    <2>3. pc' \in [Pid -> Places]
      BY <1>1 DEF IInv, TypeOK, Places
    <2> QED
      BY <1>1, <2>1, <2>2, <2>3, Zenon DEF IInv, TypeOK
  <1>7. CodeOfTask'
    BY <1>1, <1>2, <1>4, Constants, ZenonT(40) DEF IInv, CodeOfTask, GcPlaces, CleaningPlaces
  <1>8. IdleReady'
    BY <1>1, <1>2, <1>3, <1>5, Constants, Zenon DEF IInv, IdleReady
  <1>9. GcClean'
    BY <1>1, <1>2, <1>3, <1>4, <1>5, SMTT(30), Zenon DEF IInv, GcClean, CleaningPlaces
  <1>10. PickedFree'
    <2>1. \A x \in Pid : pc'[x] \in FillPlaces \cup {"pick_next"} => pc'[x] = pc[x]
      BY <1>4 DEF FillPlaces
    <2>2. \A x \in Pid : state[x] \in {"EMPTY", "NEW", "READY"} => state'[x] = state[x]
      BY <1>3, <1>5
    <2>3. next_pid \in Pid
      BY DEF IInv, TypeOK
    <2> QED
      BY <1>1, <2>1, <2>2, <2>3 DEF IInv, PickedFree, FillPlaces
  <1>11. PidOfSlot'
    BY <1>1, <1>2, <1>3, <1>4, <1>5, SMTT(30), Zenon DEF IInv, PidOfSlot
  <1>12. WaitersAwait'
    BY <1>1, <1>3, <1>4, <1>5 DEF IInv, WaitersAwait
  <1>13. SleepersTimed'
    BY <1>1, <1>5, Zenon DEF IInv, SleepersTimed, Sleepers
  <1>14. AwaitNeverMissesKill'
    BY <1>1, <1>3, <1>5, Constants DEF IInv, AwaitNeverMissesKill
  <1>15. SelectAlwaysFinds' /\ YieldOnlyRunning'
    BY <1>1, Zenon DEF IInv, SelectAlwaysFinds, YieldOnlyRunning
  <1>16. RunQueuesExact'
    <2>1. \A q \in Pid : pc'[q] = "push" <=> pc[q] = "push"
      BY <1>1, <1>4
    <2>2. \A x \in Pid : Unqueued(x)' <=> Unqueued(x)
      BY <1>1, <1>2, <1>3, <1>4, <1>5, <2>1 DEF Unqueued
    <2> QED
      BY <1>1, <2>2, RunQueuesFrame DEF IInv
  <1> QED
    BY <1>6, <1>7, <1>8, <1>9, <1>10, <1>11, <1>12, <1>13, <1>14, <1>15, <1>16 DEF IInv

\* A failed assertion stops the kernel and changes nothing else.
LEMMA panic_Inv ==
    ASSUME IInv, panic' \in Messages \ {"No process is READY", "Can only yield() running processes"},
           UNCHANGED <<state, pid, ppid, priority, rounds, sleep_timeout, run_queue,
                       current_pid, next_pid, pc, op, arg, slot>>
    PROVE  IInv'
  <1>1. TypeOK'
    BY Zenon DEF IInv, TypeOK
  <1>2. CodeOfTask' /\ IdleReady' /\ GcClean'
    BY Zenon DEF IInv, CodeOfTask, IdleReady, GcClean
  <1>3. PickedFree' /\ PidOfSlot' /\ WaitersAwait' /\ SleepersTimed'
    BY Zenon DEF IInv, PickedFree, PidOfSlot, WaitersAwait, SleepersTimed, Sleepers
  <1>4. SelectAlwaysFinds' /\ YieldOnlyRunning'
    BY Zenon DEF SelectAlwaysFinds, YieldOnlyRunning
  <1>5. AwaitNeverMissesKill'
    BY Zenon DEF IInv, AwaitNeverMissesKill
  <1>6. \A x \in Pid : Unqueued(x)' <=> Unqueued(x)
    BY Zenon DEF Unqueued
  <1>7. RunQueuesExact'
    BY <1>6, RunQueuesFrame, Zenon DEF IInv
  <1> QED
    BY <1>1, <1>2, <1>3, <1>4, <1>5, <1>7, Zenon DEF IInv

\* The state scheduler::start leaves behind.
LEMMA Init_Inv ==
    ASSUME Init
    PROVE  IInv
  <1>1. /\ idle_pid = 0 /\ gc_pid = Terminals + 1 /\ post_init_pid = Terminals + 2
        /\ init_pids = 1 .. Terminals /\ post_init_pid + 1 \in Pid
        /\ idle_pid \in Pid /\ gc_pid \in Pid /\ post_init_pid \in Pid
        /\ Terminals \in Nat \ {0} /\ MAX_PROCESS \in Nat /\ Pid = 0 .. MAX_PROCESS - 1
        /\ 0 \in Pid /\ NoPid = MAX_PROCESS
    BY SchedulerAssumption DEF Pid, NoPid, idle_pid, gc_pid, post_init_pid, init_pids
  <1>2. /\ MIN_PRIORITY = 1 /\ MAX_PRIORITY = 4 /\ DEFAULT_PRIORITY = 3 /\ Priority = 1 .. 4
    BY DEF MIN_PRIORITY, MAX_PRIORITY, DEFAULT_PRIORITY, Priority
  <1>3. /\ \A x \in Pid : /\ x = post_init_pid => state[x] = "RUNNING"
                          /\ x < post_init_pid => state[x] = "READY"
                          /\ x > post_init_pid => state[x] = "EMPTY"
        /\ state \in [Pid -> process_state]
    BY <1>1 DEF Init, Boot, process_state
  <1>4. /\ \A x \in Pid : /\ x = 0 => priority[x] = 1
                          /\ x \in 1 .. gc_pid => priority[x] = 2
                          /\ x = post_init_pid => priority[x] = 4
        /\ priority \in [Pid -> Priority]
    BY <1>1, <1>2, SMTT(30), Zenon DEF Init
  <1>5. /\ run_queue[1] = <<0>> /\ run_queue[2] = [i \in 1 .. gc_pid |-> i]
        /\ run_queue[3] = <<>> /\ run_queue[4] = <<post_init_pid>>
        /\ DOMAIN run_queue = Priority
    BY <1>1, <1>2 DEF Init
  <1>6. run_queue \in [Priority -> Seq(Pid)]
    <2>1. <<0>> \in Seq(Pid) /\ <<>> \in Seq(Pid) /\ <<post_init_pid>> \in Seq(Pid)
      BY <1>1
    <2>2. [i \in 1 .. gc_pid |-> i] \in Seq(Pid)
      <3>1. gc_pid \in Nat /\ \A i \in 1 .. gc_pid : i \in Pid
        BY <1>1
      <3>2. [i \in 1 .. gc_pid |-> i] \in [1 .. gc_pid -> Pid]
        BY <3>1
      <3> QED
        BY <3>1, <3>2
    <2> QED
      BY <1>1, <1>2, <2>1, <2>2 DEF Init
  <1>7. /\ pc \in [Pid -> Places] /\ pc[idle_pid] = "hlt" /\ pc[gc_pid] = "block"
        /\ \A x \in Pid \ {idle_pid, gc_pid} : pc[x] = "run"
    BY <1>1 DEF Init, Places
  <1>8. TypeOK
    <2>1. pid \in [Pid -> Pid] /\ ppid \in [Pid -> Pid]
      BY <1>1 DEF Init
    <2>2. rounds \in [Pid -> 0 .. rr_quantum] /\ sleep_timeout \in [Pid -> Nat]
      BY SchedulerAssumption DEF Init
    <2>3. op \in [Pid -> {"none", "sleep", "await", "gc", "kill"}]
      BY DEF Init
    <2>4. arg \in [Pid -> Pid \cup {NoPid}]
      BY DEF Init
    <2>5. current_pid \in Pid /\ next_pid \in Pid /\ slot \in 0 .. MAX_PROCESS /\ panic \in Messages
      BY <1>1, SMTT(30), Zenon DEF Init, Messages
    <2> QED
      BY <1>3, <1>4, <1>6, <1>7, <2>1, <2>2, <2>3, <2>4, <2>5, SMTT(30), Zenon DEF TypeOK
  <1>9. CodeOfTask
    BY <1>7 DEF CodeOfTask, IdlePlaces, GcPlaces, CleaningPlaces
  <1>10. IdleReady
    <2>1. current_pid = post_init_pid
      BY DEF Init
    <2>2. idle_pid < post_init_pid /\ idle_pid # post_init_pid
      BY <1>1
    <2> QED
      BY <1>1, <1>2, <1>3, <1>4, <2>1, <2>2 DEF IdleReady
  <1>11. GcClean
    BY <1>1, <1>3, <1>7, SMTT(30), Zenon DEF GcClean, CleaningPlaces
  <1>12. PickedFree
    BY <1>7 DEF PickedFree, FillPlaces
  <1>13. PidOfSlot
    <2>1. \A x \in Pid : pid[x] = (IF x <= post_init_pid THEN x ELSE 0) /\ ppid[x] = 0
      BY DEF Init, Boot
    <2> QED
      BY <1>1, <1>3, <2>1 DEF PidOfSlot
  <1>14. WaitersAwait
    <2>1. \A x \in Pid : state[x] # "WAITING"
      BY <1>1, <1>3
    <2> QED
      BY <1>1, <1>3, <2>1 DEF WaitersAwait, Init
  <1>15. SleepersTimed
    <2>1. \A x \in Pid : state[x] \notin {"SLEEPING", "BLOCKED_TIMEOUT"}
      BY <1>1, <1>3
    <2> QED
      BY <2>1 DEF SleepersTimed, Sleepers
  <1>16. SelectAlwaysFinds /\ YieldOnlyRunning
    BY DEF Init, SelectAlwaysFinds, YieldOnlyRunning
  <1>17. AwaitNeverMissesKill
    BY <1>1, <1>3, SMTT(30), Zenon DEF AwaitNeverMissesKill
  <1>18. RunQueuesExact
    <2>1. ASSUME NEW x \in Pid
          PROVE  Unqueued(x) <=> x > post_init_pid
      BY <1>1, <1>3, <1>7 DEF Unqueued
    <2>2. ASSUME NEW x \in Pid
          PROVE  /\ InQueue(x, 1) <=> x = 0
                 /\ InQueue(x, 2) <=> x \in 1 .. gc_pid
                 /\ ~InQueue(x, 3)
                 /\ InQueue(x, 4) <=> x = post_init_pid
      BY <1>5 DEF InQueue
    <2>3. ASSUME NEW x \in Pid, NEW q \in Priority
          PROVE  InQueue(x, q) <=> (~Unqueued(x) /\ q = priority[x])
      <3>1. q \in {1, 2, 3, 4}
        BY <1>2
      <3>2. CASE x = 0
        BY <1>1, <1>4, <2>1, <2>2, <3>1, <3>2
      <3>3. CASE x \in 1 .. gc_pid
        BY <1>1, <1>4, <2>1, <2>2, <3>1, <3>3
      <3>4. CASE x = post_init_pid
        BY <1>1, <1>4, <2>1, <2>2, <3>1, <3>4
      <3>5. CASE x > post_init_pid
        BY <1>1, <2>1, <2>2, <3>1, <3>5
      <3> QED
        BY <1>1, <3>2, <3>3, <3>4, <3>5
    <2>4. ASSUME NEW q \in Priority, NEW i \in DOMAIN run_queue[q], NEW j \in DOMAIN run_queue[q],
                 run_queue[q][i] = run_queue[q][j]
          PROVE  i = j
      <3>1. q \in {1, 2, 3, 4}
        BY <1>2
      <3>2. CASE q = 1
        BY <1>5, <2>4, <3>2
      <3>3. CASE q = 2
        BY <1>5, <2>4, <3>3, Zenon
      <3>4. CASE q = 3
        BY <1>5, <2>4, <3>4
      <3>5. CASE q = 4
        BY <1>5, <2>4, <3>5
      <3> QED
        BY <3>1, <3>2, <3>3, <3>4, <3>5
    <2> QED
      BY <2>3, <2>4 DEF RunQueuesExact
  <1> QED
    BY <1>8, <1>9, <1>10, <1>11, <1>12, <1>13, <1>14, <1>15, <1>16, <1>17, <1>18, SMTT(30), Zenon DEF IInv

\* Nothing changes.
LEMMA Stutter_Inv ==
    ASSUME IInv, UNCHANGED vars
    PROVE  IInv'
  <1>1. UNCHANGED <<state, pid, ppid, priority, rounds, sleep_timeout, run_queue,
                    current_pid, next_pid, pc, op, arg, slot, panic>>
    BY DEF vars, pcbVars, clockVars
  <1>2. TypeOK' /\ CodeOfTask' /\ IdleReady' /\ GcClean'
    BY <1>1, Zenon DEF IInv, TypeOK, CodeOfTask, IdleReady, GcClean
  <1>3. PickedFree' /\ PidOfSlot' /\ WaitersAwait' /\ SleepersTimed'
    BY <1>1, Zenon DEF IInv, PickedFree, PidOfSlot, WaitersAwait, SleepersTimed, Sleepers
  <1>4. SelectAlwaysFinds' /\ YieldOnlyRunning'
    BY <1>1, Zenon DEF IInv, SelectAlwaysFinds, YieldOnlyRunning
  <1>5. AwaitNeverMissesKill'
    BY <1>1, Zenon DEF IInv, AwaitNeverMissesKill
  <1>6. \A x \in Pid : Unqueued(x)' <=> Unqueued(x)
    BY <1>1, Zenon DEF Unqueued
  <1>7. RunQueuesExact'
    BY <1>1, <1>6, RunQueuesFrame DEF IInv
  <1> QED
    BY <1>2, <1>3, <1>4, <1>5, <1>7 DEF IInv

\* A switch makes no process NEW.
LEMMA SwitchNotNew ==
    ASSUME NEW st \in [Pid -> process_state], SelectAndSwitch(st), NEW x \in Pid, state'[x] = "NEW"
    PROVE  st[x] = "NEW"
  BY Zenon DEF SelectAndSwitch, switch_to_process

\* Only new_process makes a process NEW, in the EMPTY slot that get_free_pid has
\* picked.
LEMMA NewFromEmpty ==
    ASSUME IInv, Next, NEW x \in Pid, state'[x] = "NEW", state[x] # "NEW"
    PROVE  state[x] = "EMPTY"
  <1>1. state \in [Pid -> process_state] /\ current_pid \in Pid
    BY SMTT(30), Zenon DEF IInv, TypeOK
  <1>2. CASE tick
    <2>1. Woken \in [Pid -> process_state] /\ Woken[x] # "NEW"
      BY <1>1, WokenMoves
    <2>2. Preempted(Woken) \in [Pid -> process_state] /\ Preempted(Woken)[x] # "NEW"
      BY <1>1, <2>1 DEF Preempted, process_state
    <2> QED
      BY <1>2, <2>1, <2>2, SwitchNotNew DEF tick, Preempt, NextRound
  <1>3. ASSUME NEW p \in {current_pid}, Step(p)
        PROVE  state[x] = "EMPTY"
    <2>1. p \in Pid
      BY <1>1
    <2>2. CASE reschedule(p) \/ await_call(p) \/ exec(p) \/ get_free_pid(p)
               \/ get_free_pid_take(p) \/ get_free_pid_bump(p) \/ create_paging(p)
               \/ queue_process_push(p) \/ gc_scan(p) \/ gc_notify(p) \/ gc_erase(p)
               \/ gc_clean(p) \/ killed_process_run(p)
      <3>1. state' = state
        BY <2>2, Zenon DEF reschedule, await_call, exec, get_free_pid, get_free_pid_take,
              get_free_pid_bump, create_paging, queue_process_push, gc_scan, gc_notify,
              gc_erase, gc_clean, killed_process_run, Panics
      <3> QED
        BY <3>1
    <2>3. CASE reschedule_switch(p)
      BY <1>1, <2>3, SwitchNotNew, Zenon DEF reschedule_switch
    <2>4. CASE yield(p) \/ sleep_ms(p) \/ gc_block(p)
      BY <1>1, <2>1, <2>4, Zenon DEF yield, sleep_ms, gc_block, Panics
    <2>5. CASE yield_lock(p)
      BY <1>1, <2>1, <2>5, SwitchNotNew DEF yield_lock
    <2>6. CASE kill_current_process(p)
      BY <2>6, Zenon DEF kill_current_process, KilledBy
    <2>7. CASE fault(p)
      <3>1. KilledBy(p) \in [Pid -> process_state] /\ KilledBy(p)[x] # "NEW"
        BY <1>1 DEF KilledBy, process_state
      <3> QED
        BY <2>7, <3>1, SwitchNotNew DEF fault
    <2>8. CASE await_termination(p)
      BY <1>1, <2>8 DEF await_termination
    <2>9. CASE new_process(p)
      BY <1>1, <2>1, <2>9, Zenon DEF new_process, At, IInv, PickedFree, FillPlaces
    <2>10. CASE queue_process(p)
      BY <1>1, <2>10 DEF queue_process
    <2>11. CASE gc_unblock(p)
      BY <1>1, <2>11, Zenon DEF gc_unblock, Panics
    <2>12. CASE gc_release(p)
      BY <1>1, <2>12 DEF gc_release
    <2> QED
      BY <1>3, <2>2, <2>3, <2>4, <2>5, <2>6, <2>7, <2>8, <2>9, <2>10, <2>11, <2>12, Zenon
         DEF Step, exec_step, gc_task
  <1>4. CASE suspend_kernel
    BY <1>4 DEF suspend_kernel, vars
  <1> QED
    BY <1>2, <1>3, <1>4 DEF Next
=============================================================================
