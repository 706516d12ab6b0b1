----------------------------- MODULE MutexProofs -----------------------------
(***************************************************************************)
(* Proofs that the mutex excludes and loses no sleeper, for any set of      *)
(* processes.  Every step of a process moves it from one place to another;  *)
(* the lemmas say what a move, an enqueue and a dequeue do to the queue and *)
(* to who holds the mutex.                                                  *)
(***************************************************************************)
EXTENDS Mutex, TLAPS

\* p is the owner of the mutex, or was handed it and is on its way back.
Holder(p) == pc[p] \in Owning \/ (pc[p] \in Sleeping /\ ~Queued(p))

\* OneHolder, said of the processes one by one.
LEMMA Holders ==
    OneHolder <=>
        /\ \A p, q \in Proc : Holder(p) /\ Holder(q) => p = q
        /\ value = 1 <=> \A p \in Proc : ~Holder(p)
        /\ value = 1 => queue = <<>>
<1>1. \A p : p \in Owners \cup Granted <=> p \in Proc /\ Holder(p)
  BY DEF Owners, Granted, Holder
<1> QED
  BY <1>1 DEF OneHolder

LEMMA HoldersNext ==
    OneHolder' <=>
        /\ \A p, q \in Proc : Holder(p)' /\ Holder(q)' => p = q
        /\ value' = 1 <=> \A p \in Proc : ~Holder(p)'
        /\ value' = 1 => queue' = <<>>
<1>1. \A p : p \in (Owners \cup Granted)' <=> p \in Proc /\ Holder(p)'
  BY DEF Owners, Granted, Holder
<1> QED
  BY <1>1 DEF OneHolder

\* enqueue() adds one process to the end of the queue.
LEMMA QueuedAppend ==
    ASSUME queue \in Seq(Proc), NEW p \in Proc, queue' = Append(queue, p)
    PROVE  /\ queue' \in Seq(Proc)
           /\ \A q : Queued(q)' <=> Queued(q) \/ q = p
<1>1. queue' \in Seq(Proc) /\ Len(queue') = Len(queue) + 1 /\ Len(queue) \in Nat
  OBVIOUS
<1>2. \A i \in 1..Len(queue) : queue'[i] = queue[i]
  OBVIOUS
<1>3. queue'[Len(queue) + 1] = p
  OBVIOUS
<1>4. DOMAIN queue = 1..Len(queue) /\ DOMAIN queue' = 1..(Len(queue) + 1)
  BY <1>1
<1> QED
  BY <1>1, <1>2, <1>3, <1>4 DEF Queued

\* A process that is not in the queue leaves no two places of it equal.
LEMMA InjectiveAppend ==
    ASSUME queue \in Seq(Proc), NEW p \in Proc, queue' = Append(queue, p), ~Queued(p),
           \A i, j \in DOMAIN queue : queue[i] = queue[j] => i = j
    PROVE  \A i, j \in DOMAIN queue' : queue'[i] = queue'[j] => i = j
<1>1. DOMAIN queue = 1..Len(queue) /\ DOMAIN queue' = 1..(Len(queue) + 1) /\ Len(queue) \in Nat
  OBVIOUS
<1>2. \A i \in 1..Len(queue) : queue'[i] = queue[i] /\ queue[i] # p
  BY <1>1 DEF Queued
<1>3. queue'[Len(queue) + 1] = p
  OBVIOUS
<1> QED
  BY <1>1, <1>2, <1>3

\* dequeue() takes the first process out of a queue without repetitions.
LEMMA QueuedTail ==
    ASSUME queue \in Seq(Proc), queue # <<>>, queue' = Tail(queue),
           \A i, j \in DOMAIN queue : queue[i] = queue[j] => i = j
    PROVE  /\ queue' \in Seq(Proc)
           /\ Head(queue) \in Proc /\ Queued(Head(queue))
           /\ \A q : Queued(q)' <=> Queued(q) /\ q # Head(queue)
           /\ \A i, j \in DOMAIN queue' : queue'[i] = queue'[j] => i = j
<1>1. Len(queue) \in Nat \ {0} /\ DOMAIN queue = 1..Len(queue) /\ Head(queue) = queue[1]
  OBVIOUS
<1>2. queue' \in Seq(Proc) /\ DOMAIN queue' = 1..(Len(queue) - 1)
  BY <1>1
<1>3. \A i \in 1..(Len(queue) - 1) : queue'[i] = queue[i + 1]
  BY <1>1
<1>4. Head(queue) \in Proc /\ Queued(Head(queue))
  BY <1>1 DEF Queued
<1>5. ASSUME NEW q, Queued(q)' PROVE Queued(q) /\ q # Head(queue)
  <2>1. PICK i \in 1..(Len(queue) - 1) : queue'[i] = q
    BY <1>2, <1>5 DEF Queued
  <2>2. i + 1 \in DOMAIN queue /\ queue[i + 1] = q /\ 1 \in DOMAIN queue /\ i + 1 # 1
    BY <2>1, <1>1, <1>3
  <2> QED
    BY <2>2, <1>1 DEF Queued
<1>6. ASSUME NEW q, Queued(q), q # Head(queue) PROVE Queued(q)'
  <2>1. PICK i \in 1..Len(queue) : queue[i] = q
    BY <1>1, <1>6 DEF Queued
  <2>2. i # 1
    BY <2>1, <1>1, <1>6
  <2>3. i - 1 \in 1..(Len(queue) - 1) /\ (i - 1) + 1 = i
    BY <2>1, <2>2, <1>1
  <2> QED
    BY <2>1, <2>3, <1>2, <1>3 DEF Queued
<1>7. \A i, j \in DOMAIN queue' : queue'[i] = queue'[j] => i = j
  <2> TAKE i, j \in DOMAIN queue'
  <2> HAVE queue'[i] = queue'[j]
  <2>1. i \in 1..(Len(queue) - 1) /\ j \in 1..(Len(queue) - 1)
    BY <1>2
  <2>2. i + 1 \in DOMAIN queue /\ j + 1 \in DOMAIN queue /\ queue[i + 1] = queue[j + 1]
    BY <2>1, <1>1, <1>3
  <2>3. i + 1 = j + 1
    BY <2>2
  <2> QED
    BY <2>1, <2>3
<1> QED
  BY <1>2, <1>4, <1>5, <1>6, <1>7

-----------------------------------------------------------------------------
\* A step that moves one process, keeps the value, the queue and the states,
\* and changes neither who holds the mutex nor who sleeps.
LEMMA MoveInv ==
    ASSUME IInv, NEW p \in Proc, NEW l \in Places, p = current, Goto(p, l),
           UNCHANGED <<cpuVars, queue, value>>,
           spinlock' \in Task,
           SpinlockHeld',
           pc[p] \in Owning <=> l \in Owning,
           pc[p] \in Sleeping <=> l \in Sleeping,
           l = "away" => state[p] # "BLOCKED"
    PROVE  IInv'
<1> USE DEF IInv
<1>1. pc' = [pc EXCEPT ![p] = l] /\ pc \in [Proc -> Places]
  BY DEF Goto, TypeOK
<1>2. \A q \in Proc : pc'[q] = IF q = p THEN l ELSE pc[q]
  BY <1>1
<1>3. \A q : Queued(q)' <=> Queued(q)
  BY DEF Queued
<1>4. TypeOK'
  BY <1>1 DEF TypeOK, cpuVars
<1>5. QueueSleeps'
  BY <1>2, <1>3 DEF QueueSleeps, cpuVars
<1>6. \A q \in Proc : Holder(q)' <=> Holder(q)
  BY <1>2, <1>3 DEF Holder
<1>7. OneHolder'
  BY <1>6, Holders, HoldersNext
<1>8. BackUnblocked'
  BY <1>2 DEF BackUnblocked, cpuVars
<1> QED
  BY <1>4, <1>5, <1>7, <1>8

\* The spinlock is taken and released by the process that moves.
LEMMA SpinHeldMove ==
    ASSUME IInv, NEW p \in Proc, NEW l \in Places, Goto(p, l),
           \/ spinlock' = spinlock /\ (pc[p] \in Spinlocked <=> l \in Spinlocked)
           \/ spinlock = idle /\ spinlock' = p /\ l \in Spinlocked
           \/ pc[p] \in Spinlocked /\ spinlock' = idle /\ l \notin Spinlocked
    PROVE  SpinlockHeld'
<1>1. \A q \in Proc : pc'[q] = IF q = p THEN l ELSE pc[q]
  BY DEF IInv, TypeOK, Goto
<1>2. idle \notin Proc
  BY CpuAssumption
<1> QED
  BY <1>1, <1>2 DEF IInv, SpinlockHeld

LEMMA SpinInv ==
    ASSUME IInv, NEW p \in Proc, NEW l, NEW m \in Places, spin(p, l, m), UNCHANGED value,
           m \in Spinlocked,
           l \in Owning <=> m \in Owning,
           l \notin Sleeping, m \notin Sleeping
    PROVE  IInv'
<1>1. /\ p = current /\ pc[p] = l /\ spinlock = idle /\ spinlock' = p
      /\ Goto(p, m) /\ UNCHANGED <<cpuVars, queue, value>>
  BY DEF spin, acquire_spin, At
<1>2. SpinlockHeld'
  BY <1>1, SpinHeldMove
<1>3. m # "away" /\ spinlock' \in Task
  BY <1>1 DEF Sleeping, Task
<1> QED
  BY <1>1, <1>2, <1>3, MoveInv

LEMMA UnspinInv ==
    ASSUME IInv, NEW p \in Proc, NEW l, NEW m \in Places, unspin(p, l, m), UNCHANGED value,
           l \in Spinlocked, m \notin Spinlocked,
           l \in Owning <=> m \in Owning,
           l \in Sleeping <=> m \in Sleeping,
           m # "away"
    PROVE  IInv'
<1>1. /\ p = current /\ pc[p] = l /\ spinlock' = idle
      /\ Goto(p, m) /\ UNCHANGED <<cpuVars, queue, value>>
  BY DEF unspin, release_spin, At
<1>2. SpinlockHeld'
  BY <1>1, SpinHeldMove
<1>3. spinlock' \in Task
  BY <1>1 DEF Task
<1> QED
  BY <1>1, <1>2, <1>3, MoveInv

\* A free mutex is taken: value goes to 0 with its new owner.
LEMMA TakeInv ==
    ASSUME IInv, NEW p \in Proc, NEW l \in {"locked", "try_locked"}, take(p, l)
    PROVE  IInv'
<1> USE DEF IInv
<1>1. /\ p = current /\ pc[p] = l /\ value > 0 /\ value' = 0 /\ Goto(p, "got")
      /\ UNCHANGED <<cpuVars, queueVars>>
  BY DEF take, At
<1>2. \A q \in Proc : pc'[q] = IF q = p THEN "got" ELSE pc[q]
  BY <1>1 DEF Goto, TypeOK
<1>3. "got" \in Places /\ "got" \in Spinlocked /\ pc[p] \in Spinlocked
  BY <1>1 DEF Places, Spinlocked
<1>4. SpinlockHeld'
  BY <1>1, <1>3, SpinHeldMove DEF queueVars
<1>5. TypeOK'
  BY <1>1, <1>3 DEF TypeOK, Goto, cpuVars, queueVars
<1>6. \A q : Queued(q)' <=> Queued(q)
  BY <1>1 DEF Queued, queueVars
<1>7. ~Queued(p)
  BY <1>1 DEF QueueSleeps, Sleeping
<1>8. QueueSleeps'
  BY <1>1, <1>2, <1>6, <1>7 DEF QueueSleeps, cpuVars, queueVars
<1>9. value = 1
  BY <1>1 DEF TypeOK
<1>10. \A q \in Proc : Holder(q)' <=> q = p
  <2>1. \A q \in Proc : ~Holder(q)
    BY <1>9, Holders
  <2>2. Holder(p)'
    BY <1>2 DEF Holder, Owning
  <2> QED
    BY <2>1, <2>2, <1>2, <1>6 DEF Holder
<1>11. OneHolder'
  BY <1>1, <1>10, HoldersNext
<1>12. BackUnblocked'
  BY <1>1, <1>2 DEF BackUnblocked, cpuVars
<1> QED
  BY <1>4, <1>5, <1>8, <1>11, <1>12

\* A process goes to sleep on a mutex that has a holder.
LEMMA EnqueueInv ==
    ASSUME IInv, NEW p \in Proc, At(p, "locked"), value = 0, enqueue(p), Goto(p, "queued"),
           UNCHANGED <<spinlock, value>>
    PROVE  IInv'
<1> USE DEF IInv
<1>1. p = current /\ pc[p] = "locked"
  BY DEF At
<1>2. \A q \in Proc : pc'[q] = IF q = p THEN "queued" ELSE pc[q]
  BY DEF Goto, TypeOK
<1>3. "queued" \in Places /\ "queued" \in Spinlocked /\ pc[p] \in Spinlocked
  BY <1>1 DEF Places, Spinlocked
<1>4. SpinlockHeld'
  BY <1>3, SpinHeldMove
<1>5. /\ queue \in Seq(Proc) /\ queue' = Append(queue, p)
      /\ state' = [state EXCEPT ![p] = "BLOCKED"] /\ current' = current
  BY DEF enqueue, TypeOK
<1>6. queue' \in Seq(Proc) /\ \A q : Queued(q)' <=> Queued(q) \/ q = p
  BY <1>5, QueuedAppend
<1>7. TypeOK'
  BY <1>3, <1>5, <1>6 DEF TypeOK, Goto
<1>8. ~Queued(p)
  BY <1>1 DEF QueueSleeps, Sleeping
<1>9. \A i, j \in DOMAIN queue' : queue'[i] = queue'[j] => i = j
  BY <1>5, <1>8, InjectiveAppend DEF QueueSleeps
<1>10. \A q \in Proc : state'[q] = IF q = p THEN "BLOCKED" ELSE state[q]
  BY <1>5 DEF TypeOK, Task
<1>11. QueueSleeps'
  BY <1>2, <1>6, <1>9, <1>10 DEF QueueSleeps, Sleeping
<1>12. \A q \in Proc : Holder(q)' <=> Holder(q)
  BY <1>1, <1>2, <1>6, <1>8 DEF Holder, Owning, Sleeping
<1>13. OneHolder'
  BY <1>12, Holders, HoldersNext
<1>14. BackUnblocked'
  BY <1>1, <1>2, <1>5 DEF BackUnblocked
<1> QED
  BY <1>4, <1>7, <1>11, <1>13, <1>14

\* unlock() without sleepers: the mutex is free.
LEMMA FreeInv ==
    ASSUME IInv, NEW p \in Proc, At(p, "unlocking"), queue = <<>>, value' = 1,
           Goto(p, "unlocked"), UNCHANGED <<cpuVars, queueVars>>
    PROVE  IInv'
<1> USE DEF IInv
<1>1. p = current /\ pc[p] = "unlocking"
  BY DEF At
<1>2. \A q \in Proc : pc'[q] = IF q = p THEN "unlocked" ELSE pc[q]
  BY DEF Goto, TypeOK
<1>3. "unlocked" \in Places /\ "unlocked" \in Spinlocked /\ pc[p] \in Spinlocked
  BY <1>1 DEF Places, Spinlocked
<1>4. SpinlockHeld'
  BY <1>3, SpinHeldMove DEF queueVars
<1>5. TypeOK'
  BY <1>3 DEF TypeOK, Goto, cpuVars, queueVars
<1>6. \A q : ~Queued(q) /\ ~Queued(q)'
  BY DEF Queued, queueVars
<1>7. QueueSleeps'
  BY <1>6 DEF QueueSleeps, queueVars
<1>8. Holder(p)
  BY <1>1 DEF Holder, Owning
<1>9. \A q \in Proc : ~Holder(q)'
  <2>1. \A q \in Proc : q # p => ~Holder(q)
    BY <1>8, Holders
  <2>2. ~Holder(p)'
    BY <1>2 DEF Holder, Owning, Sleeping
  <2> QED
    BY <2>1, <2>2, <1>2, <1>6 DEF Holder
<1>10. OneHolder'
  BY <1>9, HoldersNext DEF queueVars
<1>11. BackUnblocked'
  BY <1>1, <1>2 DEF BackUnblocked, cpuVars
<1> QED
  BY <1>4, <1>5, <1>7, <1>10, <1>11

\* unlock() with sleepers: the first one becomes the holder.
LEMMA HandoverInv ==
    ASSUME IInv, NEW p \in Proc, At(p, "unlocking"), dequeue, Goto(p, "unlocked"),
           UNCHANGED <<spinlock, value>>
    PROVE  IInv'
<1> USE DEF IInv
<1>0. PICK h : h = Head(queue)
  OBVIOUS
<1>1. p = current /\ pc[p] = "unlocking"
  BY DEF At
<1>2. \A q \in Proc : pc'[q] = IF q = p THEN "unlocked" ELSE pc[q]
  BY DEF Goto, TypeOK
<1>3. "unlocked" \in Places /\ "unlocked" \in Spinlocked /\ pc[p] \in Spinlocked
  BY <1>1 DEF Places, Spinlocked
<1>4. SpinlockHeld'
  BY <1>3, SpinHeldMove
<1>5. /\ queue \in Seq(Proc) /\ queue # <<>> /\ queue' = Tail(queue)
      /\ \A i, j \in DOMAIN queue : queue[i] = queue[j] => i = j
      /\ state' = [state EXCEPT ![h] = "READY"] /\ current' = current
  BY <1>0 DEF dequeue, TypeOK, QueueSleeps
<1>6. /\ queue' \in Seq(Proc)
      /\ h \in Proc /\ Queued(h)
      /\ \A q : Queued(q)' <=> Queued(q) /\ q # h
      /\ \A i, j \in DOMAIN queue' : queue'[i] = queue'[j] => i = j
  BY <1>0, <1>5, QueuedTail
<1>7. TypeOK'
  BY <1>3, <1>5, <1>6 DEF TypeOK, Goto
<1>8. \A q \in Proc : state'[q] = IF q = h THEN "READY" ELSE state[q]
  BY <1>5, <1>6 DEF TypeOK, Task
<1>9. pc[h] \in Sleeping /\ h # p /\ pc[p] \notin Sleeping
  BY <1>1, <1>6 DEF QueueSleeps, Sleeping
<1>10. QueueSleeps'
  BY <1>2, <1>6, <1>8, <1>9 DEF QueueSleeps
<1>11. \A q \in Proc : Holder(q)' <=> q = h
  <2>1. Holder(p) /\ \A q \in Proc : q # p => ~Holder(q)
    BY <1>1, Holders DEF Holder, Owning
  <2>2. ~Holder(p)'
    BY <1>2 DEF Holder, Owning, Sleeping
  <2>3. Holder(h)'
    BY <1>2, <1>6, <1>9 DEF Holder
  <2> QED
    BY <2>1, <2>2, <2>3, <1>2, <1>6 DEF Holder
<1>12. value # 1
  BY <1>1, Holders DEF Holder, Owning
<1>13. OneHolder'
  BY <1>6, <1>11, <1>12, HoldersNext
<1>14. BackUnblocked'
  BY <1>1, <1>2, <1>5 DEF BackUnblocked
<1> QED
  BY <1>4, <1>7, <1>10, <1>13, <1>14

\* A switch to a process that can run, with the states st on the way: nobody
\* becomes or ceases to be BLOCKED.
LEMMA SwitchInv ==
    ASSUME IInv, NEW st \in [Task -> {"READY", "RUNNING", "BLOCKED"}],
           \A q \in Task : st[q] = "BLOCKED" <=> state[q] = "BLOCKED",
           NEW new \in Task, new \in Candidates(st), SwitchTo(st, new)
    PROVE  /\ current' = new
           /\ state' \in [Task -> {"READY", "RUNNING", "BLOCKED"}]
           /\ \A q \in Proc : state'[q] = "BLOCKED" <=> state[q] = "BLOCKED"
           /\ new \in Proc => state'[new] # "BLOCKED"
<1>1. new \in Proc => Runnable(st, new)
  BY CpuAssumption DEF Candidates
<1>2. new \in Proc => st[new] # "BLOCKED"
  BY <1>1 DEF Runnable
<1>3. /\ current' = new
      /\ state' = IF new = current THEN st ELSE [st EXCEPT ![new] = "RUNNING"]
  BY DEF SwitchTo
<1>4. CASE new = current
  BY <1>2, <1>3, <1>4 DEF Task
<1>5. CASE new # current
  <2>1. state' = [st EXCEPT ![new] = "RUNNING"]
    BY <1>3, <1>5
  <2>2. \A q \in Proc : state'[q] = IF q = new THEN "RUNNING" ELSE st[q]
    BY <2>1 DEF Task
  <2>3. state' \in [Task -> {"READY", "RUNNING", "BLOCKED"}]
    BY <2>1
  <2> QED
    BY <1>2, <1>3, <2>2, <2>3 DEF Task
<1> QED
  BY <1>4, <1>5

\* What is left of the invariant when only the CPU goes to another process.
LEMMA CpuInv ==
    ASSUME IInv, UNCHANGED <<pc, queueVars, value>>,
           current' \in Task,
           state' \in [Task -> {"READY", "RUNNING", "BLOCKED"}],
           \A q \in Proc : state'[q] = "BLOCKED" <=> state[q] = "BLOCKED",
           current' # current /\ current' \in Proc => state'[current'] # "BLOCKED"
    PROVE  IInv'
<1> USE DEF IInv
<1>1. TypeOK'
  BY DEF TypeOK, queueVars
<1>2. SpinlockHeld'
  BY DEF SpinlockHeld, queueVars
<1>3. \A q : Queued(q)' <=> Queued(q)
  BY DEF Queued, queueVars
<1>4. QueueSleeps'
  BY <1>3 DEF QueueSleeps, queueVars
<1>5. \A q \in Proc : Holder(q)' <=> Holder(q)
  BY <1>3 DEF Holder
<1>6. OneHolder'
  BY <1>5, Holders, HoldersNext DEF queueVars
<1>7. BackUnblocked'
  BY DEF BackUnblocked
<1> QED
  BY <1>1, <1>2, <1>4, <1>6, <1>7

LEMMA TickInv ==
    ASSUME IInv, NEW new \in Task, tick(new)
    PROVE  IInv'
<1> DEFINE st == IF state[current] \in {"BLOCKED", "BLOCKED_TIMEOUT"} THEN state
                 ELSE [state EXCEPT ![current] = "READY"]
<1>1. state \in [Task -> {"READY", "RUNNING", "BLOCKED"}] /\ current \in Task
  BY DEF IInv, TypeOK
<1>2. /\ st \in [Task -> {"READY", "RUNNING", "BLOCKED"}]
      /\ \A q \in Task : st[q] = "BLOCKED" <=> state[q] = "BLOCKED"
  BY <1>1
<1>3. /\ new \in Candidates(st)
      /\ IF new = current THEN state' = state /\ UNCHANGED current ELSE SwitchTo(st, new)
      /\ UNCHANGED <<pc, queueVars, value>>
  BY DEF tick, Preempt
<1>4. CASE new = current
  BY <1>1, <1>3, <1>4, CpuInv
<1>5. CASE new # current
  <2>1. SwitchTo(st, new)
    BY <1>3, <1>5
  <2> HIDE DEF st
  <2>2. /\ current' = new
        /\ state' \in [Task -> {"READY", "RUNNING", "BLOCKED"}]
        /\ \A q \in Proc : state'[q] = "BLOCKED" <=> state[q] = "BLOCKED"
        /\ new \in Proc => state'[new] # "BLOCKED"
    BY <1>2, <1>3, <2>1, SwitchInv
  <2> QED
    BY <1>3, <2>2, CpuInv
<1> QED
  BY <1>4, <1>5

\* The four steps of reschedule(): a process that was handed the mutex comes
\* out of it as the owner, and none that is still in the queue comes out.
LEMMA RescheduleInv ==
    ASSUME IInv, NEW p \in Proc, reschedule(p, "critical"), UNCHANGED <<queueVars, value>>
    PROVE  IInv'
<1> USE DEF IInv
<1>1. p \in Task /\ idle \notin Proc
  BY CpuAssumption DEF Task
<1>2. {"resched", "switch", "away"} \subseteq Sleeping /\ Sleeping \subseteq Places
  BY DEF Sleeping, Places
<1>3. SUFFICES ASSUME p = current, pc[p] \in {"resched", "switch", "away"}
               PROVE  IInv'
  BY DEF reschedule, At
<1>4. pc[p] \notin Spinlocked /\ pc[p] \notin Owning
  BY <1>3 DEF Spinlocked, Owning
<1>5. CASE Goto(p, "switch") /\ UNCHANGED cpuVars
  <2>1. SpinlockHeld'
    BY <1>2, <1>4, <1>5, SpinHeldMove DEF queueVars, Sleeping, Spinlocked
  <2>2. "switch" \in Sleeping /\ "switch" \in Places /\ "switch" \notin Owning
    BY DEF Sleeping, Places, Owning
  <2> QED
    BY <1>2, <1>3, <1>4, <1>5, <2>1, <2>2, MoveInv DEF queueVars, TypeOK
<1>6. CASE At(p, "switch") /\ (\E new \in Candidates(state) : SwitchTo(state, new)) /\ Goto(p, "away")
  <2>1. PICK new \in Candidates(state) : SwitchTo(state, new)
    BY <1>6
  <2>2. new \in Task
    BY DEF Candidates, Task
  <2>3. /\ current' = new
        /\ state' \in [Task -> {"READY", "RUNNING", "BLOCKED"}]
        /\ \A q \in Proc : state'[q] = "BLOCKED" <=> state[q] = "BLOCKED"
        /\ new \in Proc => state'[new] # "BLOCKED"
    BY <2>1, <2>2, SwitchInv DEF TypeOK
  <2>4. \A q \in Proc : pc'[q] = IF q = p THEN "away" ELSE pc[q]
    BY <1>6 DEF Goto, TypeOK
  <2>5. "away" \in Sleeping /\ "away" \in Places /\ "away" \notin Owning /\ "away" \notin Spinlocked
    BY DEF Sleeping, Places, Owning, Spinlocked
  <2>6. TypeOK'
    BY <1>6, <2>2, <2>3, <2>5 DEF TypeOK, Goto, queueVars
  <2>7. SpinlockHeld'
    BY <1>4, <1>6, <2>5, SpinHeldMove DEF queueVars
  <2>8. \A q : Queued(q)' <=> Queued(q)
    BY DEF Queued, queueVars
  <2>9. QueueSleeps'
    BY <2>3, <2>4, <2>5, <2>8 DEF QueueSleeps, queueVars
  <2>10. \A q \in Proc : Holder(q)' <=> Holder(q)
    BY <1>2, <1>3, <1>4, <2>4, <2>5, <2>8 DEF Holder
  <2>11. OneHolder'
    BY <2>10, Holders, HoldersNext DEF queueVars
  <2>12. BackUnblocked'
    BY <2>3 DEF BackUnblocked
  <2> QED
    BY <2>6, <2>7, <2>9, <2>11, <2>12
<1>7. CASE Goto(p, "critical") /\ UNCHANGED cpuVars /\ state[p] # "BLOCKED"
  <2>1. ~Queued(p)
    BY <1>7 DEF QueueSleeps
  <2>2. "critical" \in Owning /\ "critical" \in Places /\ "critical" \notin Sleeping /\ "critical" \notin Spinlocked
    BY DEF Sleeping, Places, Owning, Spinlocked
  <2>3. \A q \in Proc : pc'[q] = IF q = p THEN "critical" ELSE pc[q]
    BY <1>7 DEF Goto, TypeOK
  <2>4. TypeOK'
    BY <1>7, <2>2 DEF TypeOK, Goto, cpuVars, queueVars
  <2>5. SpinlockHeld'
    BY <1>4, <1>7, <2>2, SpinHeldMove DEF queueVars
  <2>6. \A q : Queued(q)' <=> Queued(q)
    BY DEF Queued, queueVars
  <2>7. QueueSleeps'
    BY <1>7, <2>1, <2>3, <2>6 DEF QueueSleeps, cpuVars, queueVars
  <2>8. \A q \in Proc : Holder(q)' <=> Holder(q)
    BY <1>2, <1>3, <2>1, <2>2, <2>3, <2>6 DEF Holder
  <2>9. OneHolder'
    BY <2>8, Holders, HoldersNext DEF queueVars
  <2>10. BackUnblocked'
    BY <1>7, <2>3 DEF BackUnblocked, cpuVars
  <2> QED
    BY <2>4, <2>5, <2>7, <2>9, <2>10
<1>8. CASE At(p, "away") /\ Goto(p, "critical") /\ UNCHANGED cpuVars
  BY <1>7, <1>8, <1>3 DEF BackUnblocked, At
<1> QED
  BY <1>5, <1>6, <1>7, <1>8 DEF reschedule

-----------------------------------------------------------------------------
LEMMA StepInv ==
    ASSUME IInv, NEW p \in Proc, Step(p)
    PROVE  IInv'
<1> USE DEF Places, Owning, Spinlocked, Sleeping
<1>1. CASE call(p)
  <2>1. PICK l \in {"lock", "try_lock", "unlock"} :
            /\ p = current /\ Goto(p, l) /\ UNCHANGED <<cpuVars, queueVars, value>>
            /\ pc[p] = IF l = "unlock" THEN "critical" ELSE "out"
    BY <1>1 DEF call, At
  <2>2. SpinlockHeld'
    BY <2>1, SpinHeldMove DEF queueVars
  <2>3. spinlock' \in Task
    BY <2>1 DEF IInv, TypeOK, queueVars
  <2> QED
    BY <2>1, <2>2, <2>3, MoveInv DEF queueVars
<1>2. CASE lock(p)
  <2>1. CASE spin(p, "lock", "locked") /\ UNCHANGED value
    BY <2>1, SpinInv
  <2>2. CASE take(p, "locked")
    BY <2>2, TakeInv
  <2>3. CASE unspin(p, "got", "critical") /\ UNCHANGED value
    BY <2>3, UnspinInv
  <2>4. CASE At(p, "locked") /\ value = 0 /\ enqueue(p) /\ Goto(p, "queued") /\ UNCHANGED <<spinlock, value>>
    BY <2>4, EnqueueInv
  <2>5. CASE unspin(p, "queued", "resched") /\ UNCHANGED value
    BY <2>5, UnspinInv
  <2>6. CASE reschedule(p, "critical") /\ UNCHANGED <<queueVars, value>>
    BY <2>6, RescheduleInv
  <2> QED
    BY <1>2, <2>1, <2>2, <2>3, <2>4, <2>5, <2>6 DEF lock
<1>3. CASE try_lock(p)
  <2>1. CASE spin(p, "try_lock", "try_locked") /\ UNCHANGED value
    BY <2>1, SpinInv
  <2>2. CASE take(p, "try_locked")
    BY <2>2, TakeInv
  <2>3. CASE unspin(p, "try_locked", "out") /\ UNCHANGED value
    BY <2>3, UnspinInv
  <2> QED
    BY <1>3, <2>1, <2>2, <2>3 DEF try_lock
<1>4. CASE unlock(p)
  <2>1. CASE spin(p, "unlock", "unlocking") /\ UNCHANGED value
    BY <2>1, SpinInv
  <2>2. CASE /\ At(p, "unlocking") /\ queue = <<>> /\ value' = 1
             /\ Goto(p, "unlocked") /\ UNCHANGED <<cpuVars, queueVars>>
    BY <2>2, FreeInv
  <2>3. CASE At(p, "unlocking") /\ dequeue /\ Goto(p, "unlocked") /\ UNCHANGED <<spinlock, value>>
    BY <2>3, HandoverInv
  <2>4. CASE unspin(p, "unlocked", "out") /\ UNCHANGED value
    BY <2>4, UnspinInv
  <2> QED
    BY <1>4, <2>1, <2>2, <2>3, <2>4 DEF unlock
<1> QED
  BY <1>1, <1>2, <1>3, <1>4 DEF Step

LEMMA InitInv == Init => IInv
<1> SUFFICES ASSUME Init PROVE IInv
  OBVIOUS
<1>1. pc = [p \in Proc |-> "out"] /\ spinlock = idle /\ queue = <<>> /\ value = 1 /\ idle \notin Proc
  BY CpuAssumption DEF Init, QueueInit
<1>2. "out" \in Places /\ "out" \notin Spinlocked /\ "out" \notin Owning /\ "out" \notin Sleeping
  BY DEF Places, Spinlocked, Owning, Sleeping
<1>3. TypeOK
  BY <1>1, <1>2 DEF TypeOK, Init, CpuInit, Task
<1>4. SpinlockHeld
  BY <1>1, <1>2 DEF SpinlockHeld
<1>5. \A p : ~Queued(p)
  <2>1. queue \in Seq(Proc) /\ Len(queue) = 0
    BY <1>1
  <2>2. DOMAIN queue = {}
    BY <2>1
  <2> QED
    BY <2>2 DEF Queued
<1>6. QueueSleeps
  BY <1>1, <1>5 DEF QueueSleeps
<1>7. OneHolder
  BY <1>1, <1>2, Holders DEF Holder
<1>8. BackUnblocked
  BY <1>1, <1>2 DEF BackUnblocked
<1> QED
  BY <1>3, <1>4, <1>6, <1>7, <1>8 DEF IInv

LEMMA NextInv == IInv /\ [Next]_vars => IInv'
<1> SUFFICES ASSUME IInv, [Next]_vars PROVE IInv'
  OBVIOUS
<1>1. CASE \E p \in Proc : Step(p)
  BY <1>1, StepInv
<1>2. CASE \E new \in Task : tick(new)
  BY <1>2, TickInv
<1>3. CASE UNCHANGED vars
  <2>1. UNCHANGED <<pc, queueVars, value, state, current>>
    BY <1>3 DEF vars, cpuVars
  <2> QED
    BY <2>1, CpuInv DEF IInv, TypeOK
<1> QED
  BY <1>1, <1>2, <1>3 DEF Next

\* What the invariant says about those who hold the mutex and those who sleep.
LEMMA Safe == IInv => MutualExclusion /\ NoSleeperWhileFree /\ UnblockOnlyBlocked
<1>1. IInv => MutualExclusion
  BY Holders DEF IInv, MutualExclusion, Holder, Owning
<1>2. IInv => NoSleeperWhileFree
  BY DEF IInv, OneHolder, NoSleeperWhileFree, Queued
<1>3. IInv => UnblockOnlyBlocked
  <2> SUFFICES ASSUME IInv, queue # <<>> PROVE state[Head(queue)] = "BLOCKED"
    BY DEF UnblockOnlyBlocked
  <2>1. queue \in Seq(Proc)
    BY DEF IInv, TypeOK
  <2>2. 1 \in DOMAIN queue /\ Head(queue) = queue[1] /\ Head(queue) \in Proc
    BY <2>1
  <2> QED
    BY <2>2 DEF IInv, QueueSleeps, Queued
<1> QED
  BY <1>1, <1>2, <1>3

\* IInv is an invariant of the mutex, for any processes and any number of them.
THEOREM Invariant == Spec => []IInv
  BY InitInv, NextInv, PTL DEF Spec

\* mutex.hpp: "the critical section is only accessible by the thread who
\* acquired the mutex".
THEOREM Exclusion == Spec => []MutualExclusion
BY Invariant, Safe, PTL

\* No process is left in the queue of a mutex that is free.
THEOREM NoLostSleeper == Spec => []NoSleeperWhileFree
BY Invariant, Safe, PTL

\* The assertion of unblock_process cannot fail in unlock().
THEOREM UnblocksBlocked == Spec => []UnblockOnlyBlocked
BY Invariant, Safe, PTL

-----------------------------------------------------------------------------
(* The mutex implements FifoLock.  Owners and Granted together have at most *)
(* one element, so that each step is seen from what they are before and     *)
(* after it.                                                                *)

\* Who holds the mutex, seen by the abstract lock.
LEMMA Seen ==
    /\ OwnerOf({}) = idle
    /\ \A p : OwnerOf({p}) = p
    /\ \A q : LineOf({}, q) = q
    /\ \A p, q : LineOf({p}, q) = <<p>> \o q
<1>1. \A p : {p} # {} /\ (CHOOSE x \in {p} : TRUE) = p
  OBVIOUS
<1> QED
  BY <1>1 DEF OwnerOf, LineOf

\* A holder is alone, as an owner or as the one that was handed the mutex.
LEMMA AloneHolder ==
    ASSUME IInv, NEW p \in Proc
    PROVE  /\ pc[p] \in Owning => Owners = {p} /\ Granted = {}
           /\ pc[p] \in Sleeping /\ ~Queued(p) => Owners = {} /\ Granted = {p}
<1>1. \A q, r \in Owners \cup Granted : q = r
  BY DEF IInv, OneHolder
<1>2. Owning \cap Sleeping = {}
  BY DEF Owning, Sleeping
<1> QED
  BY <1>1, <1>2 DEF Owners, Granted

LEMMA AloneHolderNext ==
    ASSUME IInv', NEW p \in Proc
    PROVE  /\ pc'[p] \in Owning => Owners' = {p} /\ Granted' = {}
           /\ pc'[p] \in Sleeping /\ ~Queued(p)' => Owners' = {} /\ Granted' = {p}
<1>1. \A q, r \in (Owners \cup Granted)' : q = r
  BY DEF IInv, OneHolder
<1>2. Owning \cap Sleeping = {}
  BY DEF Owning, Sleeping
<1> QED
  BY <1>1, <1>2 DEF Owners, Granted

\* A step of p that neither makes it a holder nor changes the queue is not seen.
LEMMA Unseen ==
    ASSUME IInv, NEW p \in Proc, NEW l, Goto(p, l), queue' = queue,
           pc[p] \in Owning <=> l \in Owning,
           pc[p] \in Sleeping <=> l \in Sleeping
    PROVE  UNCHANGED Abstract!vars
<1>1. \A q \in Proc : pc'[q] = IF q = p THEN l ELSE pc[q]
  BY DEF Goto, IInv, TypeOK
<1>2. \A q : Queued(q)' <=> Queued(q)
  BY DEF Queued
<1>3. Owners' = Owners
  BY <1>1 DEF Owners
<1>4. Granted' = Granted
  BY <1>1, <1>2 DEF Granted
<1> QED
  BY <1>3, <1>4 DEF Abstract!vars

\* take() is Enter: nobody holds the mutex or sleeps on it.
LEMMA TakeEnters ==
    ASSUME IInv, IInv', NEW p \in Proc, NEW l, take(p, l)
    PROVE  Abstract!Enter(p)
<1>1. value = 1 /\ queue = <<>> /\ queue' = queue
  BY DEF take, IInv, TypeOK, OneHolder, queueVars
<1>2. Owners = {} /\ Granted = {}
  BY <1>1 DEF IInv, OneHolder
<1>3. pc'[p] \in Owning
  BY DEF take, Goto, IInv, TypeOK, Owning
<1>4. Owners' = {p} /\ Granted' = {}
  BY <1>3, AloneHolderNext
<1>5. OwnerOf(Owners) = idle /\ LineOf(Granted, queue) = <<>>
  BY <1>1, <1>2, Seen
<1>6. OwnerOf(Owners') = p /\ LineOf(Granted', queue') = LineOf(Granted, queue)
  BY <1>1, <1>2, <1>4, Seen
<1> QED
  BY <1>5, <1>6 DEF Abstract!Enter

\* enqueue() is Wait: somebody has the mutex, or has been handed it.
LEMMA EnqueueWaits ==
    ASSUME IInv, NEW p \in Proc, At(p, "locked"), value = 0, enqueue(p), Goto(p, "queued")
    PROVE  Abstract!Wait(p)
<1>1. queue \in Seq(Proc) /\ queue' = Append(queue, p)
  BY DEF enqueue, IInv, TypeOK
<1>2. \A q : Queued(q)' <=> Queued(q) \/ q = p
  BY <1>1, QueuedAppend
<1>3. \A q \in Proc : pc'[q] = IF q = p THEN "queued" ELSE pc[q]
  BY DEF Goto, IInv, TypeOK
<1>4. pc[p] = "locked"
  BY DEF At
<1>5. Owners' = Owners
  BY <1>3, <1>4 DEF Owners, Owning
<1>6. Granted' = Granted
  BY <1>2, <1>3, <1>4 DEF Granted, Sleeping
<1>7. PICK h \in Owners \cup Granted : TRUE
  BY DEF IInv, OneHolder
<1>8. CASE h \in Owners
  <2>1. Owners = {h} /\ Granted = {} /\ h \in Proc
    BY <1>8, AloneHolder DEF Owners
  <2>2. OwnerOf(Owners) = h /\ LineOf(Granted, queue) = queue /\ LineOf(Granted, queue') = queue'
    BY <2>1, Seen
  <2>3. h # idle
    BY <2>1, CpuAssumption
  <2> QED
    BY <1>1, <1>5, <1>6, <2>2, <2>3 DEF Abstract!Wait
<1>9. CASE h \in Granted
  <2>1. Owners = {} /\ Granted = {h} /\ h \in Proc
    BY <1>9, AloneHolder DEF Granted
  <2>2. LineOf(Granted, queue) = <<h>> \o queue /\ LineOf(Granted, queue') = <<h>> \o queue'
    BY <2>1, Seen
  <2>3. <<h>> \o Append(queue, p) = Append(<<h>> \o queue, p) /\ <<h>> \o queue # <<>>
    BY <1>1, <2>1
  <2> QED
    BY <1>1, <1>5, <1>6, <2>2, <2>3 DEF Abstract!Wait
<1> QED
  BY <1>7, <1>8, <1>9

\* unlock() is Leave, whether the mutex becomes free or is handed over: the
\* first process of the queue stays the first in line.
LEMMA FreeLeaves ==
    ASSUME IInv, NEW p \in Proc, At(p, "unlocking"), queue = <<>>, value' = 1, IInv',
           UNCHANGED queueVars
    PROVE  Abstract!Leave
<1>1. Owners = {p} /\ Granted = {}
  BY AloneHolder DEF At, Owning
<1>2. Owners' = {} /\ Granted' = {} /\ queue' = queue
  BY DEF IInv, OneHolder, queueVars
<1>3. p # idle
  BY CpuAssumption
<1> QED
  BY <1>1, <1>2, <1>3, Seen DEF Abstract!Leave

LEMMA HandoverLeaves ==
    ASSUME IInv, IInv', NEW p \in Proc, At(p, "unlocking"), dequeue, Goto(p, "unlocked")
    PROVE  Abstract!Leave
<1>0. PICK h : h = Head(queue)
  OBVIOUS
<1>1. Owners = {p} /\ Granted = {}
  BY AloneHolder DEF At, Owning
<1>2. /\ queue \in Seq(Proc) /\ queue # <<>> /\ queue' = Tail(queue)
      /\ \A i, j \in DOMAIN queue : queue[i] = queue[j] => i = j
  BY DEF dequeue, IInv, TypeOK, QueueSleeps
<1>3. h \in Proc /\ Queued(h) /\ ~Queued(h)'
  BY <1>0, <1>2, QueuedTail
<1>4. pc[h] \in Sleeping /\ pc[p] \notin Sleeping
  BY <1>3 DEF IInv, QueueSleeps, At, Sleeping
<1>5. pc'[h] = pc[h]
  BY <1>3, <1>4 DEF Goto, IInv, TypeOK
<1>6. Owners' = {} /\ Granted' = {h}
  BY <1>3, <1>4, <1>5, AloneHolderNext
<1>7. <<h>> \o Tail(queue) = queue
  BY <1>0, <1>2
<1>8. p # idle
  BY CpuAssumption
<1> QED
  BY <1>1, <1>2, <1>6, <1>7, <1>8, Seen DEF Abstract!Leave

\* reschedule() returns: the first in line is served.
LEMMA ReturnServes ==
    ASSUME IInv, IInv', NEW p \in Proc, pc[p] \in {"resched", "away"}, state[p] # "BLOCKED",
           Goto(p, "critical"), UNCHANGED queueVars
    PROVE  Abstract!Serve
<1>1. ~Queued(p)
  BY DEF IInv, QueueSleeps
<1>2. Owners = {} /\ Granted = {p}
  BY <1>1, AloneHolder DEF Sleeping
<1>3. pc'[p] \in Owning
  BY DEF Goto, IInv, TypeOK, Owning
<1>4. Owners' = {p} /\ Granted' = {}
  BY <1>3, AloneHolderNext
<1>5. queue \in Seq(Proc) /\ queue' = queue
  BY DEF IInv, TypeOK, queueVars
<1>6. <<p>> \o queue # <<>> /\ Head(<<p>> \o queue) = p /\ Tail(<<p>> \o queue) = queue
  BY <1>5
<1> QED
  BY <1>2, <1>4, <1>5, <1>6, Seen DEF Abstract!Serve

\* What only gives the CPU to another process is not seen.
LEMMA CpuUnseen ==
    ASSUME UNCHANGED <<pc, queue>>
    PROVE  UNCHANGED Abstract!vars
  BY DEF Abstract!vars, Owners, Granted, Queued

\* Every step of a process is a step of the abstract lock, or none.
LEMMA StepRefines ==
    ASSUME IInv, IInv', NEW p \in Proc, Step(p)
    PROVE  [Abstract!Next]_(Abstract!vars)
<1> USE DEF Owning, Sleeping
<1>1. ASSUME NEW l, NEW m, At(p, l), Goto(p, m), queue' = queue,
             l \in Owning <=> m \in Owning,
             l \in Sleeping <=> m \in Sleeping
      PROVE  UNCHANGED Abstract!vars
  BY <1>1, Unseen DEF At
<1>2. ASSUME NEW l, take(p, l) PROVE Abstract!Next
  BY <1>2, TakeEnters DEF Abstract!Next
<1>3. CASE call(p)
  BY <1>1, <1>3 DEF call, queueVars
<1>4. CASE lock(p)
  <2>1. CASE At(p, "locked") /\ value = 0 /\ enqueue(p) /\ Goto(p, "queued")
    BY <2>1, EnqueueWaits DEF Abstract!Next
  <2>2. CASE reschedule(p, "critical") /\ UNCHANGED <<queueVars, value>>
    <3>1. CASE At(p, "resched") /\ Goto(p, "switch")
      BY <2>2, <3>1, <1>1 DEF queueVars
    <3>2. CASE At(p, "switch") /\ Goto(p, "away")
      BY <2>2, <3>2, <1>1 DEF queueVars
    <3>3. CASE pc[p] \in {"resched", "away"} /\ state[p] # "BLOCKED" /\ Goto(p, "critical")
      BY <2>2, <3>3, ReturnServes DEF Abstract!Next
    <3>4. At(p, "away") => state[p] # "BLOCKED"
      BY DEF At, IInv, BackUnblocked
    <3> QED
      BY <2>2, <3>1, <3>2, <3>3, <3>4 DEF reschedule, At
  <2> QED
    BY <1>1, <1>2, <1>4, <2>1, <2>2 DEF lock, spin, unspin, acquire_spin, release_spin
<1>5. CASE try_lock(p)
  BY <1>1, <1>2, <1>5 DEF try_lock, spin, unspin, acquire_spin, release_spin
<1>6. CASE unlock(p)
  <2>1. CASE At(p, "unlocking") /\ queue = <<>> /\ value' = 1 /\ UNCHANGED <<cpuVars, queueVars>>
    BY <2>1, FreeLeaves DEF Abstract!Next
  <2>2. CASE At(p, "unlocking") /\ dequeue /\ Goto(p, "unlocked")
    BY <2>2, HandoverLeaves DEF Abstract!Next
  <2> QED
    BY <1>1, <1>6, <2>1, <2>2 DEF unlock, spin, unspin, acquire_spin, release_spin
<1> QED
  BY <1>3, <1>4, <1>5, <1>6 DEF Step

LEMMA InitRefines == Init => Abstract!Init
<1> SUFFICES ASSUME Init PROVE Abstract!Init
  OBVIOUS
<1>1. queue = <<>> /\ \A p \in Proc : pc[p] = "out"
  BY DEF Init, QueueInit
<1>2. Owners = {} /\ Granted = {}
  BY <1>1 DEF Owners, Granted, Owning, Sleeping
<1> QED
  BY <1>1, <1>2, Seen DEF Abstract!Init

LEMMA NextRefines == IInv /\ IInv' /\ [Next]_vars => [Abstract!Next]_(Abstract!vars)
<1> SUFFICES ASSUME IInv, IInv', [Next]_vars PROVE [Abstract!Next]_(Abstract!vars)
  OBVIOUS
<1>1. CASE \E p \in Proc : Step(p)
  BY <1>1, StepRefines
<1>2. CASE \E new \in Task : tick(new)
  BY <1>2, CpuUnseen DEF tick, queueVars
<1>3. CASE UNCHANGED vars
  BY <1>3, CpuUnseen DEF vars, queueVars
<1> QED
  BY <1>1, <1>2, <1>3 DEF Next

\* lock(), try_lock() and unlock() are a lock that serves the processes in the
\* order in which they came to sleep, for any processes and any preemptions.
THEOREM Refinement == Spec => Abstract!Spec
  BY InitRefines, NextRefines, Invariant, PTL DEF Spec, Abstract!Spec
=============================================================================
