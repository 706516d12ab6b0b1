---------------------------- MODULE DeferredProofs ----------------------------
(***************************************************************************)
(* Proofs that the deferred semaphore hands every permit that an interrupt  *)
(* releases to one wait() of its thread, wherever the interrupt comes, for  *)
(* any amounts as long as the permits fit the counter.                      *)
(***************************************************************************)
EXTENDS Deferred, FiniteSetTheorems, TLAPS

\* The counter is a size_t and holds the permits that are not taken yet, and an
\* interrupt handler is not a process.
Arguments ==
    /\ Initial \in Nat /\ MaxPermits \in Nat /\ SizeValues \in Nat
    /\ Initial =< MaxPermits /\ MaxPermits < SizeValues
    /\ Amounts \subseteq Nat
    /\ irq \notin Proc

States == {"READY", "RUNNING", "BLOCKED"}

\* Where the thread is from its block to its return from wait().
Away == {"resched", "switch", "away"}

\* Only the thread that has claimed the semaphore uses it.
Claimed == \A p \in Proc : pc[p] # "start" => pid = p

\* While the flag is set the thread is blocked on its way through reschedule().
WaiterBlocked == waiting => pid \in Proc /\ pc[pid] \in Away /\ state[pid] = "BLOCKED"

\* A thread that executes again after its reschedule() is not blocked.
BackUnblocked == \A p \in Proc : (current = p /\ pc[p] = "away") => state[p] # "BLOCKED"

\* The counter does not wrap around when the pending interrupt is handled.
NoWrap == Permits + raised =< MaxPermits

\* What Abstract rests on.
IInv ==
    /\ TypeOK
    /\ Claimed
    /\ WaiterBlocked
    /\ BackUnblocked
    /\ NoWrap

Asking == {p \in Proc : pc[p] \in {"wait", "resched", "switch", "away"}}

Debts == [p \in Proc \cup {irq} |-> IF p = irq THEN raised ELSE 0]

AbstractStep == Abstract!Next \/ UNCHANGED Abstract!vars

-----------------------------------------------------------------------------
\* A sum below the number of values of the counter is stored as it is.
LEMMA Stored == \A x \in Nat, s \in Nat : x < s => x % s = x
OBVIOUS

LEMMA ValueType ==
    ASSUME Arguments, NEW x \in Nat, x < SizeValues
    PROVE  x \in 0..SizeValues - 1
BY DEF Arguments

\* At most the thread of the semaphore is on its way back with a permit.
LEMMA OneGranted ==
    ASSUME Claimed
    PROVE  /\ Granted = IF pid \in Proc /\ pc[pid] \in Away /\ ~waiting THEN {pid} ELSE {}
           /\ Cardinality(Granted) = IF pid \in Proc /\ pc[pid] \in Away /\ ~waiting THEN 1 ELSE 0
<1>1. Granted = IF pid \in Proc /\ pc[pid] \in Away /\ ~waiting THEN {pid} ELSE {}
  BY DEF Granted, Away, Claimed
<1>2. Cardinality({pid}) = 1 /\ Cardinality({}) = 0
  BY FS_Singleton, FS_EmptySet
<1> QED
  BY <1>1, <1>2

LEMMA OneGrantedNext ==
    ASSUME Claimed'
    PROVE  Cardinality(Granted)' = IF pid' \in Proc /\ pc'[pid'] \in Away /\ ~waiting' THEN 1 ELSE 0
<1>1. Granted' = IF pid' \in Proc /\ pc'[pid'] \in Away /\ ~waiting' THEN {pid'} ELSE {}
  BY DEF Granted, Away, Claimed
<1>2. Cardinality({pid'}) = 1 /\ Cardinality({}) = 0
  BY FS_Singleton, FS_EmptySet
<1> QED
  BY <1>1, <1>2

LEMMA PermitsNat == ASSUME IInv PROVE Permits \in Nat /\ value \in Nat
<1>1. Cardinality(Granted) \in Nat
  BY OneGranted DEF IInv
<1>2. value \in Nat
  BY DEF IInv, TypeOK
<1> QED
  BY <1>1, <1>2 DEF Permits

-----------------------------------------------------------------------------
(* Each step keeps the invariant and is what CountingSemaphore allows.      *)

LEMMA RaiseStep ==
    ASSUME Arguments, IInv, NEW n \in Amounts, raise(n)
    PROVE  IInv' /\ AbstractStep
<1> USE DEF IInv
<1>1. /\ raised = 0 /\ Permits + n =< MaxPermits /\ raised' = n /\ n \in Nat
      /\ UNCHANGED <<state, current, pc, value, waiting, pid>>
  BY DEF raise, cpuVars, semVars, Arguments
<1>2. Permits' = Permits
  BY <1>1 DEF Permits, Granted
<1>3. IInv'
  BY <1>1, <1>2 DEF TypeOK, Claimed, WaiterBlocked, BackUnblocked, NoWrap
<1>4. Debts[irq] = 0 /\ Debts' = [Debts EXCEPT ![irq] = n]
  BY <1>1 DEF Debts
<1>5. irq \notin Asking \cup {} /\ Asking' = Asking
  BY <1>1 DEF Asking, Arguments
<1>6. Abstract!Call(irq)
  BY <1>2, <1>4, <1>5 DEF Abstract!Call, Asking, Debts
<1> QED
  BY <1>3, <1>6 DEF AbstractStep, Abstract!Next

\* The interrupt gives one permit to the thread if it waits, and the others to
\* the counter.
LEMMA HandlerStep ==
    ASSUME Arguments, IInv, handler
    PROVE  IInv' /\ AbstractStep
<1> USE DEF IInv
<1>1. raised \in Nat /\ raised > 0 /\ raised' = 0 /\ UNCHANGED <<pc, current, pid>>
  BY DEF handler, notify, TypeOK
<1>2. Claimed'
  BY <1>1 DEF Claimed
<1>3. value \in Nat /\ Permits + raised =< MaxPermits /\ MaxPermits < SizeValues /\ SizeValues \in Nat
      /\ MaxPermits \in Nat
  BY PermitsNat DEF NoWrap, Arguments
<1> DEFINE Goal == Permits' = Permits + raised /\ TypeOK' /\ WaiterBlocked' /\ BackUnblocked'
<1>4. ASSUME waiting PROVE Goal
  <2>1. /\ state' = [state EXCEPT ![pid] = IF @ = "RUNNING" THEN @ ELSE "READY"]
        /\ waiting' = FALSE /\ value' = (value + raised - 1) % SizeValues
    BY <1>4 DEF handler, notify, unblock_process_hint
  <2>2. Cardinality(Granted) = 0
    BY <1>4, OneGranted
  <2>3. value + raised - 1 \in Nat /\ value + raised - 1 < SizeValues
    BY <1>1, <1>3, <2>2 DEF Permits
  <2>4. value' = value + raised - 1
    BY <1>3, <2>1, <2>3, Stored
  <2>5. pid \in Proc /\ pc[pid] \in Away
    BY <1>4 DEF WaiterBlocked
  <2>6. Cardinality(Granted)' = 1
    BY <1>1, <1>2, <2>1, <2>5, OneGrantedNext
  <2>7. Permits' = Permits + raised
    BY <1>1, <1>3, <2>2, <2>4, <2>6 DEF Permits
  <2>8. \A q \in Proc : state'[q] = "BLOCKED" => state[q] = "BLOCKED"
    BY <2>1 DEF TypeOK, Task
  <2>9. state' \in [Task -> States]
    BY <2>1 DEF TypeOK, Task, States
  <2>10. TypeOK'
    BY <1>1, <2>1, <2>3, <2>4, <2>9, ValueType DEF TypeOK, States
  <2> QED
    BY <1>1, <2>1, <2>7, <2>8, <2>10 DEF WaiterBlocked, BackUnblocked
<1>5. ASSUME ~waiting PROVE Goal
  <2>1. value' = (value + raised) % SizeValues /\ UNCHANGED <<state, waiting>>
    BY <1>5 DEF handler, notify
  <2>2. Cardinality(Granted) \in Nat /\ Cardinality(Granted)' = Cardinality(Granted)
    BY <1>1, <1>2, <2>1, OneGranted, OneGrantedNext
  <2>3. value + raised \in Nat /\ value + raised < SizeValues
    BY <1>1, <1>3, <2>2 DEF Permits
  <2>4. value' = value + raised
    BY <1>3, <2>1, <2>3, Stored
  <2>5. Permits' = Permits + raised
    BY <1>1, <1>3, <2>2, <2>4 DEF Permits
  <2>6. TypeOK'
    BY <1>1, <2>1, <2>3, <2>4, ValueType DEF TypeOK
  <2> QED
    BY <1>1, <2>1, <2>5, <2>6 DEF WaiterBlocked, BackUnblocked
<1>6. Goal
  BY <1>4, <1>5
<1>7. IInv'
  BY <1>1, <1>2, <1>3, <1>6, PermitsNat DEF NoWrap
<1>8. Debts[irq] = raised /\ Debts' = [Debts EXCEPT ![irq] = 0]
  BY <1>1 DEF Debts
<1>9. raised \in 1..raised /\ raised - raised = 0
  BY <1>1
<1>10. raised \in 1..Debts[irq] /\ Debts' = [Debts EXCEPT ![irq] = @ - raised]
  BY <1>8, <1>9
<1>11. Asking' = Asking
  BY <1>1 DEF Asking
<1>12. Abstract!Give(irq)
  BY <1>6, <1>10, <1>11 DEF Abstract!Give, Asking, Debts
<1> QED
  BY <1>7, <1>12 DEF AbstractStep, Abstract!Next

\* A move of the thread, which changes what it asks for and no debt.
LEMMA Views ==
    ASSUME TypeOK, NEW p \in Proc, NEW l, Goto(p, l), raised' = raised
    PROVE  /\ \A q \in Proc : pc'[q] = IF q = p THEN l ELSE pc[q]
           /\ Asking' = IF l \in {"wait"} \cup Away THEN Asking \cup {p} ELSE Asking \ {p}
           /\ Debts' = Debts
<1>1. \A q \in Proc : pc'[q] = IF q = p THEN l ELSE pc[q]
  BY DEF TypeOK, Goto
<1>2. Debts' = Debts
  BY DEF Debts
<1>3. Asking' = IF l \in {"wait"} \cup Away THEN Asking \cup {p} ELSE Asking \ {p}
  BY <1>1 DEF Asking, Away
<1> QED
  BY <1>1, <1>2, <1>3

LEMMA StartStep ==
    ASSUME IInv, NEW p \in Proc, At(p, "start"), pid = idle, claim(p), Goto(p, "loop"),
           UNCHANGED <<cpuVars, value, waiting, raised>>
    PROVE  IInv' /\ AbstractStep
<1> USE DEF IInv
<1>1. /\ p = current /\ pc[p] = "start" /\ pid' = p /\ pid \notin Proc
      /\ UNCHANGED <<state, current, value, waiting, raised>>
  BY CpuAssumption DEF At, claim, cpuVars
<1>2. /\ \A q \in Proc : pc'[q] = IF q = p THEN "loop" ELSE pc[q]
      /\ Asking' = Asking \ {p} /\ Debts' = Debts
  BY <1>1, Views DEF Away
<1>3. ~waiting /\ \A q \in Proc : pc[q] = "start"
  BY <1>1 DEF WaiterBlocked, Claimed
<1>4. TypeOK'
  BY <1>1 DEF TypeOK, Goto, Task
<1>5. Claimed' /\ WaiterBlocked' /\ BackUnblocked'
  BY <1>1, <1>2, <1>3 DEF Claimed, WaiterBlocked, BackUnblocked
<1>6. Cardinality(Granted) = 0 /\ Cardinality(Granted)' = 0
  BY <1>1, <1>2, <1>5, OneGranted, OneGrantedNext DEF Away
<1>7. Permits' = Permits /\ Asking' = Asking
  BY <1>1, <1>2, <1>6 DEF Permits, Asking
<1>8. NoWrap'
  BY <1>1, <1>7 DEF NoWrap
<1> QED
  BY <1>2, <1>4, <1>5, <1>7, <1>8 DEF AbstractStep, Abstract!vars, Asking, Debts

LEMMA AskStep ==
    ASSUME Arguments, IInv, NEW p \in Proc, At(p, "loop"), Goto(p, "wait"),
           UNCHANGED <<cpuVars, semVars, raised>>
    PROVE  IInv' /\ AbstractStep
<1> USE DEF IInv
<1>1. /\ p = current /\ pc[p] = "loop" /\ pid = p
      /\ UNCHANGED <<state, current, value, waiting, pid, raised>>
  BY DEF At, cpuVars, semVars, Claimed
<1>2. /\ \A q \in Proc : pc'[q] = IF q = p THEN "wait" ELSE pc[q]
      /\ Asking' = Asking \cup {p} /\ Debts' = Debts
  BY <1>1, Views DEF Away
<1>3. ~waiting
  BY <1>1 DEF WaiterBlocked, Away
<1>4. TypeOK'
  BY <1>1 DEF TypeOK, Goto
<1>5. Claimed' /\ WaiterBlocked' /\ BackUnblocked'
  BY <1>1, <1>2, <1>3 DEF Claimed, WaiterBlocked, BackUnblocked
<1>6. Cardinality(Granted) = 0 /\ Cardinality(Granted)' = 0
  BY <1>1, <1>2, <1>5, OneGranted, OneGrantedNext DEF Away
<1>7. Permits' = Permits
  BY <1>1, <1>6 DEF Permits
<1>8. NoWrap'
  BY <1>1, <1>7 DEF NoWrap
<1>9. p \notin Asking /\ Debts[p] = 0 /\ p \in Proc \cup {irq}
  BY <1>1 DEF Asking, Debts, Arguments
<1>10. Abstract!Call(p)
  BY <1>2, <1>7, <1>9 DEF Abstract!Call, Asking, Debts
<1> QED
  BY <1>4, <1>5, <1>8, <1>9, <1>10 DEF AbstractStep, Abstract!Next

LEMMA TakeStep ==
    ASSUME Arguments, IInv, NEW p \in Proc, At(p, "wait"), value > 0, value' = value - 1, Goto(p, "loop"),
           UNCHANGED <<cpuVars, waiting, pid, raised>>
    PROVE  IInv' /\ AbstractStep
<1> USE DEF IInv
<1>1. /\ p = current /\ pc[p] = "wait" /\ pid = p
      /\ UNCHANGED <<state, current, waiting, pid, raised>>
  BY DEF At, cpuVars, Claimed
<1>2. /\ \A q \in Proc : pc'[q] = IF q = p THEN "loop" ELSE pc[q]
      /\ Asking' = Asking \ {p} /\ Debts' = Debts
  BY <1>1, Views DEF Away
<1>3. ~waiting
  BY <1>1 DEF WaiterBlocked, Away
<1>4. value \in Nat /\ value - 1 \in Nat /\ value - 1 < SizeValues
  BY PermitsNat DEF TypeOK, Arguments
<1>11. TypeOK'
  BY <1>1, <1>4, ValueType DEF TypeOK, Goto
<1>5. Claimed' /\ WaiterBlocked' /\ BackUnblocked'
  BY <1>1, <1>2, <1>3 DEF Claimed, WaiterBlocked, BackUnblocked
<1>6. Cardinality(Granted) = 0 /\ Cardinality(Granted)' = 0
  BY <1>1, <1>2, <1>5, OneGranted, OneGrantedNext DEF Away
<1>7. Permits > 0 /\ Permits' = Permits - 1
  BY <1>6, PermitsNat DEF Permits
<1>8. NoWrap'
  BY <1>1, <1>7, PermitsNat DEF NoWrap, TypeOK, Arguments
<1>9. p \in Asking
  BY <1>1 DEF Asking
<1>10. Abstract!Take(p)
  BY <1>2, <1>7, <1>9 DEF Abstract!Take, Asking, Debts
<1> QED
  BY <1>5, <1>8, <1>10, <1>11 DEF AbstractStep, Abstract!Next

\* The thread blocks, with the flag set before interrupts are enabled again.
LEMMA BlockStep ==
    ASSUME IInv, NEW p \in Proc, At(p, "wait"), value = 0, waiting' = TRUE,
           state' = [state EXCEPT ![pid] = "BLOCKED"], Goto(p, "resched"),
           UNCHANGED <<current, value, pid, raised>>
    PROVE  IInv' /\ AbstractStep
<1> USE DEF IInv
<1>1. p = current /\ pc[p] = "wait" /\ pid = p
  BY DEF At, Claimed
<1>2. /\ \A q \in Proc : pc'[q] = IF q = p THEN "resched" ELSE pc[q]
      /\ Asking' = Asking \cup {p} /\ Debts' = Debts
  BY <1>1, Views DEF Away
<1>3. state'[p] = "BLOCKED"
  BY <1>1 DEF TypeOK, Task
<1>4. TypeOK'
  BY <1>1 DEF TypeOK, Goto
<1>5. Claimed' /\ WaiterBlocked' /\ BackUnblocked'
  BY <1>1, <1>2, <1>3 DEF Claimed, WaiterBlocked, BackUnblocked, Away
<1>6. Cardinality(Granted) = 0 /\ Cardinality(Granted)' = 0
  BY <1>1, <1>2, <1>5, OneGranted, OneGrantedNext DEF Away
<1>7. Permits' = Permits
  BY <1>6 DEF Permits
<1>8. NoWrap'
  BY <1>7 DEF NoWrap
<1>9. Asking' = Asking
  BY <1>1, <1>2 DEF Asking
<1> QED
  BY <1>2, <1>4, <1>5, <1>7, <1>8, <1>9 DEF AbstractStep, Abstract!vars, Asking, Debts

\* The thread returns from wait() after its block, and it does so only with the
\* permit that an interrupt gave it.
LEMMA ReturnStep ==
    ASSUME Arguments, IInv, NEW p \in Proc, p = current, pc[p] \in {"resched", "away"},
           state[p] # "BLOCKED", Goto(p, "loop"), UNCHANGED <<cpuVars, semVars, raised>>
    PROVE  IInv' /\ AbstractStep
<1> USE DEF IInv
<1>1. pid = p /\ UNCHANGED <<state, current, value, waiting, pid, raised>>
  BY DEF cpuVars, semVars, Claimed
<1>2. /\ \A q \in Proc : pc'[q] = IF q = p THEN "loop" ELSE pc[q]
      /\ Asking' = Asking \ {p} /\ Debts' = Debts
  BY <1>1, Views DEF Away
<1>3. ~waiting
  BY <1>1 DEF WaiterBlocked
<1>4. TypeOK'
  BY <1>1 DEF TypeOK, Goto
<1>5. Claimed' /\ WaiterBlocked' /\ BackUnblocked'
  BY <1>1, <1>2, <1>3 DEF Claimed, WaiterBlocked, BackUnblocked
<1>6. Cardinality(Granted) = 1 /\ Cardinality(Granted)' = 0
  BY <1>1, <1>2, <1>3, <1>5, OneGranted, OneGrantedNext DEF Away
<1>7. Permits > 0 /\ Permits' = Permits - 1
  BY <1>1, <1>6, PermitsNat DEF Permits
<1>8. NoWrap'
  BY <1>1, <1>7, PermitsNat DEF NoWrap, TypeOK, Arguments
<1>9. p \in Asking
  BY DEF Asking
<1>10. Abstract!Take(p)
  BY <1>2, <1>7, <1>9 DEF Abstract!Take, Asking, Debts
<1> QED
  BY <1>4, <1>5, <1>8, <1>10 DEF AbstractStep, Abstract!Next

\* A switch with the states st: nobody becomes or ceases to be BLOCKED.
LEMMA SwitchStates ==
    ASSUME NEW st \in [Task -> States], \A q \in Task : st[q] = "BLOCKED" <=> state[q] = "BLOCKED",
           NEW new \in Task, new \in Candidates(st), SwitchTo(st, new)
    PROVE  /\ current' = new
           /\ state' \in [Task -> States]
           /\ \A q \in Proc : state'[q] = "BLOCKED" <=> state[q] = "BLOCKED"
           /\ new \in Proc => state'[new] # "BLOCKED"
<1>1. new \in Proc => st[new] # "BLOCKED"
  BY CpuAssumption DEF Candidates, Runnable
<1>2. /\ current' = new
      /\ state' = IF new = current THEN st ELSE [st EXCEPT ![new] = "RUNNING"]
  BY DEF SwitchTo
<1>3. CASE new = current
  BY <1>1, <1>2, <1>3 DEF Task
<1>4. CASE new # current
  <2>1. state' = [st EXCEPT ![new] = "RUNNING"]
    BY <1>2, <1>4
  <2>2. \A q \in Proc : state'[q] = IF q = new THEN "RUNNING" ELSE st[q]
    BY <2>1 DEF Task
  <2> QED
    BY <1>1, <1>2, <2>1, <2>2 DEF Task, States
<1> QED
  BY <1>3, <1>4

\* The CPU goes to another process, or the thread moves inside reschedule().
LEMMA CpuStep ==
    ASSUME IInv, UNCHANGED <<semVars, raised>>,
           pc' = pc \/ \E p \in Proc, l \in Away : pc[p] \in Away /\ Goto(p, l),
           current' \in Task, state' \in [Task -> States],
           \A q \in Proc : state'[q] = "BLOCKED" <=> state[q] = "BLOCKED",
           current' \in Proc /\ pc'[current'] = "away" => state'[current'] # "BLOCKED"
    PROVE  IInv' /\ UNCHANGED Abstract!vars
<1> USE DEF IInv
<1>1. UNCHANGED <<value, waiting, pid, raised>>
  BY DEF semVars
<1>2. /\ pc' \in [Proc -> {"start", "loop", "wait", "resched", "switch", "away"}]
      /\ \A q \in Proc : (pc'[q] \in Away <=> pc[q] \in Away) /\ (pc[q] \notin Away => pc'[q] = pc[q])
  BY DEF TypeOK, Goto, Away
<1>3. TypeOK'
  BY <1>1, <1>2 DEF TypeOK, States
<1>4. Claimed' /\ WaiterBlocked' /\ BackUnblocked'
  BY <1>1, <1>2 DEF Claimed, WaiterBlocked, BackUnblocked, Away
<1>5. Granted' = Granted /\ Asking' = Asking /\ Debts' = Debts
  BY <1>1, <1>2 DEF Granted, Asking, Debts, Away
<1>6. Permits' = Permits
  BY <1>1, <1>5 DEF Permits
<1>7. NoWrap'
  BY <1>1, <1>6 DEF NoWrap
<1> QED
  BY <1>3, <1>4, <1>5, <1>6, <1>7 DEF Abstract!vars, Asking, Debts

LEMMA RescheduleStep ==
    ASSUME Arguments, IInv, NEW p \in Proc, reschedule(p, "loop"), UNCHANGED <<semVars, raised>>
    PROVE  IInv' /\ AbstractStep
<1>0. state \in [Task -> States] /\ current \in Task /\ pc \in [Proc -> {"start", "loop", "wait"} \cup Away]
  BY DEF IInv, TypeOK, States, Away
<1>1. CASE At(p, "resched") /\ Goto(p, "switch") /\ UNCHANGED cpuVars
  <2>1. pc[p] \in Away /\ "switch" \in Away /\ UNCHANGED <<state, current>>
    BY <1>1 DEF At, Away, cpuVars
  <2>2. current' = p /\ pc'[p] = "switch"
    BY <1>0, <1>1, <2>1 DEF At, Goto
  <2>3. IInv' /\ UNCHANGED Abstract!vars
    BY <1>0, <1>1, <2>1, <2>2, CpuStep
  <2> QED
    BY <2>3 DEF AbstractStep
<1>2. CASE At(p, "resched") /\ state[p] = "RUNNING" /\ Goto(p, "loop") /\ UNCHANGED cpuVars
  BY <1>2, ReturnStep DEF At
<1>3. CASE At(p, "switch") /\ (\E new \in Candidates(state) : SwitchTo(state, new)) /\ Goto(p, "away")
  <2>1. PICK new \in Candidates(state) : SwitchTo(state, new)
    BY <1>3
  <2>2. new \in Task
    BY DEF Candidates, Task
  <2>3. /\ current' = new
        /\ state' \in [Task -> States]
        /\ \A q \in Proc : state'[q] = "BLOCKED" <=> state[q] = "BLOCKED"
        /\ new \in Proc => state'[new] # "BLOCKED"
    BY <1>0, <2>1, <2>2, SwitchStates
  <2>4. pc[p] \in Away /\ "away" \in Away
    BY <1>3 DEF At, Away
  <2>5. IInv' /\ UNCHANGED Abstract!vars
    BY <1>3, <2>2, <2>3, <2>4, CpuStep
  <2> QED
    BY <2>5 DEF AbstractStep
<1>4. CASE At(p, "away") /\ Goto(p, "loop") /\ UNCHANGED cpuVars
  BY <1>4, ReturnStep DEF At, IInv, BackUnblocked
<1> QED
  BY <1>1, <1>2, <1>3, <1>4 DEF reschedule

LEMMA TickStep ==
    ASSUME IInv, NEW new \in Task, tick(new)
    PROVE  IInv' /\ AbstractStep
<1> DEFINE st == IF state[current] \in {"BLOCKED", "BLOCKED_TIMEOUT"} THEN state
                 ELSE [state EXCEPT ![current] = "READY"]
<1>1. state \in [Task -> States] /\ current \in Task
  BY DEF IInv, TypeOK, States
<1>2. /\ st \in [Task -> States]
      /\ \A q \in Task : st[q] = "BLOCKED" <=> state[q] = "BLOCKED"
  BY <1>1 DEF States
<1>3. /\ new \in Candidates(st)
      /\ IF new = current THEN state' = state /\ UNCHANGED current ELSE SwitchTo(st, new)
      /\ UNCHANGED <<pc, semVars, raised>>
  BY DEF tick, Preempt
<1>4. CASE new = current
  BY <1>1, <1>3, <1>4, CpuStep DEF AbstractStep, IInv, BackUnblocked
<1>5. CASE new # current
  <2>1. SwitchTo(st, new)
    BY <1>3, <1>5
  <2> HIDE DEF st
  <2>2. /\ current' = new
        /\ state' \in [Task -> States]
        /\ \A q \in Proc : state'[q] = "BLOCKED" <=> state[q] = "BLOCKED"
        /\ new \in Proc => state'[new] # "BLOCKED"
    BY <1>2, <1>3, <2>1, SwitchStates
  <2> QED
    BY <1>3, <2>2, CpuStep DEF AbstractStep
<1> QED
  BY <1>4, <1>5

-----------------------------------------------------------------------------
LEMMA InitInv ==
    ASSUME Arguments, Init
    PROVE  IInv /\ Abstract!Init
<1>1. /\ pc = [p \in Proc |-> "start"] /\ value = Initial /\ waiting = FALSE /\ pid = idle
      /\ raised = 0 /\ idle \notin Proc /\ idle \in Task /\ Initial \in Nat
      /\ Initial =< MaxPermits
  BY CpuAssumption DEF Init, SemInit, Arguments, Task
<1>2. Initial < SizeValues
  BY DEF Arguments
<1>3. TypeOK
  <2>1. state \in [Task -> {"READY", "RUNNING", "BLOCKED"}] /\ current \in Task
    BY <1>1 DEF Init, CpuInit
  <2>2. value \in 0..SizeValues - 1
    BY <1>1, <1>2, ValueType
  <2> QED
    BY <1>1, <2>1, <2>2 DEF TypeOK
<1>4. Claimed /\ WaiterBlocked /\ BackUnblocked
  BY <1>1 DEF Claimed, WaiterBlocked, BackUnblocked
<1>5. Cardinality(Granted) = 0
  BY <1>1, <1>4, OneGranted
<1>6. Permits = Initial
  BY <1>1, <1>5 DEF Permits
<1>7. NoWrap
  BY <1>1, <1>6 DEF NoWrap
<1>8. Asking = {} /\ Debts = [p \in Proc \cup {irq} |-> 0]
  BY <1>1 DEF Asking, Debts
<1> QED
  BY <1>3, <1>4, <1>6, <1>7, <1>8 DEF IInv, Abstract!Init, Asking, Debts

LEMMA NextInv ==
    ASSUME Arguments, IInv, [Next]_vars
    PROVE  IInv' /\ [Abstract!Next]_(Abstract!vars)
<1>1. ASSUME NEW p \in Proc, rx_thread(p) PROVE IInv' /\ AbstractStep
  <2>1. CASE At(p, "start") /\ pid = idle /\ claim(p) /\ Goto(p, "loop")
             /\ UNCHANGED <<cpuVars, value, waiting, raised>>
    BY <2>1, StartStep
  <2>2. CASE At(p, "loop") /\ Goto(p, "wait") /\ UNCHANGED <<cpuVars, semVars, raised>>
    BY <2>2, AskStep
  <2>3. CASE wait(p, "wait", "loop") /\ UNCHANGED raised
    BY <2>3, TakeStep, BlockStep, RescheduleStep DEF wait
  <2> QED
    BY <1>1, <2>1, <2>2, <2>3 DEF rx_thread
<1>2. CASE UNCHANGED vars
  <2>1. UNCHANGED <<state, current, pc, semVars, raised>>
    BY <1>2 DEF vars, cpuVars
  <2>2. state \in [Task -> States] /\ current \in Task
    BY DEF IInv, TypeOK, States
  <2> QED
    BY <2>1, <2>2, CpuStep DEF IInv, BackUnblocked
<1> QED
  BY <1>1, <1>2, RaiseStep, HandlerStep, TickStep DEF Next, AbstractStep

\* IInv is an invariant of the deferred semaphore and of its interrupts.
THEOREM Invariant ==
    ASSUME Arguments
    PROVE  Spec => []IInv
<1>1. Init => IInv
  BY InitInv
<1>2. IInv /\ [Next]_vars => IInv'
  BY NextInv
<1> QED
  BY <1>1, <1>2, PTL DEF Spec

\* The deferred semaphore implements CountingSemaphore: no notify() is lost and
\* none counts twice, also when the interrupt comes between the block of the
\* thread and its reschedule().
THEOREM Refinement ==
    ASSUME Arguments
    PROVE  Spec => Abstract!Spec
<1>1. Init => Abstract!Init
  BY InitInv
<1>2. IInv /\ [Next]_vars => [Abstract!Next]_(Abstract!vars)
  BY NextInv
<1> QED
  BY <1>1, <1>2, Invariant, PTL DEF Spec, Abstract!Spec
=============================================================================
