------------------------------- MODULE Deferred -------------------------------
(***************************************************************************)
(* One thread that waits on a deferred semaphore, as the receive thread of  *)
(* an interface does (net/network.cpp), and the interrupts that release it. *)
(* The other processes only take the CPU.                                   *)
(***************************************************************************)
EXTENDS DeferredSemaphore

CONSTANTS
    irq,          \* the interrupt, as one that releases permits
    Initial,      \* the argument of init
    Amounts,      \* what an interrupt releases
    MaxPermits    \* bound: the permits that are not taken yet

VARIABLE raised   \* what the pending interrupt is going to release

vars == <<cpuVars, pc, semVars, raised>>

Init ==
    /\ CpuInit
    /\ pc = [p \in Proc |-> "start"]
    /\ SemInit(Initial)
    /\ raised = 0

\* The device; the interrupt stays pending until it is handled.
raise(n) ==
    /\ raised = 0
    /\ Permits + n =< MaxPermits
    /\ raised' = n
    /\ UNCHANGED <<cpuVars, pc, semVars>>

\* The handler runs with interrupts disabled, between any two statements.
handler ==
    /\ raised > 0
    /\ notify(raised)
    /\ raised' = 0
    /\ UNCHANGED pc

rx_thread(p) ==
    \/ /\ At(p, "start")
       /\ pid = idle
       /\ claim(p)
       /\ Goto(p, "loop")
       /\ UNCHANGED <<cpuVars, value, waiting, raised>>
    \/ /\ At(p, "loop")
       /\ Goto(p, "wait")
       /\ UNCHANGED <<cpuVars, semVars, raised>>
    \/ wait(p, "wait", "loop") /\ UNCHANGED raised

tick(new) == Preempt(state, new) /\ UNCHANGED <<pc, semVars, raised>>

Next ==
    \/ \E n \in Amounts : raise(n)
    \/ handler
    \/ \E p \in Proc : rx_thread(p)
    \/ \E new \in Task : tick(new)

Spec == Init /\ [][Next]_vars

-----------------------------------------------------------------------------
(* Properties.                                                              *)

\* The semaphore keeps its types.
TypeOK ==
    /\ state \in [Task -> {"READY", "RUNNING", "BLOCKED"}]
    /\ current \in Task
    /\ pc \in [Proc -> {"start", "loop", "wait", "resched", "switch", "away"}]
    /\ value \in 0..SizeValues - 1
    /\ waiting \in BOOLEAN
    /\ pid \in Task
    /\ raised \in Nat

\* Every permit that an interrupt releases is taken by exactly one wait(), also
\* when the interrupt comes between the block of the thread and its
\* reschedule(), or before the woken thread runs.
Abstract == INSTANCE CountingSemaphore WITH
    Proc <- Proc \cup {irq},
    permits <- Permits,
    asking <- {p \in Proc : pc[p] \in {"wait", "resched", "switch", "away"}},
    trying <- {},
    pending <- [p \in Proc \cup {irq} |-> IF p = irq THEN raised ELSE 0]

\* A thread waits while there is a permit.
PermitWaits ==
    Permits > 0 /\ \E p \in Proc : pc[p] \in {"wait", "resched", "switch", "away"}
=============================================================================
