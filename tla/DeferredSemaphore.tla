-------------------------- MODULE DeferredSemaphore --------------------------
(***************************************************************************)
(* The semaphore that an interrupt handler releases and one thread waits on *)
(* (conc/deferred_unique_semaphore.hpp): the receive semaphore of a network *)
(* interface and the free transmit buffers of the rtl8139.                  *)
(***************************************************************************)
EXTENDS Cpu, FiniteSets

CONSTANT SizeValues   \* the number of values of a size_t, for the wrap around

VARIABLES
    value,
    waiting,
    pid        \* the thread that has claimed the semaphore

semVars == <<value, waiting, pid>>

SemInit(initial) ==
    /\ value = initial
    /\ waiting = FALSE
    /\ pid = idle

claim(p) == pid' = p

\* Mutant: the flag is set after interrupts are enabled again.
wait_LateFlag(p, l, return) ==
    \/ /\ At(p, l)
       /\ value > 0
       /\ value' = value - 1
       /\ Goto(p, return)
       /\ UNCHANGED <<cpuVars, waiting, pid>>
    \/ /\ At(p, l)
       /\ value = 0
       /\ state' = [state EXCEPT ![pid] = "BLOCKED"]
       /\ Goto(p, "resched")
       /\ UNCHANGED <<current, value, waiting, pid>>
    \/ /\ At(p, "resched")
       /\ waiting' = TRUE
       /\ Goto(p, "switch")
       /\ UNCHANGED <<cpuVars, value, pid>>
    \/ ~At(p, "resched") /\ reschedule(p, return) /\ UNCHANGED semVars

\* The test and the block are one step: interrupts are disabled.
wait(p, l, return) ==
    \/ /\ At(p, l)
       /\ value > 0
       /\ value' = value - 1
       /\ Goto(p, return)
       /\ UNCHANGED <<cpuVars, waiting, pid>>
    \/ /\ At(p, l)
       /\ value = 0
       /\ waiting' = TRUE
       /\ state' = [state EXCEPT ![pid] = "BLOCKED"]
       /\ Goto(p, "resched")
       /\ UNCHANGED <<current, value, pid>>
    \/ reschedule(p, return) /\ UNCHANGED semVars

unblock_process_hint(p) ==
    state' = [state EXCEPT ![p] = IF @ = "RUNNING" THEN @ ELSE "READY"]

\* notify(n), from an interrupt handler; notify() is notify(1).
notify(n) ==
    /\ IF waiting
       THEN /\ unblock_process_hint(pid)
            /\ waiting' = FALSE
            /\ value' = (value + n - 1) % SizeValues
       ELSE /\ value' = (value + n) % SizeValues
            /\ UNCHANGED <<state, waiting>>
    /\ UNCHANGED <<current, pid>>

\* The threads that were woken up and have not returned yet.
Granted == {p \in Proc : pc[p] \in {"resched", "switch", "away"} /\ ~waiting}

Permits == value + Cardinality(Granted)
=============================================================================
