--------------------------------- MODULE Cpu ---------------------------------
(***************************************************************************)
(* What the synchronisation primitives see of the scheduler: the state of   *)
(* every process, the one that executes, the timer interrupt that preempts  *)
(* it and reschedule().  The module Scheduler models the scheduler itself;  *)
(* here all the processes have the same priority and the next one is any    *)
(* that can run, which leaves out the order of the round robin.             *)
(*                                                                          *)
(* pc[p] is the place of p in the code of the primitive.  Statements are    *)
(* separate steps, so that the timer can preempt between any two of them;   *)
(* only sections with interrupts disabled are single steps.                 *)
(***************************************************************************)
EXTENDS Naturals

CONSTANTS
    Proc,   \* the processes that use the primitive
    idle    \* the idle task, which runs when none of them can

VARIABLES
    state,     \* pcb[p].state
    current,   \* current_pid
    pc

cpuVars == <<state, current>>

Task == Proc \cup {idle}

ASSUME CpuAssumption == idle \notin Proc

CpuInit ==
    /\ state = [p \in Task |-> IF p = idle THEN "RUNNING" ELSE "READY"]
    /\ current = idle

Runnable(st, p) == st[p] \in {"READY", "RUNNING"}

\* The processes that select_next_process may return.
Candidates(st) ==
    LET ready == {p \in Proc : Runnable(st, p)}
    IN IF ready = {} THEN {idle} ELSE ready

\* The state is not touched when the process is switched to itself.
SwitchTo(st, new) ==
    /\ current' = new
    /\ state' = IF new = current THEN st ELSE [st EXCEPT ![new] = "RUNNING"]

\* The end of a quantum, with the states st once the timeouts are handled: the
\* process becomes READY unless it is blocked, and keeps its state if it is
\* selected again.
Preempt(st, new) ==
    LET preempted == IF st[current] \in {"BLOCKED", "BLOCKED_TIMEOUT"} THEN st
                     ELSE [st EXCEPT ![current] = "READY"]
    IN /\ new \in Candidates(preempted)
       /\ IF new = current THEN state' = st /\ UNCHANGED current
          ELSE SwitchTo(preempted, new)

\* p executes at the place l.
At(p, l) == p = current /\ pc[p] = l

Goto(p, l) == pc' = [pc EXCEPT ![p] = l]

\* reschedule() tests the state before it disables interrupts; p goes on at
\* return when it has the CPU again.
reschedule(p, return) ==
    \/ /\ At(p, "resched")
       /\ state[p] # "RUNNING"
       /\ Goto(p, "switch")
       /\ UNCHANGED cpuVars
    \/ /\ At(p, "resched")
       /\ state[p] = "RUNNING"
       /\ Goto(p, return)
       /\ UNCHANGED cpuVars
    \/ /\ At(p, "switch")
       /\ \E new \in Candidates(state) : SwitchTo(state, new)
       /\ Goto(p, "away")
    \/ /\ At(p, "away")
       /\ Goto(p, return)
       /\ UNCHANGED cpuVars

(* The spinlock (conc/spinlock.hpp) inside every primitive that sleeps: lock *)
(* is the process that holds it, or idle.                                    *)

\* The compare and swap; while it fails, p only burns its quantum.
acquire_spin(lock, p, l, locked) ==
    /\ At(p, l)
    /\ lock = idle
    /\ lock' = p
    /\ Goto(p, locked)
    /\ UNCHANGED cpuVars

release_spin(lock, p, l, next) ==
    /\ At(p, l)
    /\ lock' = idle
    /\ Goto(p, next)
    /\ UNCHANGED cpuVars
=============================================================================
