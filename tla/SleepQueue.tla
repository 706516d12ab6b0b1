------------------------------ MODULE SleepQueue ------------------------------
(***************************************************************************)
(* The sleep queue of mutex and semaphore (conc/wait_list.cpp), under their *)
(* spinlock, as a sequence.  The module ConditionVariable models the nodes  *)
(* of the list, which implement the sequence as long as no process leaves   *)
(* the list on its own, and only the timed waits of condition_variable do.  *)
(***************************************************************************)
EXTENDS Cpu, Sequences

VARIABLES
    spinlock,   \* the process that holds it, or idle
    queue       \* the sleep queue

queueVars == <<spinlock, queue>>

QueueInit == spinlock = idle /\ queue = <<>>

\* The operations of the spinlock leave the queue alone.
spin(p, l, locked) == acquire_spin(spinlock, p, l, locked) /\ UNCHANGED queue

unspin(p, l, next) == release_spin(spinlock, p, l, next) /\ UNCHANGED queue

\* Mutant: the last one to come is the first one in the list.
enqueue_Front(p) ==
    /\ queue' = <<p>> \o queue
    /\ state' = [state EXCEPT ![p] = "BLOCKED"]
    /\ UNCHANGED current

\* Mutant: the process is not blocked.
enqueue_NotBlocked(p) ==
    /\ queue' = Append(queue, p)
    /\ UNCHANGED cpuVars

\* The current process is put at the end of the list and made BLOCKED; it still
\* has the CPU.
enqueue(p) ==
    /\ queue' = Append(queue, p)
    /\ state' = [state EXCEPT ![p] = "BLOCKED"]
    /\ UNCHANGED current

\* Mutant: the process is not taken out of the list.
dequeue_NotRemoved ==
    /\ queue # <<>>
    /\ state' = [state EXCEPT ![Head(queue)] = "READY"]
    /\ UNCHANGED <<queue, current>>

\* The first process is taken out of the list and unblocked.
dequeue ==
    /\ queue # <<>>
    /\ queue' = Tail(queue)
    /\ state' = [state EXCEPT ![Head(queue)] = "READY"]
    /\ UNCHANGED current

Queued(p) == \E i \in DOMAIN queue : queue[i] = p

\* Where a process that was put in the queue is until it returns.
Sleeping == {"queued", "resched", "switch", "away"}

\* The processes that were taken out of the queue and are on their way back.
Granted == {p \in Proc : pc[p] \in Sleeping /\ ~Queued(p)}

-----------------------------------------------------------------------------
(* What the proofs about mutex and semaphore rest on.                       *)

\* A process of the queue is inside lock(), and BLOCKED, until it is taken out.
QueueSleeps ==
    /\ \A i, j \in DOMAIN queue : queue[i] = queue[j] => i = j
    /\ \A p \in Proc : Queued(p) => pc[p] \in Sleeping /\ state[p] = "BLOCKED"

\* A process that executes again after its reschedule() is not BLOCKED.
BackUnblocked == \A p \in Proc : (current = p /\ pc[p] = "away") => state[p] # "BLOCKED"
=============================================================================
