------------------------------ MODULE Semaphore ------------------------------
(***************************************************************************)
(* The kernel's semaphore (conc/semaphore.hpp): a counter under a spinlock  *)
(* and a FIFO of sleeping processes.  Any process may release permits,      *)
(* whether it has taken some or not: the network stack uses the semaphore   *)
(* to hand packets from one thread to another.                              *)
(***************************************************************************)
EXTENDS SleepQueue, FiniteSetsExt

CONSTANTS
    Initial,      \* the argument of init
    Amounts,      \* the arguments of release
    MaxPermits    \* bound: the permits in the counter and on their way

VARIABLES
    value,
    n        \* n[p]: the local variable of release, once p has called it

vars == <<cpuVars, pc, queueVars, value, n>>

Init ==
    /\ CpuInit
    /\ pc = [p \in Proc |-> "out"]
    /\ QueueInit
    /\ value = Initial
    /\ n = [p \in Proc |-> 0]

\* What p still has to give.
Owed(p) ==
    CASE pc[p] \in {"unlock", "unlocking"}   -> 1
      [] pc[p] \in {"release", "releasing"}  -> n[p]
      [] OTHER                               -> 0

Permits == value + Cardinality(Granted)

-----------------------------------------------------------------------------
\* The calls, up to the loop of the spinlock.
call(p) ==
    /\ At(p, "out")
    /\ \/ Goto(p, "lock") /\ UNCHANGED n
       \/ Goto(p, "try_lock") /\ UNCHANGED n
       \/ Goto(p, "unlock") /\ UNCHANGED n
       \/ \E k \in Amounts : Goto(p, "release") /\ n' = [n EXCEPT ![p] = k]
    /\ UNCHANGED <<cpuVars, queueVars, value>>
    /\ (Permits + MapThenSumSet(Owed, Proc))' =< MaxPermits

take(p, l) ==
    /\ At(p, l)
    /\ value > 0
    /\ value' = value - 1
    /\ Goto(p, "got")
    /\ UNCHANGED <<cpuVars, queueVars, n>>

\* Mutant: the process that was woken up takes a permit once more.
lock_TakesTwice(p) ==
    \/ spin(p, "lock", "locked") /\ UNCHANGED <<value, n>>
    \/ take(p, "locked")
    \/ unspin(p, "got", "out") /\ UNCHANGED <<value, n>>
    \/ /\ At(p, "locked")
       /\ value = 0
       /\ enqueue(p)
       /\ Goto(p, "queued")
       /\ UNCHANGED <<spinlock, value, n>>
    \/ unspin(p, "queued", "resched") /\ UNCHANGED <<value, n>>
    \/ reschedule(p, "lock") /\ UNCHANGED <<queueVars, value, n>>

lock(p) ==
    \/ spin(p, "lock", "locked") /\ UNCHANGED <<value, n>>
    \/ take(p, "locked")
    \/ unspin(p, "got", "out") /\ UNCHANGED <<value, n>>
    \/ /\ At(p, "locked")
       /\ value = 0
       /\ enqueue(p)
       /\ Goto(p, "queued")
       /\ UNCHANGED <<spinlock, value, n>>
    \/ unspin(p, "queued", "resched") /\ UNCHANGED <<value, n>>
    \/ reschedule(p, "out") /\ UNCHANGED <<queueVars, value, n>>

try_lock(p) ==
    \/ spin(p, "try_lock", "try_locked") /\ UNCHANGED <<value, n>>
    \/ take(p, "try_locked")
    \/ value = 0 /\ unspin(p, "try_locked", "out") /\ UNCHANGED <<value, n>>

\* A sleeping process gets the permit, which then never shows in the value.
unlock(p) ==
    \/ spin(p, "unlock", "unlocking") /\ UNCHANGED <<value, n>>
    \/ /\ At(p, "unlocking")
       /\ queue = <<>>
       /\ value' = value + 1
       /\ Goto(p, "released")
       /\ UNCHANGED <<cpuVars, queueVars, n>>
    \/ /\ At(p, "unlocking")
       /\ dequeue
       /\ Goto(p, "released")
       /\ UNCHANGED <<spinlock, value, n>>
    \/ unspin(p, "released", "out") /\ UNCHANGED <<value, n>>

\* Mutant: one sleeping process is woken up and the rest goes to the value.
release_WakesOne(p) ==
    \/ spin(p, "release", "releasing") /\ UNCHANGED <<value, n>>
    \/ /\ At(p, "releasing")
       /\ IF n[p] > 0 /\ queue # <<>>
          THEN dequeue /\ value' = value + n[p] - 1
          ELSE UNCHANGED <<cpuVars, queue>> /\ value' = value + n[p]
       /\ n' = [n EXCEPT ![p] = 0]
       /\ Goto(p, "released")
       /\ UNCHANGED spinlock

\* The sleeping processes are served one by one; what is left goes to the value.
release(p) ==
    \/ spin(p, "release", "releasing") /\ UNCHANGED <<value, n>>
    \/ /\ At(p, "releasing")
       /\ n[p] > 0
       /\ dequeue
       /\ n' = [n EXCEPT ![p] = @ - 1]
       /\ UNCHANGED <<pc, spinlock, value>>
    \/ /\ At(p, "releasing")
       /\ n[p] = 0 \/ queue = <<>>
       /\ value' = value + n[p]
       /\ n' = [n EXCEPT ![p] = 0]
       /\ Goto(p, "released")
       /\ UNCHANGED <<cpuVars, queueVars>>

tick(new) == Preempt(state, new) /\ UNCHANGED <<pc, queueVars, value, n>>

Step(p) == call(p) \/ lock(p) \/ try_lock(p) \/ unlock(p) \/ release(p)

Next == (\E new \in Task : tick(new)) \/ (\E p \in Proc : Step(p))

Spec == Init /\ [][Next]_vars

-----------------------------------------------------------------------------
(* Properties.                                                              *)

Places ==
    Sleeping \cup {"out", "lock", "locked", "got", "try_lock", "try_locked", "unlock",
                   "unlocking", "release", "releasing", "released"}

\* The counter stays a natural number: --value never wraps it around.
TypeOK ==
    /\ state \in [Task -> {"READY", "RUNNING", "BLOCKED"}]
    /\ current \in Task
    /\ pc \in [Proc -> Places]
    /\ value \in Nat
    /\ n \in [Proc -> Nat]
    /\ spinlock \in Task
    /\ queue \in Seq(Proc)

\* No process sleeps while the counter is positive, whatever the number of
\* permits that a release() gives at once.
NoSleeperWhilePermits == value > 0 => queue = <<>>

\* The assertion of unblock_process holds at every dequeue(), the second and
\* later ones of a release() included.
UnblockOnlyBlocked ==
    \A p \in Proc :
        (pc[p] \in {"unlocking", "releasing"} /\ queue # <<>>) => state[Head(queue)] = "BLOCKED"

\* What CountingSemaphore sees of the processes.
Asking == {p \in Proc : pc[p] \in {"lock", "locked"} \cup Sleeping}

Trying == {p \in Proc : pc[p] \in {"try_lock", "try_locked"}}

Debts == [p \in Proc |-> Owed(p)]

\* "This will effectively increase the current counter by n": the permits are
\* conserved, and every lock() returns with one of its own, whether they go to
\* the counter or to a process that sleeps, has not slept yet, or has been woken
\* up and has not run yet.
Abstract == INSTANCE CountingSemaphore WITH
    Amounts <- Amounts \cup {1},
    permits <- Permits,
    asking <- Asking,
    trying <- Trying,
    pending <- Debts

-----------------------------------------------------------------------------
(* The inductive invariant behind these properties.                         *)

Spinlocked == {"locked", "got", "queued", "try_locked", "unlocking", "releasing", "released"}

\* Exactly the process that is between lock and unlock of it has the spinlock.
SpinlockHeld == \A p \in Proc : pc[p] \in Spinlocked <=> spinlock = p

\* What NoSleeperWhilePermits, UnblockOnlyBlocked and Abstract rest on: a release
\* that serves several sleepers against locks that are preempted anywhere on
\* their way to sleep.
IInv ==
    /\ TypeOK
    /\ SpinlockHeld
    /\ QueueSleeps
    /\ BackUnblocked
    /\ NoSleeperWhilePermits
    /\ IsFiniteSet(Granted)
=============================================================================
