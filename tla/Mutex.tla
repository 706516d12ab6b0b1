-------------------------------- MODULE Mutex --------------------------------
(***************************************************************************)
(* The kernel's mutex (conc/mutex.hpp): a value, the spinlock that protects *)
(* it, and a FIFO of sleeping processes to which unlock() hands the mutex   *)
(* over.                                                                    *)
(***************************************************************************)
EXTENDS SleepQueue

VARIABLE value   \* 1 when the mutex is free

vars == <<cpuVars, pc, queueVars, value>>

Init ==
    /\ CpuInit
    /\ pc = [p \in Proc |-> "out"]
    /\ QueueInit
    /\ value = 1

-----------------------------------------------------------------------------
\* The calls, up to the loop of the spinlock.
call(p) ==
    /\ \/ At(p, "out") /\ Goto(p, "lock")
       \/ At(p, "out") /\ Goto(p, "try_lock")
       \/ At(p, "critical") /\ Goto(p, "unlock")
    /\ UNCHANGED <<cpuVars, queueVars, value>>

\* The mutex is taken when it is free.
take(p, l) ==
    /\ At(p, l)
    /\ value > 0
    /\ value' = 0
    /\ Goto(p, "got")
    /\ UNCHANGED <<cpuVars, queueVars>>

\* The process that has to sleep is BLOCKED before the spinlock is released.
lock(p) ==
    \/ spin(p, "lock", "locked") /\ UNCHANGED value
    \/ take(p, "locked")
    \/ unspin(p, "got", "critical") /\ UNCHANGED value
    \/ /\ At(p, "locked")
       /\ value = 0
       /\ enqueue(p)
       /\ Goto(p, "queued")
       /\ UNCHANGED <<spinlock, value>>
    \/ unspin(p, "queued", "resched") /\ UNCHANGED value
    \/ reschedule(p, "critical") /\ UNCHANGED <<queueVars, value>>

\* Mutant: the value is taken without a look at it.
try_lock_NoTest(p) ==
    \/ spin(p, "try_lock", "try_locked") /\ UNCHANGED value
    \/ /\ At(p, "try_locked")
       /\ value' = value - 1
       /\ Goto(p, "got")
       /\ UNCHANGED <<cpuVars, queueVars>>

try_lock(p) ==
    \/ spin(p, "try_lock", "try_locked") /\ UNCHANGED value
    \/ take(p, "try_locked")
    \/ value = 0 /\ unspin(p, "try_locked", "out") /\ UNCHANGED value

\* Mutant: the value is set free although the mutex is handed over.
unlock_BothWays(p) ==
    \/ spin(p, "unlock", "unlocking") /\ UNCHANGED value
    \/ /\ At(p, "unlocking")
       /\ value' = 1
       /\ dequeue \/ (queue = <<>> /\ UNCHANGED <<cpuVars, queue>>)
       /\ Goto(p, "unlocked")
       /\ UNCHANGED spinlock
    \/ unspin(p, "unlocked", "out") /\ UNCHANGED value

\* The first sleeping process is given the mutex, whose value stays 0.
unlock(p) ==
    \/ spin(p, "unlock", "unlocking") /\ UNCHANGED value
    \/ /\ At(p, "unlocking")
       /\ queue = <<>>
       /\ value' = 1
       /\ Goto(p, "unlocked")
       /\ UNCHANGED <<cpuVars, queueVars>>
    \/ /\ At(p, "unlocking")
       /\ dequeue
       /\ Goto(p, "unlocked")
       /\ UNCHANGED <<spinlock, value>>
    \/ unspin(p, "unlocked", "out") /\ UNCHANGED value

tick(new) == Preempt(state, new) /\ UNCHANGED <<pc, queueVars, value>>

Step(p) == call(p) \/ lock(p) \/ try_lock(p) \/ unlock(p)

Next == (\E new \in Task : tick(new)) \/ (\E p \in Proc : Step(p))

Spec == Init /\ [][Next]_vars

-----------------------------------------------------------------------------
(* Properties.                                                              *)

\* Where a process has the mutex, and where it has the spinlock.
Owning == {"got", "critical", "unlock", "unlocking"}
Spinlocked == {"locked", "got", "queued", "try_locked", "unlocking", "unlocked"}
Places == {"out", "lock", "try_lock"} \cup Owning \cup Spinlocked \cup Sleeping

\* The mutex, its spinlock and its queue keep their types.
TypeOK ==
    /\ state \in [Task -> {"READY", "RUNNING", "BLOCKED"}]
    /\ current \in Task
    /\ pc \in [Proc -> Places]
    /\ value \in {0, 1}
    /\ spinlock \in Task
    /\ queue \in Seq(Proc)

\* "Once the lock is acquired, the critical section is only accessible by the
\* thread who acquired the mutex", whether it got it at once, was handed it by
\* unlock() while it slept, or before it had even left the CPU.
MutualExclusion ==
    \A p, q \in Proc : (pc[p] = "critical" /\ pc[q] = "critical") => p = q

\* The assertion of unblock_process holds in unlock(): the first process of the
\* queue is always BLOCKED, also when it has not executed its reschedule() yet.
UnblockOnlyBlocked ==
    \A p \in Proc : (pc[p] = "unlocking" /\ queue # <<>>) => state[Head(queue)] = "BLOCKED"

\* No process sleeps while the mutex is free: the test of unlock() for sleepers
\* cannot miss a lock() that is going to sleep.
NoSleeperWhileFree == value = 1 => \A p \in Proc : ~Queued(p)

Owners == {p \in Proc : pc[p] \in Owning}

OwnerOf(s) == IF s = {} THEN idle ELSE CHOOSE p \in s : TRUE
LineOf(s, q) == IF s = {} THEN q ELSE <<CHOOSE p \in s : TRUE>> \o q

\* lock(), try_lock() and unlock() implement a first-in first-out lock: nobody
\* enters past a process that sleeps, and unlock() serves the first one.  Who was
\* handed the mutex is the first in line until it is back.
Abstract == INSTANCE FifoLock WITH
    owner <- OwnerOf(Owners),
    waiting <- LineOf(Granted, queue)

-----------------------------------------------------------------------------
(* The inductive invariant behind MutualExclusion.                          *)

\* Exactly the process that is between lock and unlock of it has the spinlock.
SpinlockHeld == \A p \in Proc : pc[p] \in Spinlocked <=> spinlock = p

\* The mutex has one holder, the owner or the process it was handed to, and its
\* value is 0 exactly while it has one.
OneHolder ==
    /\ \A p, q \in Owners \cup Granted : p = q
    /\ value = 1 <=> Owners \cup Granted = {}
    /\ value = 1 => queue = <<>>

\* All that MutualExclusion rests on: the handover in unlock() against a
\* lock() that is preempted anywhere on its way to sleep.
IInv ==
    /\ TypeOK
    /\ SpinlockHeld
    /\ QueueSleeps
    /\ OneHolder
    /\ BackUnblocked
=============================================================================
