-------------------------------- MODULE RwLock --------------------------------
(***************************************************************************)
(* The readers/writer lock (conc/rw_lock.hpp), on top of a mutex and a      *)
(* condition variable.  Both are taken at what their own modules show them  *)
(* to promise: m has one owner at a time, wait() puts the process at the    *)
(* end of a queue in one step, notify_one() and notify_all() take it out.   *)
(***************************************************************************)
EXTENDS Integers, Sequences, FiniteSets, Functions

CONSTANTS
    Proc,
    nobody,   \* m is free
    Calls     \* the ways in which the processes take the lock

VARIABLES
    m,         \* the owner of the mutex
    readers,
    writer,
    write,     \* the queue of the condition variable
    call,      \* how each process took the lock
    pc

vars == <<m, readers, writer, write, call, pc>>

Init ==
    /\ m = nobody
    /\ readers = 0
    /\ writer = FALSE
    /\ write = <<>>
    /\ call = [p \in Proc |-> "none"]
    /\ pc = [p \in Proc |-> "out"]

-----------------------------------------------------------------------------
At(p, l) == pc[p] = l

Goto(p, l) == pc' = [pc EXCEPT ![p] = l]

\* The lock that stands behind a call: the functions of the two wrappers.
Reads(f) == f \in {"read_lock", "writer_rw_lock"}

Lock(p) ==
    /\ At(p, "out")
    /\ \E f \in Calls :
        /\ call' = [call EXCEPT ![p] = f]
        /\ Goto(p, IF Reads(f) THEN "read_lock" ELSE "write_lock")
    /\ UNCHANGED <<m, readers, writer, write>>

Unlock(p) ==
    /\ At(p, "inside")
    /\ Goto(p, IF Reads(call[p]) THEN "read_unlock" ELSE "write_unlock")
    /\ UNCHANGED <<m, readers, writer, write, call>>

m_lock(p, l, locked) ==
    /\ At(p, l)
    /\ m = nobody
    /\ m' = p
    /\ Goto(p, locked)
    /\ UNCHANGED <<readers, writer, write, call>>

m_unlock(p, l, after) ==
    /\ At(p, l)
    /\ m' = nobody
    /\ Goto(p, after)
    /\ UNCHANGED <<readers, writer, write, call>>

\* The process waits once it has released the mutex, and starts over with the
\* mutex when it is notified.
wait(p, l, asleep, after) ==
    \/ /\ At(p, l)
       /\ write' = Append(write, p)
       /\ Goto(p, asleep)
       /\ UNCHANGED <<m, readers, writer, call>>
    \/ /\ At(p, asleep)
       /\ p \notin Range(write)
       /\ Goto(p, after)
       /\ UNCHANGED <<m, readers, writer, write, call>>

\* What is tested under the mutex is used in a later step.
read_lock(p) ==
    \/ m_lock(p, "read_lock", "read_test")
    \/ writer /\ m_unlock(p, "read_test", "read_wait")
    \/ wait(p, "read_wait", "read_asleep", "read_lock")
    \/ /\ At(p, "read_test")
       /\ ~writer
       /\ Goto(p, "read_enter")
       /\ UNCHANGED <<m, readers, writer, write, call>>
    \/ /\ At(p, "read_enter")
       /\ readers' = readers + 1
       /\ Goto(p, "entered")
       /\ UNCHANGED <<m, writer, write, call>>
    \/ m_unlock(p, "entered", "inside")

\* Mutant: the first reader to leave takes the others with it.
read_unlock_Resets(p) ==
    \/ m_lock(p, "read_unlock", "read_leave")
    \/ /\ At(p, "read_leave")
       /\ readers' = 0
       /\ write' = IF write # <<>> THEN Tail(write) ELSE write
       /\ Goto(p, "left")
       /\ UNCHANGED <<m, writer, call>>
    \/ m_unlock(p, "left", "out")

read_unlock(p) ==
    \/ m_lock(p, "read_unlock", "read_leave")
    \/ /\ At(p, "read_leave")
       /\ readers' = readers - 1
       /\ write' = IF readers = 1 /\ write # <<>> THEN Tail(write) ELSE write
       /\ Goto(p, "left")
       /\ UNCHANGED <<m, writer, call>>
    \/ m_unlock(p, "left", "out")

\* Mutant: the writer only waits for other writers.
write_lock_IgnoresReaders(p) ==
    \/ m_lock(p, "write_lock", "write_test")
    \/ writer /\ m_unlock(p, "write_test", "write_wait")
    \/ wait(p, "write_wait", "write_asleep", "write_lock")
    \/ /\ At(p, "write_test")
       /\ ~writer
       /\ Goto(p, "write_enter")
       /\ UNCHANGED <<m, readers, writer, write, call>>
    \/ /\ At(p, "write_enter")
       /\ writer' = TRUE
       /\ Goto(p, "entered")
       /\ UNCHANGED <<m, readers, write, call>>

write_lock(p) ==
    \/ m_lock(p, "write_lock", "write_test")
    \/ (writer \/ readers > 0) /\ m_unlock(p, "write_test", "write_wait")
    \/ wait(p, "write_wait", "write_asleep", "write_lock")
    \/ /\ At(p, "write_test")
       /\ ~writer /\ readers = 0
       /\ Goto(p, "write_enter")
       /\ UNCHANGED <<m, readers, writer, write, call>>
    \/ /\ At(p, "write_enter")
       /\ writer' = TRUE
       /\ Goto(p, "entered")
       /\ UNCHANGED <<m, readers, write, call>>

write_unlock(p) ==
    \/ m_lock(p, "write_unlock", "write_leave")
    \/ /\ At(p, "write_leave")
       /\ writer' = FALSE
       /\ write' = <<>>
       /\ Goto(p, "left")
       /\ UNCHANGED <<m, readers, call>>

Step(p) ==
    \/ Lock(p) \/ Unlock(p)
    \/ read_lock(p) \/ read_unlock(p)
    \/ write_lock(p) \/ write_unlock(p)

Next == \E p \in Proc : Step(p)

Spec == Init /\ [][Next]_vars

-----------------------------------------------------------------------------
(* Properties.                                                              *)

Inside == {p \in Proc : At(p, "inside")}

Places ==
    {"out", "inside", "entered", "left", "read_lock", "read_test", "read_enter",
     "read_wait", "read_asleep", "read_unlock", "read_leave", "write_lock", "write_test",
     "write_enter", "write_wait", "write_asleep", "write_unlock", "write_leave"}

\* The counter and the flag keep their types: readers is never decremented
\* below zero.
TypeOK ==
    /\ m \in Proc \cup {nobody}
    /\ readers \in 0..Cardinality(Proc)
    /\ writer \in BOOLEAN
    /\ write \in Seq(Proc)
    /\ call \in [Proc -> Calls \cup {"none"}]
    /\ pc \in [Proc -> Places]

\* Who has taken the lock with write_lock is alone inside, and who has taken it
\* with read_lock is there with readers only, whether the functions were called
\* directly or by a wrapper, and whatever notifications came too early.
WriterExclusive ==
    \A p, q \in Inside : ~Reads(call[p]) => p = q

\* "There can be multiple readers, but only one writer. The writer has exclusive
\* access.": also the one that has got its lock from writer_lock().
WriterLockExcludes ==
    \A p, q \in Inside :
        call[p] \in {"write_lock", "writer_rw_lock"} => p = q

\* readers and writer tell who is inside: the counter is exact even while
\* processes are woken up and test again.
CountsExact ==
    m = nobody =>
        /\ readers = Cardinality({p \in Proc : pc[p] \in {"inside", "read_unlock"} /\ Reads(call[p])})
        /\ writer <=> \E p \in Proc : pc[p] \in {"inside", "write_unlock"} /\ ~Reads(call[p])
=============================================================================
