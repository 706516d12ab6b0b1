---------------------------- MODULE MCPrimitives ----------------------------
(***************************************************************************)
(* The synchronisation primitives for TLC.  primitive says which of them    *)
(* the processes use; a behaviour uses one, and the variables of the others *)
(* are out of use.  The last part proves the properties for every set of    *)
(* processes, all arguments of the semaphores and any choice of primitives  *)
(* to look at, from what is proved about each of them.                      *)
(***************************************************************************)
EXTENDS Cpu, FiniteSets, TLC, TLAPS

CONSTANTS
    p1, p2, p3,     \* the processes
    irq, nullptr,
    Primitives,     \* the primitives to look at
    Initial,        \* the permits that a semaphore starts with
    Released,       \* the permits that a release() gives
    MaxPermits,     \* bound: the permits of the semaphore
    Notified,       \* the permits that an interrupt gives to the deferred semaphore
    MaxNotified,    \* bound: the permits of the deferred semaphore
    SizeValues,     \* see Deferred
    ConditionCalls, \* the functions of the condition variable that are called
    TailTimeouts    \* see ConditionVariable

VARIABLES
    primitive,
    spinlock, queue, value, n,            \* Mutex, Semaphore
    head, tail, next, timed,              \* ConditionVariable
    m, readers, writer, write, taken,     \* RwLock
    waiting, pid, raised                  \* Deferred

Three == {p1, p2, p3}
Symmetry == Permutations(Three)

\* The permits fit the counters, and the handler is not a process.
ASSUME PrimitivesAssumption ==
    /\ IsFiniteSet(Proc)
    /\ Initial \in Nat /\ MaxNotified \in Nat /\ SizeValues \in Nat
    /\ Released \subseteq Nat /\ Notified \subseteq Nat
    /\ Initial =< MaxNotified /\ MaxNotified < SizeValues
    /\ irq \notin Proc

Mu == INSTANCE MutexProofs
Se == INSTANCE SemaphoreProofs WITH Amounts <- Released
Cv == INSTANCE ConditionVariable WITH
    Calls <- ConditionCalls
Rw == INSTANCE RwLockProofs WITH
    nobody <- idle, call <- taken, Calls <- {"read_lock", "write_lock", "reader_rw_lock", "writer_rw_lock"}
De == INSTANCE DeferredProofs WITH
    Amounts <- Notified, MaxPermits <- MaxNotified

queueing == <<spinlock, queue, value>>
listing == <<head, tail, next, timed>>
sharing == <<m, readers, writer, write, taken>>
deferring == <<waiting, pid, raised>>
cpu == <<state, current>>
vars == <<primitive, cpu, pc, queueing, n, listing, sharing, deferring>>

NoList == head = 0 /\ tail = 0 /\ next = 0 /\ timed = 0
NoSharing == m = 0 /\ readers = 0 /\ writer = 0 /\ write = 0 /\ taken = 0
NoDeferring == waiting = 0 /\ pid = 0 /\ raised = 0

Init ==
    /\ primitive \in Primitives
    /\ \/ primitive = "mutex" /\ Mu!Init /\ n = 0 /\ NoList /\ NoSharing /\ NoDeferring
       \/ primitive = "semaphore" /\ Se!Init /\ NoList /\ NoSharing /\ NoDeferring
       \/ /\ primitive = "condition_variable"
          /\ Cv!Init /\ queue = 0 /\ value = 0 /\ n = 0 /\ NoSharing /\ NoDeferring
       \/ /\ primitive = "rw_lock"
          /\ Rw!Init /\ state = 0 /\ current = 0 /\ spinlock = 0 /\ queue = 0 /\ value = 0
          /\ n = 0 /\ NoList /\ NoDeferring
       \/ /\ primitive = "deferred"
          /\ De!Init /\ spinlock = 0 /\ queue = 0 /\ n = 0 /\ NoList /\ NoSharing

UseMutex == primitive = "mutex" /\ Mu!Next /\ UNCHANGED <<primitive, n, listing, sharing, deferring>>

UseSemaphore == primitive = "semaphore" /\ Se!Next /\ UNCHANGED <<primitive, listing, sharing, deferring>>

UseConditionVariable ==
    /\ primitive = "condition_variable"
    /\ Cv!Next
    /\ UNCHANGED <<primitive, queue, value, n, sharing, deferring>>

UseRwLock ==
    /\ primitive = "rw_lock"
    /\ Rw!Next
    /\ UNCHANGED <<primitive, cpu, queueing, n, listing, deferring>>

UseDeferred ==
    /\ primitive = "deferred"
    /\ De!Next
    /\ UNCHANGED <<primitive, spinlock, queue, n, listing, sharing>>

Next == UseMutex \/ UseSemaphore \/ UseConditionVariable \/ UseRwLock \/ UseDeferred

Spec == Init /\ [][Next]_vars

-----------------------------------------------------------------------------
(* The properties of the modules of the primitives.                         *)

\* mutex: only one process is in the critical section.
MutualExclusion == primitive = "mutex" => Mu!MutualExclusion

\* mutex, semaphore: whoever sleeps has something to wait for, and whoever is
\* woken up sleeps.  No process sleeps while the mutex is free or permits are
\* left, and the assertion of unblock_process holds.
SleepMeetsWakeUp ==
    /\ primitive = "mutex" => Mu!NoSleeperWhileFree /\ Mu!UnblockOnlyBlocked
    /\ primitive = "semaphore" => Se!NoSleeperWhilePermits /\ Se!UnblockOnlyBlocked

\* mutex: lock and unlock implement a first-in first-out lock.
ServedInOrder ==
    /\ primitive = "mutex" => Mu!Abstract!Init
    /\ [][primitive = "mutex" => [Mu!Abstract!Next]_(Mu!Abstract!vars)]_vars

\* What a step of the abstract semaphore may do.
PermitsStep ==
    /\ primitive = "semaphore" => [Se!Abstract!Next]_(Se!Abstract!vars)
    /\ primitive = "deferred" => [De!Abstract!Next]_(De!Abstract!vars)

\* semaphore, deferred semaphore: the permits are conserved.
PermitsConserved ==
    /\ primitive = "semaphore" => Se!Abstract!Init
    /\ primitive = "deferred" => De!Abstract!Init
    /\ [][PermitsStep]_vars

\* condition variable: the pointers of the wait list implement a queue, in which
\* every blocked process is, and notify_all() leaves nobody blocked.
ListIsQueue ==
    /\ primitive = "condition_variable" => Cv!Chain = <<>>
    /\ [][primitive = "condition_variable" => [Cv!QueueNext]_(Cv!Chain)]_vars
    /\ [](primitive = "condition_variable" => Cv!BlockedIsQueued /\ Cv!NotifyAllWakesAll)

\* condition variable: a process leaves the list by a notification or by its
\* own hand.
OutOnlyByNotify == [][primitive = "condition_variable" => Cv!OutOnly]_vars

\* readers/writer lock: who has called write_lock, or has had it called by a
\* wrapper, is alone inside; and the counter and the flag tell who is inside.
WriterExclusive == primitive = "rw_lock" => Rw!WriterExclusive /\ Rw!CountsExact

\* readers/writer lock: the writer has exclusive access, also through the lock
\* that writer_lock() returns.
WriterLockExcludes == primitive = "rw_lock" => Rw!WriterLockExcludes

-----------------------------------------------------------------------------
(* Proofs: what the proofs about each of the primitives show, put together. *)

\* The primitive in use is in a state that its own invariant describes.
IInv ==
    /\ primitive = "mutex" => Mu!IInv
    /\ primitive = "semaphore" => Se!IInv
    /\ primitive = "rw_lock" => Rw!IInv
    /\ primitive = "deferred" => De!IInv

\* The assumptions of the modules of the primitives hold.
LEMMA ArgumentsHold ==
    idle \notin Proc /\ Se!Arguments /\ De!Arguments /\ Rw!IsFiniteSet(Proc)
BY PrimitivesAssumption, CpuAssumption DEF Se!Arguments, De!Arguments, IsFiniteSet, Rw!IsFiniteSet

USE ArgumentsHold

-----------------------------------------------------------------------------
\* A behaviour starts with one primitive and with its initial state.
LEMMA InitUses ==
    ASSUME Init
    PROVE  /\ primitive = "mutex" => Mu!Init
           /\ primitive = "semaphore" => Se!Init
           /\ primitive = "rw_lock" => Rw!Init
           /\ primitive = "deferred" => De!Init
BY DEF Init

\* It stays with the primitive, and every step is one of it.
LEMMA NextUses ==
    ASSUME [Next]_vars
    PROVE  /\ primitive' = primitive
           /\ primitive = "mutex" => [Mu!Next]_(Mu!vars)
           /\ primitive = "semaphore" => [Se!Next]_(Se!vars)
           /\ primitive = "rw_lock" => [Rw!Next]_(Rw!vars)
           /\ primitive = "deferred" => [De!Next]_(De!vars)
BY DEF Next, UseMutex, UseSemaphore, UseConditionVariable, UseRwLock, UseDeferred,
       vars, cpu, queueing, sharing, deferring, Mu!vars, Mu!cpuVars, Mu!queueVars,
       Se!vars, Se!cpuVars, Se!queueVars, Rw!vars, De!vars, De!cpuVars, De!semVars

LEMMA InitInv == ASSUME Init PROVE IInv
BY InitUses, Mu!InitInv, Se!InitInv, Rw!InitInv, De!InitInv DEF IInv

LEMMA NextInv == ASSUME IInv, [Next]_vars PROVE IInv'
BY NextUses, Mu!NextInv, Se!NextInv, Rw!NextInv, De!NextInv DEF IInv

\* The primitives keep their invariants, whichever of them is looked at.
THEOREM Invariant == Spec => []IInv
BY InitInv, NextInv, PTL DEF Spec

-----------------------------------------------------------------------------
\* What the invariants of the primitives give.
LEMMA Safe == IInv => MutualExclusion /\ SleepMeetsWakeUp /\ WriterExclusive
BY Mu!Safe, Se!Safe, Rw!Excludes, Rw!CountsKnown DEF IInv, MutualExclusion, SleepMeetsWakeUp, WriterExclusive

\* mutex: only one process is in the critical section.
THEOREM Exclusion == Spec => []MutualExclusion
BY Safe, Invariant, PTL

\* mutex, semaphore: no process sleeps while the mutex is free or permits are
\* left, and the assertion of unblock_process holds.
THEOREM NoLostSleeper == Spec => []SleepMeetsWakeUp
BY Safe, Invariant, PTL

\* readers/writer lock: a writer is alone inside, and the counter and the flag
\* tell who is inside.
THEOREM WriterAlone == Spec => []WriterExclusive
BY Safe, Invariant, PTL

\* mutex: lock and unlock implement a first-in first-out lock.
THEOREM FirstInFirstOut == Spec => ServedInOrder
<1>1. Init => (primitive = "mutex" => Mu!Abstract!Init)
  BY InitUses, Mu!InitRefines
<1>2. IInv /\ IInv' /\ [Next]_vars => (primitive = "mutex" => [Mu!Abstract!Next]_(Mu!Abstract!vars))
  BY NextUses, Mu!NextRefines DEF IInv
<1> QED
  BY <1>1, <1>2, Invariant, PTL DEF Spec, ServedInOrder

\* semaphore, deferred semaphore: the permits that are given are those that are
\* taken.
THEOREM Conservation == Spec => PermitsConserved
<1>1. Init => /\ primitive = "semaphore" => Se!Abstract!Init
              /\ primitive = "deferred" => De!Abstract!Init
  BY InitUses, Se!InitInv, De!InitInv
<1>2. IInv /\ [Next]_vars => PermitsStep
  BY NextUses, Se!NextInv, De!NextInv DEF IInv, PermitsStep
<1> QED
  BY <1>1, <1>2, Invariant, PTL DEF Spec, PermitsConserved
=============================================================================
