------------------------------ MODULE MCLiveness ------------------------------
(*****************************************************************************)
(* What the kernel must eventually do, under the fairness that the timer and *)
(* the scheduler give.  Each behaviour is about one component, the focus; the*)
(* variables of the others are 0.                                            *)
(*****************************************************************************)
EXTENDS Naturals, Sequences, TLC

CONSTANTS Foci

VARIABLES
    focus,
    state, pid, ppid, priority, rounds, sleep_timeout, run_queue, current_pid, next_pid, pc, op, arg, slot,
    panic,
    task, running, place,
    spinlock, head, tail, next, timed,
    value, waiting, claimed, raised

-----------------------------------------------------------------------------
(* The instances.                                                           *)

\* Slot 4 starts a process in slot 5; both compute for ever.
Computing == [p \in 0..5 |-> CASE p \in {1, 4} -> {"exec"} [] p = 3 -> {"exit"} [] OTHER -> {}]
Sched == INSTANCE Scheduler WITH
    MAX_PROCESS <- 6, Terminals <- 1, rr_quantum <- 1, SleepTicks <- {1}, Calls <- Computing

Users == {"p1", "p2"}
Tasks == Users \cup {"idle"}
Cv == INSTANCE ConditionVariable WITH
    Proc <- Users, idle <- "idle", nullptr <- "nullptr", Calls <- {"wait_for", "notify_one"}, TailTimeouts <- TRUE,
    state <- task, current <- running, pc <- place
De == INSTANCE Deferred WITH
    Proc <- Users, idle <- "idle", irq <- "irq", SizeValues <- 8, Initial <- 1, Amounts <- {1, 2}, MaxPermits <- 5,
    state <- task, current <- running, pc <- place, pid <- claimed

-----------------------------------------------------------------------------

schedVars == <<state, pid, ppid, priority, rounds, sleep_timeout, run_queue, current_pid, next_pid, pc, op,
               arg, slot, panic>>
cpuVars == <<task, running, place>>
listVars == <<spinlock, head, tail, next, timed>>
semVars == <<value, waiting, claimed, raised>>
vars == <<focus, schedVars, cpuVars, listVars, semVars>>

NoSched ==
    /\ state = 0 /\ pid = 0 /\ ppid = 0 /\ priority = 0 /\ rounds = 0 /\ sleep_timeout = 0
    /\ run_queue = 0 /\ current_pid = 0 /\ next_pid = 0 /\ pc = 0 /\ op = 0 /\ arg = 0 /\ slot = 0
    /\ panic = 0
NoCpu == task = 0 /\ running = 0 /\ place = 0
NoList == spinlock = 0 /\ head = 0 /\ tail = 0 /\ next = 0 /\ timed = 0
NoSem == value = 0 /\ waiting = 0 /\ claimed = 0 /\ raised = 0

Init ==
    /\ focus \in Foci
    /\ IF focus = "scheduler" THEN Sched!Init ELSE NoSched
    /\ CASE focus = "condition_variable" -> Cv!Init
         [] focus = "deferred" -> De!Init
         [] OTHER -> NoCpu
    /\ IF focus = "condition_variable" THEN TRUE ELSE NoList
    /\ IF focus = "deferred" THEN TRUE ELSE NoSem

UseScheduler ==
    /\ focus = "scheduler" /\ Sched!Next
    /\ UNCHANGED <<focus, cpuVars, listVars, semVars>>

UseConditionVariable ==
    /\ focus = "condition_variable" /\ Cv!Next
    /\ UNCHANGED <<focus, schedVars, semVars>>

UseDeferred ==
    /\ focus = "deferred" /\ De!Next
    /\ UNCHANGED <<focus, schedVars, listVars>>

Next == UseScheduler \/ UseConditionVariable \/ UseDeferred

Spec == Init /\ [][Next]_vars

(* The timer keeps interrupting, and a process that gets the CPU again and  *)
(* again executes the next statement of the kernel's code.                  *)
SchedulerFair ==
    /\ WF_vars(focus = "scheduler" /\ Sched!tick /\ UNCHANGED <<focus, cpuVars, listVars, semVars>>)
    /\ \A p \in 0..5 : SF_vars(/\ focus = "scheduler" /\ Sched!KernelCode(p) /\ Sched!Step(p)
                             /\ UNCHANGED <<focus, cpuVars, listVars, semVars>>)

(* That is what the primitives take from the scheduler: a process that can  *)
(* run gets the CPU again and again and then executes the code of the       *)
(* primitive.  Timeouts run out, and interrupts are handled.                *)
PrimitivesFair ==
    LET InCv == focus = "condition_variable" /\ UNCHANGED <<focus, schedVars, semVars>>
        InDe == focus = "deferred" /\ UNCHANGED <<focus, schedVars, listVars>>
    IN /\ \A new \in Tasks :
              SF_vars(\/ InCv /\ \E expired \in SUBSET Users : Cv!tick(expired, new)
                      \/ InDe /\ De!tick(new))
       /\ \A p \in Users :
              /\ SF_vars((InCv /\ place[p] # "out" /\ Cv!Step(p)) \/ (InDe /\ De!rx_thread(p)))
              /\ WF_vars(InCv /\ \E expired \in SUBSET Users, new \in Tasks : p \in expired /\ Cv!tick(expired, new))
       /\ WF_vars(InDe /\ De!handler)

FairSpec == Spec /\ SchedulerFair /\ PrimitivesFair

-----------------------------------------------------------------------------
(* Properties, each under the name it has in the module of its component.   *)

\* Scheduler: a process that is READY while no process of a higher priority can run
\* does not stay without the CPU.
RoundRobinProgress == \A p \in 0..5 : []<>(focus = "scheduler" => Sched!Served(p))

\* Condition variable: a timed wait ends although nobody notifies, wherever the
\* timer strikes.
TimedWaitEnds ==
    \A p \in Users : (focus = "condition_variable" /\ timed[p] /\ place[p] = "queued") ~>
                   (focus = "condition_variable" /\ place[p] = "again")

\* Deferred semaphore: a permit that an interrupt hands out while the thread is about
\* to sleep is taken: no wakeup is lost.
PermitIsTaken == (focus = "deferred" /\ De!PermitWaits) ~>
        (focus = "deferred" /\ \E p \in Users : place[p] = "loop")
=============================================================================
