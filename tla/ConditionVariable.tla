-------------------------- MODULE ConditionVariable ---------------------------
(***************************************************************************)
(* The intrusive list of waiting processes (conc/wait_list.cpp).  The node  *)
(* of a process is the member wait of its control block, so a node is the   *)
(* process itself, and next is what its member next points to.              *)
(***************************************************************************)
EXTENDS Cpu, Sequences, FiniteSetsExt

CONSTANT nullptr

VARIABLES head, tail, next

listVars == <<head, tail, next>>

ListInit ==
    /\ head = nullptr
    /\ tail = nullptr
    /\ next = [p \in Proc |-> nullptr]

empty == head = nullptr

\* The nodes that a walk from head meets, for at most as many steps as there
\* are processes.
Chain ==
    LET walk[i \in 1..Cardinality(Proc)] ==
            IF i = 1 THEN head
            ELSE IF walk[i - 1] = nullptr THEN nullptr ELSE next[walk[i - 1]]
    IN SelectSeq(walk, LAMBDA p : p # nullptr)

waiting(p) == \E i \in DOMAIN Chain : Chain[i] = p

\* Mutant: the new node keeps its old link.
append_StaleNext(p) ==
    /\ IF tail = nullptr
       THEN head' = p /\ UNCHANGED next
       ELSE next' = [next EXCEPT ![tail] = p] /\ UNCHANGED head
    /\ tail' = p

\* The list part of enqueue and enqueue_timeout.
append(p) ==
    /\ IF tail = nullptr
       THEN head' = p /\ next' = [next EXCEPT ![p] = nullptr]
       ELSE next' = [next EXCEPT ![p] = nullptr, ![tail] = p] /\ UNCHANGED head
    /\ tail' = p

enqueue(p) ==
    /\ append(p)
    /\ state' = [state EXCEPT ![p] = "BLOCKED"]
    /\ UNCHANGED current

enqueue_timeout(p) ==
    /\ append(p)
    /\ state' = [state EXCEPT ![p] = "BLOCKED_TIMEOUT"]
    /\ UNCHANGED current

\* Mutant: the process is not unblocked.
dequeue_hint_NotUnblocked ==
    /\ IF head = tail
       THEN head' = nullptr /\ tail' = nullptr
       ELSE head' = next[head] /\ UNCHANGED tail
    /\ UNCHANGED <<next, cpuVars>>

\* unblock_process_hint: a process that runs keeps its state.
dequeue_hint ==
    /\ IF head = tail
       THEN head' = nullptr /\ tail' = nullptr
       ELSE head' = next[head] /\ UNCHANGED tail
    /\ state' = [state EXCEPT ![head] = IF @ = "RUNNING" THEN @ ELSE "READY"]
    /\ UNCHANGED <<next, current>>

\* Mutant: the nodes after the removed one are cut off.
remove_DropsRest(p) ==
    \/ /\ head = p
       /\ IF head = tail
          THEN head' = nullptr /\ tail' = nullptr
          ELSE head' = next[head] /\ UNCHANGED tail
       /\ UNCHANGED next
    \/ /\ head # p
       /\ \E node \in Range(Chain) :
            /\ next[node] = p
            /\ tail' = node
            /\ next' = [next EXCEPT ![node] = nullptr]
       /\ UNCHANGED head

\* When the last node of several is removed, tail is set to what follows it,
\* which is nothing.
remove(p) ==
    \/ /\ head = p
       /\ IF head = tail
          THEN head' = nullptr /\ tail' = nullptr
          ELSE head' = next[head] /\ UNCHANGED tail
       /\ UNCHANGED next
    \/ /\ head # p
       /\ \E node \in Range(Chain) :
            /\ next[node] = p
            /\ tail' = IF tail = p THEN next[p] ELSE tail
            /\ next' = [next EXCEPT ![node] = next[p]]
       /\ UNCHANGED head

-------------------------------------------------------------------------------
(***************************************************************************)
(* The kernel's condition variable (conc/condition_variable.cpp): a wait    *)
(* list under a spinlock.  A process that waits with a timeout is woken up  *)
(* by a notification or by the timer, and finds out which by looking        *)
(* whether it is still in the list.                                         *)
(***************************************************************************)

CONSTANTS
    Calls,          \* the functions that the processes call
    TailTimeouts    \* FALSE: the last of several processes in the list never
                    \* gets as far as to leave it after its timeout

VARIABLES
    spinlock,   \* the process that holds it, or idle
    timed       \* timed[p]: p is inside wait_for

vars == <<cpuVars, pc, spinlock, listVars, timed>>

Init ==
    /\ CpuInit
    /\ pc = [p \in Proc |-> "out"]
    /\ spinlock = idle
    /\ ListInit
    /\ timed = [p \in Proc |-> FALSE]

-----------------------------------------------------------------------------
\* The calls, up to the loop of the spinlock.  wait_for(0) returns at once.
call(p) ==
    /\ At(p, "out")
    /\ \E f \in Calls :
        /\ Goto(p, f)
        /\ timed' = [timed EXCEPT ![p] = f = "wait_for"]
    /\ UNCHANGED <<cpuVars, spinlock, listVars>>

spin(p, l, locked) == acquire_spin(spinlock, p, l, locked) /\ UNCHANGED <<listVars, timed>>

unspin(p, l, after) == release_spin(spinlock, p, l, after) /\ UNCHANGED <<listVars, timed>>

wait(p) ==
    \/ spin(p, "wait", "waiting")
    \/ /\ At(p, "waiting")
       /\ enqueue(p)
       /\ Goto(p, "queued")
       /\ UNCHANGED <<spinlock, timed>>
    \/ unspin(p, "queued", "resched")
    \/ /\ reschedule(p, IF timed[p] THEN "again" ELSE "out")
       /\ UNCHANGED <<spinlock, listVars, timed>>

\* The steps from the release of the spinlock to reschedule() are those of wait.
wait_for(p) ==
    \/ spin(p, "wait_for", "waiting_for")
    \/ /\ At(p, "waiting_for")
       /\ enqueue_timeout(p)
       /\ Goto(p, "queued")
       /\ UNCHANGED <<spinlock, timed>>
    \/ /\ TailTimeouts \/ tail # p \/ head = p
       /\ spin(p, "again", "woken")
    \/ /\ At(p, "woken")
       /\ waiting(p)
       /\ remove(p)
       /\ Goto(p, "removed")
       /\ UNCHANGED <<cpuVars, spinlock, timed>>
    \/ unspin(p, "removed", "return_false")
    \/ ~waiting(p) /\ unspin(p, "woken", "return_true")
    \/ /\ At(p, "return_true") \/ At(p, "return_false")
       /\ Goto(p, "out")
       /\ UNCHANGED <<cpuVars, spinlock, listVars, timed>>

notify_one(p) ==
    \/ spin(p, "notify_one", "notifying_one")
    \/ /\ At(p, "notifying_one")
       /\ IF empty THEN UNCHANGED <<cpuVars, listVars>> ELSE dequeue_hint
       /\ Goto(p, "notified")
       /\ UNCHANGED <<spinlock, timed>>
    \/ unspin(p, "notified", "out")

\* Mutant: only the first process is woken up.
notify_all_One(p) ==
    \/ spin(p, "notify_all", "notifying_all")
    \/ /\ At(p, "notifying_all")
       /\ IF empty THEN UNCHANGED <<cpuVars, listVars>> ELSE dequeue_hint
       /\ Goto(p, "notified_all")
       /\ UNCHANGED <<spinlock, timed>>
    \/ unspin(p, "notified_all", "out")

notify_all(p) ==
    \/ spin(p, "notify_all", "notifying_all")
    \/ /\ At(p, "notifying_all")
       /\ ~empty
       /\ dequeue_hint
       /\ UNCHANGED <<pc, spinlock, timed>>
    \/ /\ At(p, "notifying_all")
       /\ empty
       /\ Goto(p, "notified_all")
       /\ UNCHANGED <<cpuVars, spinlock, listVars, timed>>
    \/ unspin(p, "notified_all", "out")

\* The timer, which first makes READY the processes whose timeout is over.  A
\* process may well be woken up before it has executed its reschedule().
tick(expired, new) ==
    LET woken == [p \in Task |-> IF p \in expired THEN "READY" ELSE state[p]]
    IN /\ \A p \in expired : state[p] = "BLOCKED_TIMEOUT"
       /\ \/ Preempt(woken, new)
          \/ new = current /\ state' = woken /\ UNCHANGED current
       /\ UNCHANGED <<pc, spinlock, listVars, timed>>

Step(p) == call(p) \/ wait(p) \/ wait_for(p) \/ notify_one(p) \/ notify_all(p)

Next ==
    \/ \E expired \in SUBSET Proc, new \in Task : tick(expired, new)
    \/ \E p \in Proc : Step(p)

Spec == Init /\ [][Next]_vars

-----------------------------------------------------------------------------
(* Properties.                                                              *)

Sleeping == {"queued", "resched", "switch", "away"}

Places ==
    {"out", "again", "woken", "removed", "return_true", "return_false", "waiting",
     "waiting_for", "notifying_one", "notified", "notifying_all", "notified_all"}
    \cup Sleeping \cup {"wait", "wait_for", "notify_one", "notify_all"}

\* The condition variable and the links of its list keep their types.
TypeOK ==
    /\ state \in [Task -> {"READY", "RUNNING", "BLOCKED", "BLOCKED_TIMEOUT"}]
    /\ current \in Task
    /\ pc \in [Proc -> Places]
    /\ spinlock \in Task
    /\ head \in Proc \cup {nullptr}
    /\ tail \in Proc \cup {nullptr}
    /\ next \in [Proc -> Proc \cup {nullptr}]
    /\ timed \in [Proc -> BOOLEAN]

\* The pointers of the wait list implement a queue: enqueue appends, dequeue
\* takes the first node, remove takes out one node and keeps the others.
QueueNext ==
    \/ Chain # <<>> /\ Chain' = Tail(Chain)
    \/ \E p \in Proc : Chain' = Append(Chain, p) \/ Chain' = SelectSeq(Chain, LAMBDA q : q # p)

\* "Wake up all the processes from the queue": when notify_all() is done, no
\* process is still blocked in a wait.
NotifyAllWakesAll ==
    (\E p \in Proc : pc[p] = "notified_all") =>
        \A p \in Proc : pc[p] \in Sleeping => state[p] \notin {"BLOCKED", "BLOCKED_TIMEOUT"}

\* "Wait inside the queue until woken up": a process that is blocked is in the
\* list, where a notification can find it.
BlockedIsQueued == \A p \in Proc : state[p] = "BLOCKED" => waiting(p)

\* wait_for returns "true if the thread was woken up, false if the timeout is
\* passed", and decides by looking for itself in the list: so a process gets
\* out of the list only by a notification or by its own hand.
OutOnly ==
    \A p \in Proc : waiting(p) /\ ~waiting(p)' =>
        \/ At(p, "woken")
        \/ p = head /\ pc[current] \in {"notifying_one", "notifying_all"}
===============================================================================
