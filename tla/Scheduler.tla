------------------------------ MODULE Scheduler ------------------------------
(***************************************************************************)
(* The process scheduler of the kernel (kernel/src/scheduler.cpp), on its   *)
(* single CPU.                                                              *)
(*                                                                          *)
(* Only the process current_pid executes.  A step of it is a stretch of     *)
(* code in which no interrupt can change the outcome: a section under a     *)
(* direct_int_lock is one step, statements outside of one are separate      *)
(* steps.  The timer interrupt (tick) comes between any two steps, which is *)
(* where preemption happens.  A fault is handled with interrupts disabled,  *)
(* so that fault is one step up to the switch to another process.           *)
(*                                                                          *)
(* pc[p] is the place of p inside the scheduler's code, "run" when it is    *)
(* in its own code; op[p] the operation whose reschedule() p is in; arg[p]  *)
(* the local that holds a pid (the slot exec picked, the pid awaited, the   *)
(* parent gc found waiting).  panic is the message of the failed assertion  *)
(* that stopped the kernel, "none" while it runs.                           *)
(***************************************************************************)
EXTENDS Integers, Sequences, FiniteSets, FiniteSetsExt

CONSTANTS
    MAX_PROCESS,   \* number of process control blocks
    Terminals,     \* stdio::terminals_count(): one init task each
    rr_quantum,    \* ticks of a round-robin quantum
    SleepTicks,    \* timeouts, in ticks, that sleep_ms is called with
    Calls          \* what the program of each process calls

Pid == 0 .. MAX_PROCESS - 1
NoPid == MAX_PROCESS

MIN_PRIORITY == 1
DEFAULT_PRIORITY == 3
MAX_PRIORITY == 4
Priority == MIN_PRIORITY .. MAX_PRIORITY

\* The kernel tasks, in the order scheduler::init creates them.
idle_pid == 0
init_pids == 1 .. Terminals
gc_pid == Terminals + 1
post_init_pid == Terminals + 2
user_pids == post_init_pid + 1 .. MAX_PROCESS - 1

ASSUME SchedulerAssumption ==
    /\ Terminals \in Nat \ {0}
    /\ MAX_PROCESS \in Nat
    /\ MAX_PROCESS > Terminals + 3
    /\ rr_quantum \in Nat
    /\ SleepTicks \subseteq Nat \ {0}
    /\ Calls \in [Pid -> SUBSET {"exec", "await", "sleep", "exit", "fault"}]
    /\ \A p \in {idle_pid, gc_pid} : Calls[p] = {}
    /\ \A p \in init_pids : Calls[p] \subseteq {"exec"}
    /\ Calls[post_init_pid] = {"exit"}

process_state == {"EMPTY", "NEW", "READY", "RUNNING", "BLOCKED", "SLEEPING",
                  "WAITING", "KILLED", "BLOCKED_TIMEOUT"}

VARIABLES
    state,          \* pcb[p].state
    pid, ppid,      \* pcb[p].process.pid, .ppid
    priority,       \* pcb[p].process.priority
    rounds,         \* pcb[p].rounds
    sleep_timeout,  \* pcb[p].sleep_timeout
    run_queue,      \* the run queue of each priority
    current_pid, next_pid,
    pc, op, arg,    \* the control state of each process
    slot,           \* the process gc_task is looking at
    panic

pcbVars == <<pid, ppid, priority>>
clockVars == <<rounds, sleep_timeout>>
vars == <<state, pcbVars, clockVars, run_queue, current_pid, next_pid,
          pc, op, arg, slot, panic>>

-----------------------------------------------------------------------------
(* Choosing the next process and switching to it.  st is the state of every *)
(* process at that point of the handler.                                    *)

\* Mutant: a process that is still RUNNING is not looked for.
Runnable_OnlyReady(st, p) == st[p] = "READY"

Runnable(st, p) == st[p] \in {"READY", "RUNNING"}

\* The positions of run queue q whose process can run.
RunnableAt(st, q) == {i \in DOMAIN run_queue[q] : Runnable(st, run_queue[q][i])}

FirstOf(st, q) == run_queue[q][Min(RunnableAt(st, q))]

\* Mutant: the queue is always searched from its start.
NextOf_FromStart(st, q) == FirstOf(st, q)

\* Round robin: the first one after the current process, wrapping around.
NextOf(st, q) ==
    LET own == {i \in DOMAIN run_queue[q] : run_queue[q][i] = current_pid}
        after == {i \in RunnableAt(st, q) : own # {} /\ i > Min(own)}
    IN run_queue[q][Min(IF after # {} THEN after ELSE RunnableAt(st, q))]

select_next_process(st) ==
    LET current_priority == priority[current_pid]
        ready  == {q \in Priority : RunnableAt(st, q) # {}}
        higher == {q \in ready : q > current_priority}
    IN CASE higher # {} -> FirstOf(st, Max(higher))
         [] higher = {} /\ current_priority \in ready -> NextOf(st, current_priority)
         [] higher = {} /\ current_priority \notin ready /\ ready # {} -> FirstOf(st, Max(ready))
         [] OTHER -> NoPid

\* Mutant: the new process is not marked RUNNING.
switch_to_process_NotRunning(st, new) == current_pid' = new /\ state' = st

\* Nothing changes, not even the state, when the process is switched to itself.
switch_to_process(st, new) ==
    /\ current_pid' = new
    /\ state' = IF new = current_pid THEN st ELSE [st EXCEPT ![new] = "RUNNING"]

Panics(message) ==
    /\ panic' = message
    /\ UNCHANGED <<state, pcbVars, clockVars, run_queue, current_pid, next_pid,
                   pc, op, arg, slot>>

\* Selects a process with the states st and switches to it.
SelectAndSwitch(st) ==
    LET new == select_next_process(st)
    IN IF new = NoPid
       THEN /\ panic' = "No process is READY"
            /\ state' = st
            /\ UNCHANGED current_pid
       ELSE /\ switch_to_process(st, new)
            /\ UNCHANGED panic

-----------------------------------------------------------------------------
(* The timer interrupt.                                                     *)

Sleepers == {p \in Pid : state[p] \in {"SLEEPING", "BLOCKED_TIMEOUT"}}

\* The states once every sleep timeout that runs out has been handled.
Woken == [p \in Pid |-> IF p \in Sleepers /\ sleep_timeout[p] = 1
                        THEN "READY" ELSE state[p]]

\* A process that is preempted is READY unless it is blocked.
Preempted(woken) ==
    IF woken[current_pid] \in {"BLOCKED", "BLOCKED_TIMEOUT"}
    THEN woken
    ELSE [woken EXCEPT ![current_pid] = "READY"]

Preempt(woken) ==
    /\ rounds[current_pid] = rr_quantum
    /\ rounds' = [rounds EXCEPT ![current_pid] = 0]
    /\ LET preempted == Preempted(woken)
       IN IF select_next_process(preempted) = current_pid
          THEN state' = woken /\ UNCHANGED <<current_pid, panic>>
          ELSE SelectAndSwitch(preempted)

NextRound(woken) ==
    /\ rounds[current_pid] # rr_quantum
    /\ rounds' = [rounds EXCEPT ![current_pid] = @ + 1]
    /\ state' = woken
    /\ UNCHANGED <<current_pid, panic>>

\* The interrupt also takes the idle task out of its hlt.
tick ==
    /\ panic = "none"
    /\ sleep_timeout' = [p \in Pid |-> IF p \in Sleepers THEN sleep_timeout[p] - 1
                                       ELSE sleep_timeout[p]]
    /\ Preempt(Woken) \/ NextRound(Woken)
    /\ pc' = IF pc[current_pid] = "hlt" THEN [pc EXCEPT ![current_pid] = "yield"] ELSE pc
    /\ UNCHANGED <<pcbVars, run_queue, next_pid, op, arg, slot>>

-----------------------------------------------------------------------------
(* Steps of the current process.                                            *)

\* p executes at the place l.
At(p, l) == panic = "none" /\ p = current_pid /\ pc[p] = l

Goto(p, l) == pc' = [pc EXCEPT ![p] = l]

\* reschedule() looks at the state before it takes the lock.
Return == [sleep |-> "run", await |-> "await", gc |-> "scan", kill |-> "dead"]

reschedule(p) ==
    /\ At(p, "resched")
    /\ Goto(p, IF state[p] # "RUNNING" THEN "switch" ELSE Return[op[p]])
    /\ UNCHANGED <<state, pcbVars, clockVars, run_queue, current_pid, next_pid,
                   op, arg, slot, panic>>

reschedule_switch(p) ==
    /\ At(p, "switch")
    /\ SelectAndSwitch(state)
    /\ Goto(p, Return[op[p]])
    /\ UNCHANGED <<pcbVars, clockVars, run_queue, next_pid, op, arg, slot>>

\* The idle task: hlt until an interrupt comes, then yield().
yield(p) ==
    /\ At(p, "yield")
    /\ \/ /\ state[p] # "RUNNING"
          /\ Panics("Can only yield() running processes")
       \/ /\ state[p] = "RUNNING"
          /\ state' = [state EXCEPT ![p] = "READY"]
          /\ Goto(p, "yield_lock")
          /\ UNCHANGED <<pcbVars, clockVars, run_queue, current_pid, next_pid,
                         op, arg, slot, panic>>

yield_lock(p) ==
    /\ At(p, "yield_lock")
    /\ IF select_next_process(state) = p
       THEN state' = [state EXCEPT ![p] = "RUNNING"] /\ UNCHANGED <<current_pid, panic>>
       ELSE SelectAndSwitch(state)
    /\ Goto(p, "hlt")
    /\ UNCHANGED <<pcbVars, clockVars, run_queue, next_pid, op, arg, slot>>

sleep_ms(p) ==
    /\ At(p, "run") /\ "sleep" \in Calls[p]
    /\ \/ /\ state[p] # "RUNNING"
          /\ Panics("Only RUNNING processes can sleep")
       \/ /\ state[p] = "RUNNING"
          /\ \E ticks \in SleepTicks :
                sleep_timeout' = [sleep_timeout EXCEPT ![p] = ticks]
          /\ state' = [state EXCEPT ![p] = "SLEEPING"]
          /\ Goto(p, "resched")
          /\ op' = [op EXCEPT ![p] = "sleep"]
          /\ UNCHANGED <<pcbVars, rounds, run_queue, current_pid, next_pid,
                         arg, slot, panic>>

-----------------------------------------------------------------------------
(* Termination of a process and the parent that awaits it.                  *)

\* Mutant: the parent is not notified.
KilledBy_NoNotify(p) ==
    [q \in Pid |-> IF q = p THEN "KILLED"
                   ELSE IF q = gc_pid /\ state[q] = "BLOCKED" THEN "READY" ELSE state[q]]

\* The parent of p, if it is waiting, and gc, if it is blocked, are unblocked.
KilledBy(p) ==
    LET woken == {q \in Pid \ {p} : pid[q] = ppid[p] /\ state[q] = "WAITING"}
                 \cup {q \in {gc_pid} : state[q] = "BLOCKED"}
    IN [q \in Pid |-> IF q = p THEN "KILLED"
                      ELSE IF q \in woken THEN "READY" ELSE state[q]]

kill_current_process(p) ==
    /\ At(p, "run") /\ "exit" \in Calls[p]
    /\ state' = KilledBy(p)
    /\ Goto(p, "resched")
    /\ op' = [op EXCEPT ![p] = "kill"]
    /\ UNCHANGED <<pcbVars, clockVars, run_queue, current_pid, next_pid, arg, slot, panic>>

killed_process_run(p) ==
    /\ At(p, "dead")
    /\ Panics("A killed process has been run!")

\* The init task that could not run its shell returns from its function, to
\* wherever its stack says, and faults.
MayFault(p) ==
    \/ pc[p] = "run" /\ "fault" \in Calls[p]
    \/ pc[p] = "returned"

fault(p) ==
    /\ panic = "none" /\ p = current_pid /\ MayFault(p)
    /\ SelectAndSwitch(KilledBy(p))
    /\ Goto(p, "dead")
    /\ op' = [op EXCEPT ![p] = "kill"]
    /\ UNCHANGED <<pcbVars, clockVars, run_queue, next_pid, arg, slot>>

await_call(p) ==
    /\ At(p, "run") /\ "await" \in Calls[p]
    /\ \E c \in Pid : arg' = [arg EXCEPT ![p] = c]
    /\ Goto(p, "await")
    /\ UNCHANGED <<state, pcbVars, clockVars, run_queue, current_pid, next_pid,
                   op, slot, panic>>

\* The slots that await_termination(c) finds; at most the first is looked at.
Awaited(p, c) == {q \in Pid : ppid[q] = p /\ pid[q] = c}

\* Mutant: the test for a terminated process is inverted.
StillAlive_Inverted(p, c) ==
    /\ Awaited(p, c) # {}
    /\ state[Min(Awaited(p, c))] \in {"KILLED", "EMPTY"}

\* A terminated process is not waited for.
StillAlive(p, c) ==
    /\ Awaited(p, c) # {}
    /\ state[Min(Awaited(p, c))] \notin {"KILLED", "EMPTY"}

await_termination(p) ==
    /\ At(p, "await")
    /\ IF StillAlive(p, arg[p])
       THEN /\ state' = [state EXCEPT ![p] = "WAITING"]
            /\ Goto(p, "resched")
            /\ op' = [op EXCEPT ![p] = "await"]
            /\ UNCHANGED arg
       ELSE /\ Goto(p, "run")
            /\ arg' = [arg EXCEPT ![p] = NoPid]
            /\ UNCHANGED <<state, op>>
    /\ UNCHANGED <<pcbVars, clockVars, run_queue, current_pid, next_pid, slot, panic>>

-----------------------------------------------------------------------------
(* exec: a free slot is picked without any lock, filled, and queued.        *)

\* Reading the file and checking it changes nothing here, and may fail.
exec(p) ==
    /\ At(p, "run") /\ "exec" \in Calls[p]
    /\ \/ Goto(p, "pick")
       \/ p \in init_pids /\ Goto(p, "returned")
    /\ UNCHANGED <<state, pcbVars, clockVars, run_queue, current_pid, next_pid,
                   op, arg, slot, panic>>

\* Mutant: the slot after next_pid is taken whatever its state.
Scan_AnySlot == 1 .. MAX_PROCESS

\* The first EMPTY slot from next_pid + 1 on, wrapping around.
Scan == {i \in 1 .. MAX_PROCESS : state[(next_pid + i) % MAX_PROCESS] = "EMPTY"}

get_free_pid(p) ==
    /\ At(p, "pick")
    /\ \/ /\ state[next_pid] = "EMPTY"
          /\ Goto(p, "pick_next")
          /\ UNCHANGED <<arg, panic>>
       \/ /\ state[next_pid] # "EMPTY" /\ Scan # {}
          /\ arg' = [arg EXCEPT ![p] = (next_pid + Min(Scan)) % MAX_PROCESS]
          /\ Goto(p, "pick_found")
          /\ UNCHANGED panic
       \/ /\ state[next_pid] # "EMPTY" /\ Scan = {}
          /\ panic' = "Ran out of processes"
          /\ UNCHANGED <<pc, arg>>
    /\ UNCHANGED <<state, pcbVars, clockVars, run_queue, current_pid, next_pid, op, slot>>

\* next_pid is read again once it has been seen to be free.
get_free_pid_take(p) ==
    /\ At(p, "pick_next")
    /\ arg' = [arg EXCEPT ![p] = next_pid]
    /\ Goto(p, "pick_bump")
    /\ UNCHANGED <<state, pcbVars, clockVars, run_queue, current_pid, next_pid, op, slot, panic>>

\* Mutant: next_pid does not wrap around.
get_free_pid_bump_NoWrap(p) ==
    /\ \/ At(p, "pick_bump") /\ next_pid' = next_pid + 1
       \/ At(p, "pick_found") /\ next_pid' = arg[p] + 1
    /\ Goto(p, "new")
    /\ UNCHANGED <<state, pcbVars, clockVars, run_queue, current_pid, op, arg, slot, panic>>

get_free_pid_bump(p) ==
    /\ \/ At(p, "pick_bump") /\ next_pid' = (next_pid + 1) % MAX_PROCESS
       \/ At(p, "pick_found") /\ next_pid' = (arg[p] + 1) % MAX_PROCESS
    /\ Goto(p, "new")
    /\ UNCHANGED <<state, pcbVars, clockVars, run_queue, current_pid, op, arg, slot, panic>>

new_process(p) ==
    /\ At(p, "new")
    /\ pid' = [pid EXCEPT ![arg[p]] = arg[p]]
    /\ ppid' = [ppid EXCEPT ![arg[p]] = p]
    /\ priority' = [priority EXCEPT ![arg[p]] = DEFAULT_PRIORITY]
    /\ state' = [state EXCEPT ![arg[p]] = "NEW"]
    /\ Goto(p, "paging")
    /\ UNCHANGED <<clockVars, run_queue, current_pid, next_pid, op, arg, slot, panic>>

\* The NEW slot is left behind when the kernel stack cannot be mapped.
create_paging(p) ==
    /\ At(p, "paging")
    /\ \/ Goto(p, "ready") /\ UNCHANGED arg
       \/ /\ Goto(p, IF p \in init_pids THEN "returned" ELSE "run")
          /\ arg' = [arg EXCEPT ![p] = NoPid]
    /\ UNCHANGED <<state, pcbVars, clockVars, run_queue, current_pid, next_pid, op, slot, panic>>

queue_process(p) ==
    /\ At(p, "ready")
    /\ state' = [state EXCEPT ![arg[p]] = "READY"]
    /\ Goto(p, "push")
    /\ UNCHANGED <<pcbVars, clockVars, run_queue, current_pid, next_pid, op, arg, slot, panic>>

\* An init task goes on to await the shell it has started.
queue_process_push(p) ==
    /\ At(p, "push")
    /\ run_queue' = [run_queue EXCEPT ![priority[arg[p]]] = Append(@, arg[p])]
    /\ pc' = [pc EXCEPT ![p] = IF p \in init_pids THEN "await" ELSE "run",
                        ![arg[p]] = "run"]
    /\ arg' = IF p \in init_pids THEN arg ELSE [arg EXCEPT ![p] = NoPid]
    /\ UNCHANGED <<state, pcbVars, clockVars, current_pid, next_pid, op, slot, panic>>

-----------------------------------------------------------------------------
(* gc_task: blocks until a process is killed, then cleans every slot that   *)
(* it finds KILLED.                                                         *)

gc_block(p) ==
    /\ At(p, "block")
    /\ state' = [state EXCEPT ![p] = "BLOCKED"]
    /\ Goto(p, "resched")
    /\ op' = [op EXCEPT ![p] = "gc"]
    /\ UNCHANGED <<pcbVars, clockVars, run_queue, current_pid, next_pid, arg, slot, panic>>

\* The scan goes on to the next KILLED slot, or to the end.
gc_scan(p) ==
    /\ At(p, "scan")
    /\ LET killed == {s \in slot .. MAX_PROCESS - 1 : state[s] = "KILLED"}
       IN \/ /\ killed # {}
             /\ slot' = Min(killed)
             /\ Goto(p, "notify")
          \/ /\ killed = {}
             /\ slot' = 0
             /\ Goto(p, "block")
    /\ UNCHANGED <<state, pcbVars, clockVars, run_queue, current_pid, next_pid, op, arg, panic>>

WaitingParent(s) == {q \in Pid : pid[q] = ppid[s] /\ state[q] = "WAITING"}

\* The test that the parent is waiting and the unblock are not under a lock.
gc_notify(p) ==
    /\ At(p, "notify")
    /\ \/ /\ WaitingParent(slot) # {}
          /\ \E q \in WaitingParent(slot) : arg' = [arg EXCEPT ![p] = q]
          /\ Goto(p, "unblock")
       \/ /\ WaitingParent(slot) = {}
          /\ Goto(p, "erase")
          /\ UNCHANGED arg
    /\ UNCHANGED <<state, pcbVars, clockVars, run_queue, current_pid, next_pid, op, slot, panic>>

gc_unblock(p) ==
    /\ At(p, "unblock")
    /\ \/ /\ state[arg[p]] \notin {"BLOCKED", "BLOCKED_TIMEOUT", "WAITING"}
          /\ Panics("Can only unblock BLOCKED/WAITING processes")
       \/ /\ state[arg[p]] \in {"BLOCKED", "BLOCKED_TIMEOUT", "WAITING"}
          /\ state' = [state EXCEPT ![arg[p]] = "READY"]
          /\ arg' = [arg EXCEPT ![p] = NoPid]
          /\ Goto(p, "erase")
          /\ UNCHANGED <<pcbVars, clockVars, run_queue, current_pid, next_pid, op, slot, panic>>

\* Mutant: the entry after the slot's own one is erased.
EraseFirst_OffByOne(q, e) ==
    LET at == {i \in DOMAIN q : q[i] = e}
    IN IF at = {} \/ Min(at) = Len(q) THEN q
       ELSE SubSeq(q, 1, Min(at)) \o SubSeq(q, Min(at) + 2, Len(q))

\* The first entry of the slot's pid is erased from its run queue.
EraseFirst(q, e) ==
    LET at == {i \in DOMAIN q : q[i] = e}
    IN IF at = {} THEN q
       ELSE SubSeq(q, 1, Min(at) - 1) \o SubSeq(q, Min(at) + 1, Len(q))

gc_erase(p) ==
    /\ At(p, "erase")
    /\ run_queue' = [run_queue EXCEPT ![priority[slot]] = EraseFirst(@, pid[slot])]
    /\ Goto(p, "clean")
    /\ UNCHANGED <<state, pcbVars, clockVars, current_pid, next_pid, op, arg, slot, panic>>

gc_clean(p) ==
    /\ At(p, "clean")
    /\ pid' = [pid EXCEPT ![slot] = 0]
    /\ ppid' = [ppid EXCEPT ![slot] = 0]
    /\ Goto(p, "release")
    /\ UNCHANGED <<state, priority, clockVars, run_queue, current_pid, next_pid, op, arg, slot, panic>>

gc_release(p) ==
    /\ At(p, "release")
    /\ state' = [state EXCEPT ![slot] = "EMPTY"]
    /\ slot' = slot + 1
    /\ Goto(p, "scan")
    /\ UNCHANGED <<pcbVars, clockVars, run_queue, current_pid, next_pid, op, arg, panic>>

-----------------------------------------------------------------------------
(* The system, from scheduler::start on.                                    *)

Boot(p) == p <= post_init_pid

Init ==
    /\ state = [p \in Pid |-> IF p = post_init_pid THEN "RUNNING"
                              ELSE IF Boot(p) THEN "READY" ELSE "EMPTY"]
    /\ pid = [p \in Pid |-> IF Boot(p) THEN p ELSE 0]
    /\ ppid = [p \in Pid |-> 0]
    /\ priority = [p \in Pid |->
                     CASE p = idle_pid -> MIN_PRIORITY
                       [] p \in init_pids \cup {gc_pid} -> MIN_PRIORITY + 1
                       [] p = post_init_pid -> MAX_PRIORITY
                       [] OTHER -> DEFAULT_PRIORITY]
    /\ rounds = [p \in Pid |-> 0]
    /\ sleep_timeout = [p \in Pid |-> 0]
    /\ run_queue = [q \in Priority |->
                      CASE q = MIN_PRIORITY -> <<idle_pid>>
                        [] q = MIN_PRIORITY + 1 -> [i \in 1 .. gc_pid |-> i]
                        [] q = MAX_PRIORITY -> <<post_init_pid>>
                        [] OTHER -> <<>>]
    /\ current_pid = post_init_pid
    /\ next_pid = post_init_pid + 1
    /\ pc = [p \in Pid |-> CASE p = idle_pid -> "hlt"
                             [] p = gc_pid -> "block"
                             [] OTHER -> "run"]
    /\ op = [p \in Pid |-> "none"]
    /\ arg = [p \in Pid |-> NoPid]
    /\ slot = 0
    /\ panic = "none"

exec_step(p) ==
    \/ exec(p) \/ get_free_pid(p) \/ get_free_pid_take(p) \/ get_free_pid_bump(p)
    \/ new_process(p) \/ create_paging(p) \/ queue_process(p) \/ queue_process_push(p)

gc_task(p) ==
    \/ gc_block(p) \/ gc_scan(p) \/ gc_notify(p) \/ gc_unblock(p)
    \/ gc_erase(p) \/ gc_clean(p) \/ gc_release(p)

Step(p) ==
    \/ reschedule(p) \/ reschedule_switch(p)
    \/ yield(p) \/ yield_lock(p)
    \/ sleep_ms(p)
    \/ kill_current_process(p) \/ killed_process_run(p) \/ fault(p)
    \/ await_call(p) \/ await_termination(p)
    \/ exec_step(p)
    \/ gc_task(p)

\* suspend_kernel(): the CPU halts with interrupts disabled.
suspend_kernel == panic # "none" /\ UNCHANGED vars

Next == tick \/ (\E p \in {current_pid} : Step(p)) \/ suspend_kernel

Spec == Init /\ [][Next]_vars

(* The timer keeps interrupting, and a process that gets the CPU again and  *)
(* again eventually executes the next statement of the kernel's code: a     *)
(* quantum is 25 milliseconds.  What a user process does in its own code is *)
(* not constrained.                                                         *)
KernelCode(p) == pc[p] # "run" \/ p \notin user_pids

-----------------------------------------------------------------------------
(* Properties.                                                              *)

Places == {"run", "hlt", "yield", "yield_lock", "resched", "switch", "dead",
           "returned", "await", "pick", "pick_next", "pick_bump", "pick_found",
           "new", "paging", "ready", "push",
           "block", "scan", "notify", "unblock", "erase", "clean", "release"}

Messages == {"none", "No process is READY", "Can only yield() running processes",
             "Only RUNNING processes can sleep", "A killed process has been run!",
             "Ran out of processes", "Can only unblock BLOCKED/WAITING processes"}

\* Every field of the pcb array and of the scheduler's globals keeps its type.
TypeOK ==
    /\ state \in [Pid -> process_state]
    /\ pid \in [Pid -> Pid]
    /\ ppid \in [Pid -> Pid]
    /\ priority \in [Pid -> Priority]
    /\ rounds \in [Pid -> 0 .. rr_quantum]
    /\ sleep_timeout \in [Pid -> Nat]
    /\ run_queue \in [Priority -> Seq(Pid)]
    /\ current_pid \in Pid
    /\ next_pid \in Pid
    /\ pc \in [Pid -> Places]
    /\ op \in [Pid -> {"none", "sleep", "await", "gc", "kill"}]
    /\ arg \in [Pid -> Pid \cup {NoPid}]
    /\ slot \in 0 .. MAX_PROCESS
    /\ panic \in Messages

\* select_next_process_with_lock always finds a process: the thor_unreachable
\* "No process is READY" at its end is unreachable, whatever blocks, dies or is
\* cleaned meanwhile.
SelectAlwaysFinds == panic # "No process is READY"

\* yield() is only entered RUNNING: the idle task never trips the assertion
\* "Can only yield() running processes", however ticks fall around its hlt and
\* inside its previous yield().
YieldOnlyRunning == panic # "Can only yield() running processes"

\* await_termination never sleeps through the death of the child: a process
\* that is WAITING for c, its child, waits for a process that is still there to
\* wake it up when it dies.
AwaitNeverMissesKill ==
    \A p, c \in Pid :
        (state[p] = "WAITING" /\ arg[p] = c /\ ppid[c] = p /\ pid[c] = c)
            => state[c] \notin {"KILLED", "EMPTY"}

\* p is in the run queue of priority q.
InQueue(p, q) == \E i \in DOMAIN run_queue[q] : run_queue[q][i] = p

\* p is not, or not yet, or no longer, queued.
Unqueued(p) ==
    \/ state[p] \in {"EMPTY", "NEW"}
    \/ \E q \in Pid : pc[q] = "push" /\ arg[q] = p
    \/ slot = p /\ pc[gc_pid] \in {"clean", "release"}

\* Every live process is in the run queue of its priority, once, and nothing
\* else is in a run queue, through exec, kill and the cleaning of gc_task: a
\* process missing from it never runs again, and one entered twice outlives
\* its slot.
RunQueuesExact ==
    /\ \A q \in Priority : \A i, j \in DOMAIN run_queue[q] :
          run_queue[q][i] = run_queue[q][j] => i = j
    /\ \A p \in Pid, q \in Priority :
          InQueue(p, q) <=> (~Unqueued(p) /\ q = priority[p])

\* exec only ever takes an EMPTY slot: get_free_pid chose it several
\* statements, and possibly several preemptions, before new_process fills it.
OnlyEmptySlotsTaken ==
    [][\A p \in Pid : (state'[p] = "NEW" /\ state[p] # "NEW") => state[p] = "EMPTY"]_vars

\* A process that is READY while no process of a higher priority can run does
\* not stay without the CPU: the round robin of select_next_process_with_lock
\* reaches it.
Served(p) ==
    \/ state[p] # "READY"
    \/ current_pid = p
    \/ \E q \in Pid : priority[q] > priority[p] /\ Runnable(state, q)
    \/ panic # "none"

-----------------------------------------------------------------------------
(* The inductive invariant behind SelectAlwaysFinds, YieldOnlyRunning,      *)
(* AwaitNeverMissesKill and RunQueuesExact.  It holds as long as the calls  *)
(* to exec do not overlap (OneExec): get_free_pid takes no lock, and two of *)
(* them can end up with the same slot, or with one that is in use.          *)

IdlePlaces == {"hlt", "yield", "yield_lock"}
CleaningPlaces == {"notify", "unblock", "erase", "clean", "release"}
GcPlaces == {"block", "scan"} \cup CleaningPlaces
FillPlaces == {"pick_bump", "pick_found", "new", "paging", "ready", "push"}
ExecPlaces == {"pick", "pick_next"} \cup FillPlaces

\* At most one process is inside exec: init_task does not run another shell
\* before await_termination tells that the last one is gone, and no two
\* processes start a program at the same time.
OneExec == \A p, q \in Pid : (pc[p] \in ExecPlaces /\ pc[q] \in ExecPlaces) => p = q

\* Every process executes the code of its own task.
CodeOfTask ==
    /\ pc[idle_pid] \in IdlePlaces
    /\ pc[gc_pid] \in GcPlaces \cup {"resched", "switch"}
    /\ \A p \in Pid \ {idle_pid, gc_pid} : pc[p] \notin IdlePlaces \cup GcPlaces
    /\ \A p \in Pid : pc[p] \in {"resched", "switch"} =>
          IF p = gc_pid THEN op[p] = "gc" ELSE op[p] \in {"sleep", "await", "kill"}

\* The idle task stays at the lowest priority, READY or RUNNING, and is RUNNING
\* whenever it is about to yield.
IdleReady ==
    /\ state[idle_pid] \in {"READY", "RUNNING"}
    /\ priority[idle_pid] = MIN_PRIORITY
    /\ (current_pid = idle_pid /\ pc[idle_pid] # "yield_lock") => state[idle_pid] = "RUNNING"

\* gc_task is never killed, and what it cleans is a killed process that no one
\* can switch to.
GcClean ==
    /\ state[gc_pid] \in {"READY", "RUNNING", "BLOCKED"}
    /\ pc[gc_pid] \in CleaningPlaces => /\ slot \in Pid
                                        /\ state[slot] = "KILLED"
                                        /\ slot # current_pid
    /\ pc[gc_pid] = "unblock" => arg[gc_pid] \in Pid
    /\ pc[gc_pid] = "release" => pid[slot] = 0 /\ ppid[slot] = 0

\* The slot exec has picked is EMPTY until new_process takes it.
PickedFree ==
    \A p \in Pid :
        /\ pc[p] = "pick_next" => state[next_pid] = "EMPTY"
        /\ pc[p] \in FillPlaces => arg[p] \in Pid \ {idle_pid, gc_pid}
        /\ pc[p] \in {"pick_bump", "pick_found", "new"} => state[arg[p]] = "EMPTY"
        /\ pc[p] \in {"paging", "ready"} => state[arg[p]] = "NEW"
        /\ pc[p] = "push" => state[arg[p]] = "READY" /\ arg[p] # current_pid

\* The pcb of a process carries its own pid, and that of a free slot none.
PidOfSlot ==
    \A p \in Pid :
        /\ pid[p] = p \/ (pid[p] = 0 /\ ppid[p] = 0)
        /\ (state[p] # "EMPTY" /\ ~(pc[gc_pid] = "release" /\ slot = p)) => pid[p] = p

\* The process that executes exists, and a WAITING process is inside
\* await_termination, with the CPU only until it reschedules.
WaitersAwait ==
    /\ state[current_pid] \notin {"EMPTY", "NEW"}
    /\ ppid[idle_pid] = 0
    /\ \A p \in Pid : state[p] = "WAITING" =>
          \/ pc[p] \in {"resched", "switch"} /\ op[p] = "await"
          \/ pc[p] = "await" /\ p # current_pid

\* A process that sleeps has some of its timeout left: it never wraps around.
SleepersTimed == \A p \in Sleepers : sleep_timeout[p] > 0

\* SelectAlwaysFinds, YieldOnlyRunning, AwaitNeverMissesKill and RunQueuesExact
\* with all they rest on: what exec, kill, gc_task, await_termination and the
\* idle task rely on of each other between two of their steps.
IInv ==
    /\ TypeOK
    /\ CodeOfTask
    /\ IdleReady
    /\ GcClean
    /\ PickedFree
    /\ PidOfSlot
    /\ WaitersAwait
    /\ SleepersTimed
    /\ SelectAlwaysFinds
    /\ YieldOnlyRunning
    /\ AwaitNeverMissesKill
    /\ RunQueuesExact

-----------------------------------------------------------------------------
(* What comments, documentation and assertions say, and the code does not   *)
(* keep.                                                                    *)

\* kill_current_process ends with thor_unreachable("A killed process has been
\* run!").
KilledNeverRuns == panic # "A killed process has been run!"
=============================================================================
