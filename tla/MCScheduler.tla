----------------------------- MODULE MCScheduler -----------------------------
(* Instances of Scheduler for TLC: what the programs call.  With one         *)
(* terminal the slots are 0 idle, 1 init, 2 gc, 3 post_init, 4.. users.      *)
EXTENDS Scheduler

\* Init tasks spawn; a user process p calls user[p].
Programs(user) ==
    [p \in Pid |-> CASE p \in init_pids -> {"exec"}
                     [] p = post_init_pid -> {"exit"}
                     [] p \in DOMAIN user -> user[p]
                     [] OTHER -> {}]

\* Every user process can do anything.
AnyProgram ==
    Programs([p \in user_pids |-> {"exec", "await", "sleep", "exit", "fault"}])

\* The first user process starts others in the background, all of them exit.
Background ==
    Programs([p \in user_pids |-> {"exit"} \cup
                (IF p = post_init_pid + 1 THEN {"exec"} ELSE {})])
=============================================================================
