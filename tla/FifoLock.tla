------------------------------ MODULE FifoLock ------------------------------
(* What a mutex promises: one owner at a time, and the processes that have  *)
(* to wait are served in the order in which they came.                      *)
EXTENDS Sequences

CONSTANTS Proc, idle

VARIABLES owner, waiting

vars == <<owner, waiting>>

Init == owner = idle /\ waiting = <<>>

Enter(p) ==
    /\ owner = idle /\ waiting = <<>>
    /\ owner' = p
    /\ UNCHANGED waiting

Wait(p) ==
    /\ owner # idle \/ waiting # <<>>
    /\ waiting' = Append(waiting, p)
    /\ UNCHANGED owner

Serve ==
    /\ owner = idle /\ waiting # <<>>
    /\ owner' = Head(waiting)
    /\ waiting' = Tail(waiting)

Leave ==
    /\ owner # idle
    /\ owner' = idle
    /\ UNCHANGED waiting

Next == (\E p \in Proc : Enter(p) \/ Wait(p)) \/ Serve \/ Leave

Spec == Init /\ [][Next]_vars
=============================================================================
