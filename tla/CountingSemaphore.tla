-------------------------- MODULE CountingSemaphore --------------------------
(* What a semaphore promises: lock() returns with a permit, try_lock() with *)
(* one or none, and a release of n permits makes exactly n of them          *)
(* available.                                                               *)
EXTENDS Naturals

CONSTANTS Proc, Initial, Amounts

VARIABLES
    permits,   \* the permits that can be taken, or are on the way to a sleeper
    asking,    \* the processes inside lock()
    trying,    \* the processes inside try_lock()
    pending    \* for each process, what is left of its release

vars == <<permits, asking, trying, pending>>

Init ==
    /\ permits = Initial
    /\ asking = {} /\ trying = {}
    /\ pending = [p \in Proc |-> 0]

Call(p) ==
    /\ p \notin asking \cup trying
    /\ pending[p] = 0
    /\ \/ asking' = asking \cup {p} /\ UNCHANGED <<trying, pending>>
       \/ trying' = trying \cup {p} /\ UNCHANGED <<asking, pending>>
       \/ /\ \E n \in Amounts : pending' = [pending EXCEPT ![p] = n]
          /\ UNCHANGED <<asking, trying>>
    /\ UNCHANGED permits

Take(p) ==
    /\ p \in asking \cup trying
    /\ permits > 0
    /\ permits' = permits - 1
    /\ asking' = asking \ {p}
    /\ trying' = trying \ {p}
    /\ UNCHANGED pending

Refuse(p) ==
    /\ p \in trying
    /\ trying' = trying \ {p}
    /\ UNCHANGED <<permits, asking, pending>>

Give(p) ==
    /\ \E n \in 1..pending[p] :
        /\ permits' = permits + n
        /\ pending' = [pending EXCEPT ![p] = @ - n]
    /\ UNCHANGED <<asking, trying>>

Next == \E p \in Proc : Call(p) \/ Take(p) \/ Refuse(p) \/ Give(p)

Spec == Init /\ [][Next]_vars
=============================================================================
