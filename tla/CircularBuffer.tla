---------------------------- MODULE CircularBuffer ----------------------------
(* circular_buffer<T, S>: the ring between an interrupt handler that pushes   *)
(* and a thread that pops (keyboard, mouse and network drivers), and, when one *)
(* thread owns it, the line being edited (pop_last, contains, replace). queue  *)
(* is what the ring stands for.                                                *)
EXTENDS Integers, Sequences, SequencesExt

CONSTANTS S,            \* the capacity
          Values,
          Shared        \* a handler pushes while a thread pops

VARIABLES buffer, start, end,
          popping,      \* the value a thread has read in pop, before it moves start
          queue         \* ghost: the values in the ring, oldest first

vars == <<buffer, start, end, popping, queue>>

None == "none"

Size == S + 1

Init == /\ buffer = [i \in 0 .. Size - 1 |-> None]
        /\ start = 0 /\ end = 0
        /\ popping = None
        /\ queue = <<>>

(* Plausible bug: every slot is used, and a full ring looks empty                *)
full_AllSlots == FALSE

full == (end + 1) % Size = start

empty == end = start

(* The handler runs with interrupts disabled: a push is one step, at any point *)
(* of the thread's pop.                                                        *)
push(v) ==
    /\ IF full
       THEN UNCHANGED <<buffer, end, queue>>
       ELSE /\ buffer' = [buffer EXCEPT ![end] = v]
            /\ end' = (end + 1) % Size
            /\ queue' = Append(queue, v)
    /\ UNCHANGED <<start, popping>>

(* pop, for a caller that has seen ~empty: the value is read, then start moves *)
pop ==
    /\ popping = None /\ ~empty
    /\ popping' = buffer[start]
    /\ UNCHANGED <<buffer, start, end, queue>>

popped ==
    /\ popping # None
    /\ start' = (start + 1) % Size
    /\ queue' = Tail(queue)
    /\ popping' = None
    /\ UNCHANGED <<buffer, end>>

pop_last ==
    /\ ~Shared /\ popping = None /\ ~empty
    /\ end' = IF end = 0 THEN Size - 1 ELSE end - 1
    /\ queue' = Front(queue)
    /\ UNCHANGED <<buffer, start, popping>>

(* The slots from start up to end, in the order a loop over them meets them    *)
Slots == [k \in 1 .. (end - start + Size) % Size |-> (start + k - 1) % Size]

contains(v) == \E k \in DOMAIN Slots : buffer[Slots[k]] = v

replace(v, w) ==
    LET found == SelectInSeq(Slots, LAMBDA i : buffer[i] = v)
        place == SelectInSeq(queue, LAMBDA x : x = v)
    IN /\ ~Shared /\ popping = None
       /\ buffer' = IF found = 0 THEN buffer ELSE [buffer EXCEPT ![Slots[found]] = w]
       /\ queue' = IF place = 0 THEN queue ELSE [queue EXCEPT ![place] = w]
       /\ UNCHANGED <<start, end, popping>>

Next == \/ \E v \in Values : push(v)
        \/ pop
        \/ popped
        \/ pop_last
        \/ \E v, w \in Values : replace(v, w)

Spec == Init /\ [][Next]_vars

(* The slots from start to end hold the queue in order, whatever the handler    *)
(* pushes between the two halves of a pop; a pop gives the oldest value; the    *)
(* ring is full exactly when it holds S values; contains answers for the queue. *)
RingIsQueue ==
    /\ [k \in DOMAIN Slots |-> buffer[Slots[k]]] = queue
    /\ popping # None => popping = Head(queue)
    /\ full = (Len(queue) = S)
    /\ \A v \in Values : contains(v) = (v \in ToSet(queue))
===============================================================================
