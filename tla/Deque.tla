--------------------------------- MODULE Deque ---------------------------------
(* std::deque: blocks of block_elements cells, extended at either end; element i  *)
(* is cell first_element + i. The cell at index k of block b has number           *)
(* b * block_elements + k. seq is what each deque stands for.                     *)
EXTENDS Integers, Sequences, SequencesExt

CONSTANTS Values, block_elements,
          MaxSize, MaxBlocks    \* bounds

VARIABLES deq,          \* [cells, first, last, blocks, size] of each deque
          seq,          \* ghost
          astray        \* deques erased down to nothing: their indices are apart

vars == <<deq, seq, astray>>

Names == {"a", "b"}
Raw == 0

Empty == [cells |-> <<>>, first |-> 0, last |-> 0, blocks |-> 0, size |-> 0]

Init == /\ deq = [x \in Names |-> Empty]
        /\ seq = [x \in Names |-> <<>>]
        /\ astray = {}

BlocksFor(n) == (n + block_elements - 1) \div block_elements

Cells(n) == [i \in 0 .. n * block_elements - 1 |-> Raw]

(* Room for n more elements before the first: new blocks move every index         *)
ensure_capacity_front(d, n) ==
    IF d.first >= n THEN d
    ELSE IF d.blocks = 0
    THEN LET fresh == BlocksFor(n)
         IN [d EXCEPT !.cells = Cells(fresh), !.blocks = fresh,
                      !.first = fresh * block_elements - 1, !.last = fresh * block_elements - 1]
    ELSE LET more == BlocksFor(n - d.first)
             shift == more * block_elements
         IN [d EXCEPT !.cells = [i \in 0 .. (d.blocks + more) * block_elements - 1 |->
                                   IF i < shift THEN Raw ELSE d.cells[i - shift]],
                      !.blocks = @ + more, !.first = @ + shift, !.last = @ + shift]

ensure_capacity_back(d, n) ==
    LET room == IF d.blocks = 0 THEN 0 ELSE d.blocks * block_elements - 1 - d.last
    IN IF room >= n THEN d
       ELSE IF d.blocks = 0
       THEN [d EXCEPT !.cells = Cells(BlocksFor(n)), !.blocks = BlocksFor(n), !.first = 0, !.last = 0]
       ELSE LET more == BlocksFor(n - room)
            IN [d EXCEPT !.cells = [i \in 0 .. (d.blocks + more) * block_elements - 1 |->
                                      IF i < d.blocks * block_elements THEN d.cells[i] ELSE Raw],
                         !.blocks = @ + more]

Becomes(x, d, s) ==
    /\ d.blocks <= MaxBlocks
    /\ deq' = [deq EXCEPT ![x] = d]
    /\ seq' = [seq EXCEPT ![x] = s]
    /\ UNCHANGED astray

(* push_back and emplace_back: an empty deque takes the cell last_element itself  *)
push_back(x, e) ==
    LET d == ensure_capacity_back(deq[x], 1)
        place == IF d.size > 0 THEN d.last + 1 ELSE d.last
    IN /\ x \notin astray /\ deq[x].size < MaxSize
       /\ Becomes(x, [d EXCEPT !.cells[place] = e, !.last = place, !.size = @ + 1], Append(seq[x], e))

push_front(x, e) ==
    LET d == ensure_capacity_front(deq[x], 1)
        place == IF d.size > 0 THEN d.first - 1 ELSE d.first
    IN /\ x \notin astray /\ deq[x].size < MaxSize
       /\ Becomes(x, [d EXCEPT !.cells[place] = e, !.first = place, !.size = @ + 1], <<e>> \o seq[x])

(* The indices of a deque that pops its last element go back to 0                 *)
Popped_NoReset(d) == d

Popped(d) == IF d.size = 0 THEN [d EXCEPT !.first = 0, !.last = 0] ELSE d

pop_back(x) ==
    LET d == deq[x]
    IN /\ d.size > 0
       /\ Becomes(x, Popped([d EXCEPT !.cells[d.last] = Raw, !.size = @ - 1, !.last = @ - 1]), Front(seq[x]))

pop_front(x) ==
    LET d == deq[x]
    IN /\ d.size > 0
       /\ Becomes(x, Popped([d EXCEPT !.cells[d.first] = Raw, !.size = @ - 1, !.first = @ + 1]), Tail(seq[x]))

(* erase(first, last); erase(position) is the case of one element                 *)
erase(x, pos, n) ==
    LET d == deq[x]
        from == d.first + pos
    IN /\ n > 0 /\ pos + n <= d.size
       /\ deq' = [deq EXCEPT ![x] =
            [d EXCEPT !.cells = [i \in DOMAIN @ |->
                                   CASE i \in from .. d.last - n           -> @[i + n]
                                     [] i \in d.last - n + 1 .. d.last     -> Raw
                                     [] OTHER                              -> @[i]],
                      !.last = @ - n, !.size = @ - n]]
       /\ seq' = [seq EXCEPT ![x] = SubSeq(@, 1, pos) \o SubSeq(@, pos + n + 1, Len(@))]
       /\ astray' = IF n = d.size THEN astray \cup {x} ELSE astray

clear(x) ==
    LET d == deq[x]
    IN /\ deq' = [deq EXCEPT ![x] = [d EXCEPT !.cells = [i \in DOMAIN @ |-> IF i \in d.first .. d.last THEN Raw ELSE @[i]],
                                              !.first = 0, !.last = 0, !.size = 0]]
       /\ seq' = [seq EXCEPT ![x] = <<>>]
       /\ astray' = astray \ {x}

(* The move constructor and the move assignment                                   *)
move(x, y) ==
    /\ deq' = [deq EXCEPT ![x] = deq[y], ![y] = Empty]
    /\ seq' = [seq EXCEPT ![x] = seq[y], ![y] = <<>>]
    /\ astray' = IF y \in astray THEN {x} ELSE {}

Next ==
    \E x \in Names :
        \/ \E e \in Values : push_back(x, e) \/ push_front(x, e)
        \/ pop_back(x) \/ pop_front(x) \/ clear(x)
        \/ \E pos, n \in 0 .. MaxSize : erase(x, pos, n)
        \/ \E y \in Names \ {x} : move(x, y)

Spec == Init /\ [][Next]_vars

--------------------------------------------------------------------------------
at(d, i) == d.cells[d.first + i]
back(d) == d.cells[d.last]
front(d) == d.cells[d.first]

(* After any pushes and pops at both ends, across blocks added at either end, the *)
(* cells from first_element to last_element hold the elements in order and every  *)
(* other cell has been destructed, until erase removes the last element.          *)
DequeIsSequence ==
    \A x \in Names \ astray :
        LET d == deq[x]
        IN /\ d.size = Len(seq[x])
           /\ \A i \in 0 .. d.size - 1 : at(d, i) = seq[x][i + 1]
           /\ d.size > 0 => front(d) = Head(seq[x]) /\ back(d) = Last(seq[x])
           /\ \A i \in DOMAIN d.cells : d.cells[i] # Raw <=> d.size > 0 /\ i \in d.first .. d.last
================================================================================
