-------------------------------- MODULE Vector --------------------------------
(* std::vector: a sequence in an array that grows, with placement construction   *)
(* and explicit destruction of its cells. Two vectors are copied and moved from   *)
(* one to the other. seq is what each of them stands for.                         *)
EXTENDS Integers, Sequences, SequencesExt

CONSTANTS Values,
          MaxSize       \* bound: elements asked of a vector

VARIABLES vec,          \* [data, size, capacity] of each vector
          seq           \* ghost

vars == <<vec, seq>>

Names == {"a", "b"}
Null == <<>>              \* nullptr: an array without cells
Raw == 0                \* a cell without an object
Zero == CHOOSE v \in Values : \A w \in Values : v <= w   \* value_type()

allocate(n) == [i \in 0 .. n - 1 |-> Raw]

Empty == [data |-> Null, size |-> 0, capacity |-> 0]

Init == /\ vec = [x \in Names |-> Empty]
        /\ seq = [x \in Names |-> <<>>]

(* The cells of d after those of the set where have been destructed              *)
Destructed(d, where) == [i \in DOMAIN d |-> IF i \in where THEN Raw ELSE d[i]]

ensure_capacity_Forgets(v, n) ==
    IF v.capacity = 0 THEN [v EXCEPT !.data = allocate(n), !.capacity = n]
    ELSE IF v.capacity < n
    THEN LET grown == IF n > 2 * v.capacity THEN n ELSE 2 * v.capacity
         IN [v EXCEPT !.capacity = grown,
                      !.data = [i \in 0 .. grown - 1 |-> IF i < v.size - 1 THEN v.data[i] ELSE Raw]]
    ELSE v

ensure_capacity(v, n) ==
    IF v.capacity = 0 THEN [v EXCEPT !.data = allocate(n), !.capacity = n]
    ELSE IF v.capacity < n
    THEN LET grown == IF n > 2 * v.capacity THEN n ELSE 2 * v.capacity
         IN [v EXCEPT !.capacity = grown,
                      !.data = [i \in 0 .. grown - 1 |-> IF i < v.size THEN v.data[i] ELSE Raw]]
    ELSE v

(* The copy constructor keeps the capacity of an empty vector without its array: *)
(* what the copy does with an element then is not followed.                      *)
Sound(x) == vec[x].capacity > 0 => vec[x].data # Null

Becomes(x, v, s) ==
    /\ vec' = [vec EXCEPT ![x] = v]
    /\ seq' = [seq EXCEPT ![x] = s]

push_back(x, e) ==
    LET v == ensure_capacity(vec[x], vec[x].size + 1)
    IN /\ Sound(x) /\ vec[x].size < MaxSize
       /\ Becomes(x, [v EXCEPT !.data[v.size] = e, !.size = @ + 1], Append(seq[x], e))

push_front(x, e) ==
    LET v == ensure_capacity(vec[x], vec[x].size + 1)
    IN /\ Sound(x) /\ vec[x].size < MaxSize
       /\ Becomes(x, [v EXCEPT !.data = [i \in DOMAIN v.data |->
                                           IF i = 0 THEN e
                                           ELSE IF i <= v.size THEN v.data[i - 1] ELSE v.data[i]],
                               !.size = @ + 1],
                  <<e>> \o seq[x])

reserve(x, n) ==
    /\ Sound(x)
    /\ Becomes(x, IF n > vec[x].capacity THEN ensure_capacity(vec[x], n) ELSE vec[x], seq[x])

resize(x, n) ==
    LET v == vec[x]
        grown == ensure_capacity(v, n)
    IN /\ Sound(x)
       /\ IF n > v.size
          THEN Becomes(x, [grown EXCEPT !.data = [i \in DOMAIN @ |-> IF i \in v.size .. n - 1
                                                                     THEN Zero ELSE @[i]],
                                        !.size = n],
                       seq[x] \o [i \in 1 .. n - v.size |-> Zero])
          ELSE IF n < v.size
          THEN Becomes(x, [v EXCEPT !.data = Destructed(@, n .. v.size - 1), !.size = n],
                       SubSeq(seq[x], 1, n))
          ELSE UNCHANGED vars

pop_back(x) ==
    LET v == vec[x]
    IN /\ v.size > 0
       /\ Becomes(x, [v EXCEPT !.data = Destructed(@, {v.size - 1}), !.size = @ - 1], Front(seq[x]))

clear(x) ==
    LET v == vec[x]
    IN Becomes(x, [v EXCEPT !.data = IF v.size > 0 THEN Destructed(@, 0 .. v.size - 1) ELSE @,
                            !.size = 0], <<>>)

(* erase(first, last); erase(position) is the case of one element                *)
erase(x, first, n) ==
    LET v == vec[x]
        moved == [i \in DOMAIN v.data |-> IF i \in first .. v.size - n - 1 THEN v.data[i + n] ELSE v.data[i]]
    IN /\ n > 0 /\ first + n <= v.size
       /\ Becomes(x, [v EXCEPT !.data = Destructed(moved, v.size - n .. v.size - 1), !.size = @ - n],
                  SubSeq(seq[x], 1, first) \o SubSeq(seq[x], first + n + 1, Len(seq[x])))

(* x is destructed and constructed again: empty, with a capacity, or as a copy    *)
construct(x, c) ==
    Becomes(x, IF c = 0 THEN Empty ELSE [data |-> allocate(c), size |-> 0, capacity |-> c], <<>>)

Copied(v, rhs) ==
    [i \in DOMAIN v |-> IF i < rhs.size THEN rhs.data[i] ELSE v[i]]

copy_construct(x, y) ==
    LET rhs == vec[y]
    IN Becomes(x, [rhs EXCEPT !.data = IF rhs.size = 0 THEN Null
                                       ELSE Copied(allocate(rhs.capacity), rhs)], seq[y])

copy_assign(x, y) ==
    LET v == vec[x]
        rhs == vec[y]
        room == IF v.capacity < rhs.capacity
                THEN [data |-> allocate(rhs.capacity), size |-> 0, capacity |-> rhs.capacity]
                ELSE IF v.size > 0 THEN [v EXCEPT !.data = Destructed(@, 0 .. v.size - 1)] ELSE v
    IN /\ x # y /\ (rhs.size > 0 => Sound(x))
       /\ Becomes(x, [room EXCEPT !.data = IF rhs.size > 0 THEN Copied(@, rhs) ELSE @,
                                  !.size = rhs.size], seq[y])

(* The move constructor and the move assignment: y is left without an array      *)
move(x, y) ==
    /\ x # y
    /\ vec' = [vec EXCEPT ![x] = vec[y], ![y] = Empty]
    /\ seq' = [seq EXCEPT ![x] = seq[y], ![y] = <<>>]

Next ==
    \E x \in Names :
        \/ \E e \in Values : push_back(x, e) \/ push_front(x, e)
        \/ \E n \in 0 .. MaxSize : reserve(x, n) \/ resize(x, n)
        \/ pop_back(x) \/ clear(x)
        \/ \E first, n \in 0 .. MaxSize : erase(x, first, n)
        \/ \E c \in {0, 2} : construct(x, c)
        \/ \E y \in Names \ {x} : copy_construct(x, y) \/ copy_assign(x, y) \/ move(x, y)

Spec == Init /\ [][Next]_vars

-------------------------------------------------------------------------------
at(v, pos) == v.data[pos]
front(v) == v.data[0]
back(v) == v.data[v.size - 1]

equal(v, w) == v.size = w.size /\ \A i \in 0 .. v.size - 1 : at(v, i) = at(w, i)

(* After any series of operations on the two vectors, their cells hold the       *)
(* elements in order, front, back and == answer for the sequences, and every     *)
(* cell past the size has been destructed, so that the array can be freed.       *)
VectorIsSequence ==
    /\ \A x \in Names :
         LET v == vec[x]
         IN /\ v.size = Len(seq[x])
            /\ \A i \in 0 .. v.size - 1 : at(v, i) = seq[x][i + 1]
            /\ v.size > 0 => front(v) = Head(seq[x]) /\ back(v) = Last(seq[x])
            /\ v.data # Null => \A i \in v.size .. v.capacity - 1 : v.data[i] = Raw
    /\ equal(vec["a"], vec["b"]) = (seq["a"] = seq["b"])
===============================================================================
