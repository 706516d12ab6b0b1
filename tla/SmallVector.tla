------------------------------ MODULE SmallVector ------------------------------
(* std::small_vector, which holds the positions of a path: up to small_capacity    *)
(* elements in the object, more in an array; the top bit of the size says which.   *)
(* seq is what each of the two vectors stands for.                                 *)
EXTENDS Integers, Sequences, SequencesExt

CONSTANTS Values,
          small_capacity,
          MaxSize       \* bound: elements of a vector

VARIABLES vec,          \* [long, size, capacity, cells] of each vector
          seq           \* ghost

vars == <<vec, seq>>

Names == {"a", "b"}
Raw == 0
Null == <<>>
Zero == CHOOSE v \in Values : \A w \in Values : v <= w   \* value_type()

Literals == SeqOf(Values, MaxSize)

allocate(n) == [i \in 0 .. n - 1 |-> Raw]
Read(cells, i) == IF i \in DOMAIN cells THEN cells[i] ELSE Raw

Overwritten(cells, s) == [i \in DOMAIN cells |-> IF i + 1 \in DOMAIN s THEN s[i + 1] ELSE cells[i]]
Items(v) == [i \in 1 .. v.size |-> v.cells[i - 1]]

Small == [long |-> FALSE, size |-> 0, capacity |-> small_capacity, cells |-> allocate(small_capacity)]
Big(n) == [long |-> TRUE, size |-> 0, capacity |-> n, cells |-> allocate(n)]

Init == /\ vec = [x \in Names |-> Small]
        /\ seq = [x \in Names |-> <<>>]

ensure_capacity_InPlace(v, n) ==
    IF v.capacity >= n THEN v
    ELSE LET grown == IF n > 2 * v.capacity THEN n ELSE 2 * v.capacity
         IN [v EXCEPT !.long = TRUE, !.capacity = grown, !.cells = allocate(grown)]

ensure_capacity(v, n) ==
    IF v.capacity >= n THEN v
    ELSE LET grown == IF n > 2 * v.capacity THEN n ELSE 2 * v.capacity
         IN [v EXCEPT !.long = TRUE, !.capacity = grown,
                      !.cells = [i \in 0 .. grown - 1 |-> IF i < v.size THEN Read(v.cells, i) ELSE Raw]]

Becomes(x, v, s) ==
    /\ vec' = [vec EXCEPT ![x] = v]
    /\ seq' = [seq EXCEPT ![x] = s]

(* The constructors with a size and a value, and with a list of values             *)
construct(x, s) ==
    LET v == IF Len(s) <= small_capacity THEN Small ELSE Big(Len(s))
    IN Becomes(x, [v EXCEPT !.size = Len(s), !.cells = Overwritten(@, s)], s)

copy_construct(x, y) ==
    LET rhs == vec[y]
        v == IF rhs.long THEN Big(rhs.size + 1) ELSE Small
    IN Becomes(x, [v EXCEPT !.size = rhs.size, !.cells = Overwritten(@, Items(rhs))], seq[y])

(* Copy assignment frees the array of a long vector and allocates another only for *)
(* a larger capacity; what it does with the freed array is not followed.           *)
copy_assign(x, y) ==
    LET v == vec[x]
        rhs == vec[y]
        room == IF v.capacity < rhs.capacity THEN Big(rhs.capacity) ELSE v
    IN /\ v.long => v.capacity < rhs.capacity
       /\ Becomes(x, [room EXCEPT !.size = rhs.size, !.cells = Overwritten(@, Items(rhs))], seq[y])

Moved(v) == [v EXCEPT !.size = 0, !.capacity = IF v.long THEN 0 ELSE @,
                      !.cells = IF v.long THEN Null ELSE allocate(small_capacity)]

move_construct(x, y) ==
    /\ vec' = [vec EXCEPT ![x] = vec[y], ![y] = Moved(vec[y])]
    /\ seq' = [seq EXCEPT ![x] = seq[y], ![y] = <<>>]

move_assign(x, y) ==
    LET v == vec[x]
        rhs == vec[y]
        roomy == ensure_capacity([v EXCEPT !.size = rhs.size], rhs.size + 1)
    IN /\ vec' = [vec EXCEPT ![x] = IF v.long /\ ~rhs.long
                                    THEN [roomy EXCEPT !.cells = Overwritten(@, Items(rhs))] ELSE rhs,
                             ![y] = Moved(rhs)]
       /\ seq' = [seq EXCEPT ![x] = seq[y], ![y] = <<>>]

clear(x) == Becomes(x, [vec[x] EXCEPT !.cells = [i \in DOMAIN @ |-> IF i < vec[x].size THEN Raw ELSE @[i]],
                                      !.size = 0], <<>>)

pop_back(x) == /\ vec[x].size > 0
               /\ Becomes(x, [vec[x] EXCEPT !.size = @ - 1, !.cells[vec[x].size - 1] = Raw], Front(seq[x]))

reserve(x, n) == Becomes(x, ensure_capacity(vec[x], n), seq[x])

resize(x, n) ==
    LET v == vec[x]
        grown == ensure_capacity(v, n)
    IN IF n > v.size
       THEN Becomes(x, [grown EXCEPT !.cells = [i \in DOMAIN @ |-> IF i \in v.size .. n - 1 THEN Zero ELSE @[i]],
                                     !.size = n], seq[x] \o [i \in 1 .. n - v.size |-> Zero])
       ELSE Becomes(x, [v EXCEPT !.cells = [i \in DOMAIN @ |-> IF i \in n .. v.size - 1 THEN Raw ELSE @[i]],
                                 !.size = n], SubSeq(seq[x], 1, n))

(* push_back and emplace_back                                                      *)
push_back(x, e) ==
    LET v == ensure_capacity(vec[x], vec[x].size + 1)
    IN /\ vec[x].size < MaxSize
       /\ Becomes(x, [v EXCEPT !.cells[v.size] = e, !.size = @ + 1], Append(seq[x], e))

push_front(x, e) ==
    LET v == ensure_capacity(vec[x], vec[x].size + 1)
    IN /\ vec[x].size < MaxSize
       /\ Becomes(x, [v EXCEPT !.cells = [i \in DOMAIN @ |-> IF i = 0 THEN e
                                                             ELSE IF i <= v.size THEN @[i - 1] ELSE @[i]],
                               !.size = @ + 1], <<e>> \o seq[x])

(* erase(first, last); erase(position) is the case of one element                  *)
erase(x, first, n) ==
    LET v == vec[x]
    IN /\ n > 0 /\ first + n <= v.size
       /\ Becomes(x, [v EXCEPT !.cells = [i \in DOMAIN @ |->
                                            CASE i \in first .. v.size - n - 1  -> @[i + n]
                                              [] i \in v.size - n .. v.size - 1 -> Raw
                                              [] OTHER                          -> @[i]],
                               !.size = @ - n],
                  SubSeq(seq[x], 1, first) \o SubSeq(seq[x], first + n + 1, Len(seq[x])))

Next ==
    \E x \in Names :
        \/ \E s \in Literals : construct(x, s)
        \/ \E y \in Names \ {x} : \/ copy_construct(x, y) \/ copy_assign(x, y)
                                  \/ move_construct(x, y) \/ move_assign(x, y)
        \/ clear(x) \/ pop_back(x)
        \/ \E n \in 0 .. MaxSize : reserve(x, n) \/ resize(x, n)
        \/ \E e \in Values : push_back(x, e) \/ push_front(x, e)
        \/ \E first, n \in 0 .. MaxSize : erase(x, first, n)

Spec == Init /\ [][Next]_vars

--------------------------------------------------------------------------------
at(v, i) == v.cells[i]

equal(v, w) == v.size = w.size /\ \A i \in 0 .. v.size - 1 : at(v, i) = at(w, i)

(* Through growth out of the object, copies and moves between short and long       *)
(* vectors, the cells hold the elements in order within the capacity, a vector in  *)
(* the object has the small capacity, and == answers for the sequences.            *)
SmallVectorIsSequence ==
    /\ \A x \in Names :
         LET v == vec[x]
         IN /\ v.size <= v.capacity
            /\ Items(v) = seq[x]
            /\ ~v.long => v.capacity = small_capacity
    /\ equal(vec["a"], vec["b"]) = (seq["a"] = seq["b"])
================================================================================
