------------------------------ MODULE BasicString ------------------------------
(* std::basic_string: short strings are kept in the object, longer ones in an      *)
(* array; the top bit of the size says which. Two strings are copied, moved and    *)
(* appended one to the other. seq is what each of them stands for.                 *)
EXTENDS Integers, Sequences, SequencesExt

CONSTANTS Chars,
          string_min_capacity,
          MaxLength     \* bound: characters of a string

VARIABLES str,          \* [long, size, capacity, cells] of each string
          seq           \* ghost

vars == <<str, seq>>

Names == {"a", "b"}
NUL == 0
Garbage == -1           \* a character nothing has written
Null == <<>>

Literals == SeqOf(Chars, MaxLength)

array(n) == [i \in 0 .. n - 1 |-> Garbage]
Read(cells, i) == IF i \in DOMAIN cells THEN cells[i] ELSE Garbage

(* copy_n, copy: the characters of s from position at on                           *)
Overwritten(cells, at, s) ==
    [i \in DOMAIN cells |-> IF i - at + 1 \in DOMAIN s THEN s[i - at + 1] ELSE cells[i]]

Short == [long |-> FALSE, size |-> 0, capacity |-> string_min_capacity, cells |-> array(string_min_capacity)]

set_small(capacity) ==
    IF capacity <= string_min_capacity THEN Short
    ELSE [long |-> TRUE, size |-> 0, capacity |-> capacity, cells |-> array(capacity)]

Terminated(v) == [v EXCEPT !.cells[v.size] = NUL]

Init == /\ str = [x \in Names |-> Terminated(Short)]
        /\ seq = [x \in Names |-> <<>>]

(* A long string that was moved from keeps its flag and has no array: what reads   *)
(* or writes its characters before a new array is assigned is not followed.        *)
Hollow(v) == v.long /\ v.cells = Null

ensure_capacity(v, n, preserve) ==
    IF v.capacity >= n THEN v
    ELSE LET grown == IF n > 2 * v.capacity THEN n ELSE 2 * v.capacity
         IN [v EXCEPT !.long = TRUE, !.capacity = grown,
                      !.cells = [i \in 0 .. grown - 1 |->
                                   IF preserve /\ i <= v.size THEN Read(v.cells, i) ELSE Garbage]]

Becomes(x, v, s) ==
    /\ str' = [str EXCEPT ![x] = v]
    /\ seq' = [seq EXCEPT ![x] = s]

(* The constructors from characters and from a capacity                            *)
construct(x, s) ==
    LET v == set_small(Len(s) + 1)
    IN Becomes(x, Terminated([v EXCEPT !.size = Len(s), !.cells = Overwritten(@, 0, s)]), s)

construct_capacity(x, c) == Becomes(x, Terminated(set_small(c)), <<>>)

Text(v) == [i \in 1 .. v.size |-> v.cells[i - 1]]

copy_construct(x, y) ==
    LET rhs == str[y]
        v == IF rhs.long THEN [long |-> TRUE, size |-> 0, capacity |-> rhs.size + 1, cells |-> array(rhs.size + 1)]
             ELSE Short
    IN /\ ~Hollow(rhs)
       /\ Becomes(x, Terminated([v EXCEPT !.size = rhs.size, !.cells = Overwritten(@, 0, Text(rhs))]), seq[y])

(* base_assign: operator= and assign, from a string, a view or iterators           *)
base_assign(x, s) ==
    LET v == ensure_capacity([str[x] EXCEPT !.size = Len(s)], Len(s) + 1, FALSE)
    IN Becomes(x, Terminated([v EXCEPT !.cells = Overwritten(@, 0, s)]), s)

(* What a string that was moved from is left with                                  *)
Moved(v) == [v EXCEPT !.size = 0,
                      !.capacity = IF v.long THEN 0 ELSE @,
                      !.cells = IF v.long THEN Null ELSE [i \in DOMAIN @ |-> NUL]]

move_construct(x, y) ==
    /\ str' = [str EXCEPT ![x] = str[y], ![y] = Moved(str[y])]
    /\ seq' = [seq EXCEPT ![x] = seq[y], ![y] = <<>>]

move_assign(x, y) ==
    LET v == str[x]
        rhs == str[y]
        roomy == ensure_capacity([v EXCEPT !.size = rhs.size], rhs.size + 1, TRUE)
    IN /\ v.long /\ ~rhs.long => ~Hollow(v)
       /\ str' = [str EXCEPT ![x] = IF v.long /\ ~rhs.long
                                    THEN [roomy EXCEPT !.cells = Overwritten(@, 0, Append(Text(rhs), NUL))]
                                    ELSE rhs,
                             ![y] = Moved(rhs)]
       /\ seq' = [seq EXCEPT ![x] = seq[y], ![y] = <<>>]

clear(x) == /\ ~Hollow(str[x])
            /\ Becomes(x, Terminated([str[x] EXCEPT !.size = 0]), <<>>)

pop_back(x) == /\ str[x].size > 0
               /\ Becomes(x, Terminated([str[x] EXCEPT !.size = @ - 1]), Front(seq[x]))

erase(x, position) ==
    LET v == str[x]
    IN /\ position < v.size
       /\ Becomes(x, Terminated([v EXCEPT !.cells = [i \in DOMAIN @ |-> IF i \in position .. v.size - 2
                                                                        THEN @[i + 1] ELSE @[i]],
                                          !.size = @ - 1]),
                  RemoveAt(seq[x], position + 1))

reserve(x, n) == /\ ~Hollow(str[x])
                 /\ Becomes(x, ensure_capacity(str[x], n, TRUE), seq[x])

(* base_append: append, operator+= of strings and characters, operator+            *)
base_append_NoNul(x, s) ==
    LET v == ensure_capacity(str[x], str[x].size + Len(s), TRUE)
    IN /\ ~Hollow(str[x]) /\ str[x].size + Len(s) <= MaxLength
       /\ Becomes(x, [v EXCEPT !.cells = Overwritten(@, v.size, s), !.size = @ + Len(s)], seq[x] \o s)

base_append(x, s) ==
    LET v == ensure_capacity(str[x], str[x].size + Len(s) + 1, TRUE)
    IN /\ ~Hollow(str[x]) /\ str[x].size + Len(s) <= MaxLength
       /\ Becomes(x, Terminated([v EXCEPT !.cells = Overwritten(@, v.size, s), !.size = @ + Len(s)]), seq[x] \o s)

Next ==
    \E x \in Names :
        \/ \E s \in Literals : construct(x, s) \/ base_assign(x, s) \/ base_append(x, s)
        \/ \E n \in 0 .. MaxLength + 1 : construct_capacity(x, n) \/ reserve(x, n)
        \/ clear(x) \/ pop_back(x)
        \/ \E position \in 0 .. MaxLength - 1 : erase(x, position)
        \/ \E y \in Names \ {x} : \/ copy_construct(x, y) \/ base_assign(x, Text(str[y]))
                                  \/ base_append(x, Text(str[y]))
                                  \/ move_construct(x, y) \/ move_assign(x, y)

Spec == Init /\ [][Next]_vars

--------------------------------------------------------------------------------
npos == -1

find(v, c, pos) ==
    LET where == {i \in pos .. v.size - 1 : v.cells[i] = c}
    IN IF where = {} THEN npos ELSE CHOOSE i \in where : \A j \in where : i <= j

base_compare(v, w) ==
    LET differ == {i \in 0 .. v.size - 1 : i < w.size /\ v.cells[i] # w.cells[i]}
    IN IF differ # {}
       THEN LET i == CHOOSE k \in differ : \A j \in differ : k <= j
            IN IF v.cells[i] < w.cells[i] THEN -1 ELSE 1
       ELSE IF v.size = w.size THEN 0 ELSE IF v.size < w.size THEN -1 ELSE 1

(* Through growth, moves and copies between short and long strings, the cells hold *)
(* the characters in order and a terminator within the capacity, and find, == and  *)
(* < answer for the sequences; only a long string that was moved from has no cells, *)
(* and then it is empty.                                                           *)
StringIsSequence ==
    /\ \A x \in Names :
         LET v == str[x]
         IN /\ v.size = Len(seq[x])
            /\ IF Hollow(v) THEN seq[x] = <<>>
               ELSE /\ v.size < v.capacity
                    /\ Text(v) = seq[x]
                    /\ v.cells[v.size] = NUL
            /\ \A c \in Chars : (find(v, c, 0) = npos) = (c \notin ToSet(seq[x]))
    /\ (base_compare(str["a"], str["b"]) = 0) = (seq["a"] = seq["b"])
    /\ base_compare(str["a"], str["b"]) = -base_compare(str["b"], str["a"])
================================================================================
