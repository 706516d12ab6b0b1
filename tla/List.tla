--------------------------------- MODULE List ---------------------------------
(* std::list: doubly linked nodes on the heap, used for the connections of the   *)
(* network layers. Nodes are numbered; 0 is the null pointer. seq is what each    *)
(* list stands for.                                                               *)
EXTENDS Integers, Sequences, SequencesExt, FiniteSetsExt

CONSTANTS Values,
          Nodes         \* the node addresses: 1 .. N

VARIABLES node,         \* the allocated nodes: [value, next, prev]
          lists,        \* [size, head, tail] of each list
          seq           \* ghost

vars == <<node, lists, seq>>

Names == {"a", "b"}
Null == 0
Empty == [size |-> 0, head |-> Null, tail |-> Null]

Init == /\ node = <<>>
        /\ lists = [x \in Names |-> Empty]
        /\ seq = [x \in Names |-> <<>>]

New(p) == p \in Nodes \ DOMAIN node /\ p = Min(Nodes \ DOMAIN node)

With(heap, p, n) == [q \in DOMAIN heap \cup {p} |-> IF q = p THEN n ELSE heap[q]]
Without(heap, p) == [q \in DOMAIN heap \ {p} |-> heap[q]]
Set(heap, p, field, q) == IF p = Null THEN heap ELSE [heap EXCEPT ![p][field] = q]

(* push_front and emplace_front                                                   *)
push_front(x, v, p) ==
    LET l == lists[x]
    IN /\ New(p)
       /\ node' = Set(With(node, p, [value |-> v, next |-> l.head, prev |-> Null]), l.head, "prev", p)
       /\ lists' = [lists EXCEPT ![x] = [size |-> l.size + 1, head |-> p,
                                         tail |-> IF l.size = 0 THEN p ELSE l.tail]]
       /\ seq' = [seq EXCEPT ![x] = <<v>> \o @]

(* push_back and emplace_back                                                     *)
push_back(x, v, p) ==
    LET l == lists[x]
    IN /\ New(p)
       /\ node' = Set(With(node, p, [value |-> v, next |-> Null, prev |-> l.tail]), l.tail, "next", p)
       /\ lists' = [lists EXCEPT ![x] = [size |-> l.size + 1, tail |-> p,
                                         head |-> IF l.size = 0 THEN p ELSE l.head]]
       /\ seq' = [seq EXCEPT ![x] = Append(@, v)]

(* What pop_front and pop_back make of the heap and of the list                   *)
pop_front(s) ==
    LET old == s.list.head
        next == s.heap[old].next
    IN [heap |-> Without(IF s.list.size = 1 THEN s.heap ELSE Set(s.heap, next, "prev", Null), old),
        list |-> IF s.list.size = 1 THEN Empty ELSE [s.list EXCEPT !.size = @ - 1, !.head = next]]

pop_back(s) ==
    LET old == s.list.tail
        prev == s.heap[old].prev
    IN [heap |-> Without(IF s.list.size = 1 THEN s.heap ELSE Set(s.heap, prev, "next", Null), old),
        list |-> IF s.list.size = 1 THEN Empty ELSE [s.list EXCEPT !.size = @ - 1, !.tail = prev]]

State(x) == [heap |-> node, list |-> lists[x]]

Pop(x, popped, rest) ==
    /\ lists[x].size > 0
    /\ node' = popped.heap
    /\ lists' = [lists EXCEPT ![x] = popped.list]
    /\ seq' = [seq EXCEPT ![x] = rest]

(* clear and the destructor pop from the back until the list is empty             *)
clear(s) == FoldLeft(LAMBDA t, i : pop_back(t), s, [i \in 1 .. s.list.size |-> i])

Clear(x) ==
    LET s == clear(State(x))
    IN /\ node' = s.heap
       /\ lists' = [lists EXCEPT ![x] = s.list]
       /\ seq' = [seq EXCEPT ![x] = <<>>]

(* The node is unlinked from its neighbours, from the head and from the tail      *)
erase_node_KeepsTail(s, p) ==
    LET n == s.heap[p]
    IN [heap |-> Without(Set(Set(s.heap, n.prev, "next", n.next), n.next, "prev", n.prev), p),
        list |-> [size |-> s.list.size - 1,
                  head |-> IF s.list.head = p THEN n.next ELSE s.list.head,
                  tail |-> s.list.tail]]

erase_node(s, p) ==
    LET n == s.heap[p]
    IN [heap |-> Without(Set(Set(s.heap, n.prev, "next", n.next), n.next, "prev", n.prev), p),
        list |-> [size |-> s.list.size - 1,
                  head |-> IF s.list.head = p THEN n.next ELSE s.list.head,
                  tail |-> IF s.list.tail = p THEN n.prev ELSE s.list.tail]]

(* The iterator: the nodes from the head, along next                              *)
Walk(start, field, n) ==
    [i \in 1 .. n |-> FoldLeft(LAMBDA p, k : node[p][field], start, [k \in 1 .. i - 1 |-> k])]

(* erase(it, last): the n nodes from position pos; erase(it) is the case n = 1    *)
erase(x, pos, n) ==
    LET victims == SubSeq(Walk(lists[x].head, "next", lists[x].size), pos + 1, pos + n)
        s == FoldLeft(erase_node, State(x), victims)
    IN /\ n > 0 /\ pos + n <= lists[x].size
       /\ node' = s.heap
       /\ lists' = [lists EXCEPT ![x] = s.list]
       /\ seq' = [seq EXCEPT ![x] = SubSeq(@, 1, pos) \o SubSeq(@, pos + n + 1, Len(@))]

(* Move assignment: the list assigned to is cleared first                         *)
move_assign(x, y) ==
    /\ node' = clear(State(x)).heap
    /\ lists' = [lists EXCEPT ![x] = lists[y], ![y] = Empty]
    /\ seq' = [seq EXCEPT ![x] = seq[y], ![y] = <<>>]

Next ==
    \E x \in Names :
        \/ \E v \in Values, p \in Nodes : push_front(x, v, p) \/ push_back(x, v, p)
        \/ Pop(x, pop_front(State(x)), Tail(seq[x]))
        \/ Pop(x, pop_back(State(x)), Front(seq[x]))
        \/ Clear(x)
        \/ \E pos, n \in 0 .. Max(Nodes) : erase(x, pos, n)
        \/ \E y \in Names \ {x} : move_assign(x, y)

Spec == Init /\ [][Next]_vars

-------------------------------------------------------------------------------
(* Walking a list forwards from its head, or backwards from its tail, meets its   *)
(* elements in order and ends at the null pointer; every allocated node is in     *)
(* exactly one list, so that none is leaked and none is used after it is freed.   *)
ListIsSequence ==
    LET Forward(x) == Walk(lists[x].head, "next", lists[x].size)
        Backward(x) == Walk(lists[x].tail, "prev", lists[x].size)
    IN /\ \A x \in Names :
            /\ lists[x].size = Len(seq[x])
            /\ \A i \in DOMAIN Forward(x) : node[Forward(x)[i]].value = seq[x][i]
            /\ Backward(x) = Reverse(Forward(x))
            /\ seq[x] = <<>> <=> lists[x].head = Null /\ lists[x].tail = Null
            /\ seq[x] # <<>> => node[lists[x].tail].next = Null /\ node[lists[x].head].prev = Null
       /\ DOMAIN node = ToSet(Forward("a")) \cup ToSet(Forward("b"))
       /\ ToSet(Forward("a")) \cap ToSet(Forward("b")) = {}
===============================================================================
