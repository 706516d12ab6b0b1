-------------------------------- MODULE Kalloc --------------------------------
(***************************************************************************)
(* The heap of the kernel (kalloc.cpp): blocks with a header and a footer,  *)
(* a circular free list, splitting, and coalescing through the footers and  *)
(* the marks that a block has a neighbour.  k_malloc and k_free run with the *)
(* interrupts off, so each is one step.                                     *)
(*                                                                          *)
(* header and footer are the headers and footers in memory, by address: one *)
(* that a larger block has swallowed is gone, and TLC would stop at a read   *)
(* of it.  The free list is a sequence, the fake head left out.             *)
(***************************************************************************)
EXTENDS Integers, SequencesExt, FiniteSetsExt

CONSTANTS
    HEADER_SIZE, FOOTER_SIZE, ALIGNMENT, BLOCK_SIZE, MIN_BLOCKS,
    Sizes,          \* the sizes that are asked for
    MaxExpansions   \* bound on the expansions of the heap

VARIABLES
    header,       \* address -> [size, free, left, right]
    footer,       \* address -> size
    list,         \* the free list, from malloc_head->next
    given,        \* the blocks the callers hold: <<address, size asked for>>
    end,          \* the first address behind the memory of the heap
    expansions,
    _used_memory

heapVars == <<header, footer, list, given, end, expansions, _used_memory>>

META_SIZE == HEADER_SIZE + FOOTER_SIZE
MIN_SPLIT == 2 * ALIGNMENT - FOOTER_SIZE

Put(f, x, y) == [a \in DOMAIN f \cup {x} |-> IF a = x THEN y ELSE f[a]]
FooterAt(b, size) == b + HEADER_SIZE + size

\* A memory is a record of the three things in memory that the code writes.
Memory == [header |-> header, footer |-> footer, list |-> list]

\* The sizes in the header and in the footer, and the marks of the header.
Write(m, b, size, left, right) ==
    [m EXCEPT !.header = Put(@, b, [size |-> size, free |-> FALSE, left |-> left, right |-> right]),
              !.footer = Put(@, FooterAt(b, size), size)]

SetFree(m, b, f) == [m EXCEPT !.header[b].free = f]

\* The list with b after its n-th block; after the head when n is 0.
insert_after(m, n, b) == SetFree([m EXCEPT !.list = InsertAt(@, n + 1, b)], b, TRUE)

remove(m, b) == SetFree([m EXCEPT !.list = Remove(@, b)], b, FALSE)

\* A new block has no neighbours, even where it adjoins the heap.
expand_heap(m, at, n, bytes) ==
    LET needed == (bytes + META_SIZE) \div BLOCK_SIZE + 1
        size == Max({MIN_BLOCKS, needed}) * BLOCK_SIZE - META_SIZE
    IN insert_after(Write(m, at, size, FALSE, FALSE), n, at)

\* kalloc::init
HeapInit ==
    /\ LET m == expand_heap([header |-> <<>>, footer |-> <<>>, list |-> <<>>], 0, 0, 0)
       IN header = m.header /\ footer = m.footer /\ list = m.list
    /\ given = {}
    /\ end = MIN_BLOCKS * BLOCK_SIZE
    /\ expansions = 0
    /\ _used_memory = 0

-----------------------------------------------------------------------------

\* The smallest size, and the one after which the next header is aligned.
Rounded(bytes) ==
    LET size == Max({bytes, MIN_SPLIT}) + FOOTER_SIZE
    IN (IF size % ALIGNMENT = 0 THEN size ELSE (size \div ALIGNMENT + 1) * ALIGNMENT) - FOOTER_SIZE

\* Mutant: a block is split for a rest of any size.
WorthSplitting_Always(size, bytes) == size > bytes

WorthSplitting(size, bytes) == size > bytes + META_SIZE + MIN_SPLIT + META_SIZE

\* Mutant: the rest of the block is not marked as having a right neighbour.
RestHasRight_Not(h) == FALSE

RestHasRight(h) == h.right

\* The n-th block of the list is given, after it was split if that is worth it.
Carve(m, n, bytes) ==
    LET b == m.list[n]
        h == m.header[b]
        rest == b + bytes + META_SIZE
        cut == Write(Write(m, rest, h.size - bytes - META_SIZE, TRUE, RestHasRight(h)), b, bytes, h.left, TRUE)
    IN IF WorthSplitting(h.size, bytes)
       THEN remove(insert_after(cut, n, rest), b)
       ELSE remove(m, b)

\* The blocks that are large enough.  The first one is taken; when the search
\* comes back to the head without one, the heap is expanded and the new block
\* is the first of the list.
Fitting(m, bytes) == {n \in DOMAIN m.list : m.header[m.list[n]].size >= bytes}

k_malloc(asked) ==
    LET bytes == Rounded(asked)
        expand == Fitting(Memory, bytes) = {}
        m == IF expand THEN expand_heap(Memory, end, 0, bytes) ELSE Memory
        n == Min(Fitting(m, bytes))
        after == Carve(m, n, bytes)
    IN /\ expand => expansions < MaxExpansions
       /\ header' = after.header
       /\ footer' = after.footer
       /\ list' = after.list
       /\ given' = given \cup {<<m.list[n], asked>>}
       /\ end' = IF expand THEN end + m.header[end].size + META_SIZE ELSE end
       /\ expansions' = IF expand THEN expansions + 1 ELSE expansions
       /\ _used_memory' = _used_memory + after.header[m.list[n]].size + META_SIZE

\* The block to the left is found through its footer, just before b.
left_block(b) == b - FOOTER_SIZE - footer[b - FOOTER_SIZE] - HEADER_SIZE
right_block(b) == b + META_SIZE + header[b].size

\* Two neighbours become one block, which is written over the left one.
Join(m, a, b, freed) ==
    LET joined == Write(remove(m, freed), a, m.header[a].size + m.header[b].size + META_SIZE,
                        m.header[a].left, m.header[b].right)
    IN [joined EXCEPT !.header = Restrict(@, DOMAIN @ \ {b}),
                      !.footer = Restrict(@, DOMAIN @ \ {FooterAt(a, m.header[a].size)})]

coalesce(b) ==
    LET a == left_block(b)
        c == right_block(b)
        withLeft == header[b].left /\ header[a].free
        m == IF withLeft THEN Join(Memory, a, b, a) ELSE Memory
        start == IF withLeft THEN a ELSE b
    IN IF header[b].right /\ header[c].free
       THEN [memory |-> Join(m, start, c, c), block |-> start]
       ELSE [memory |-> m, block |-> start]

k_free(g) ==
    LET joined == coalesce(g[1])
        after == insert_after(joined.memory, 0, joined.block)
    IN /\ given' = given \ {g}
       /\ header' = after.header
       /\ footer' = after.footer
       /\ list' = after.list
       /\ _used_memory' = _used_memory - header[g[1]].size - META_SIZE
       /\ UNCHANGED <<end, expansions>>

free_memory == FoldSeq(LAMBDA b, sum : header[b].size + sum, 0, list)

HeapNext ==
    \/ \E s \in Sizes : k_malloc(s)
    \/ \E g \in given : k_free(g)

-----------------------------------------------------------------------------
(* Properties.                                                              *)

Extent(b) == b..b + META_SIZE + header[b].size - 1
Blocks == ToSet(list) \cup {g[1] : g \in given}

\* The blocks in use and the free ones cover the heap without a hole and
\* without meeting, none is too small (a size is unsigned, and a rest of less
\* than a header would wrap), and one in use is as large as was asked for:
\* no header or footer lies in the memory of a caller.
BlocksTileHeap ==
    /\ \A b, c \in Blocks : b # c => Extent(b) \cap Extent(c) = {}
    /\ UNION {Extent(b) : b \in Blocks} = 0..end - 1
    /\ \A b \in Blocks : header[b].size >= MIN_SPLIT
    /\ \A g \in given : header[g[1]].size >= g[2] /\ ~header[g[1]].free
    /\ _used_memory + free_memory + META_SIZE * Len(list) = end

\* Free blocks that adjoin and belong to the same expansion were joined: the
\* marks of both say that they are neighbours, and one of the two is in use.
NeighboursJoined ==
    \A b, c \in Blocks : c = right_block(b) =>
        /\ header[b].right = header[c].left
        /\ header[b].right => ~(header[b].free /\ header[c].free)
        /\ footer[c - FOOTER_SIZE] = header[b].size

-------------------------------------------------------------------------------
(***************************************************************************)
(* The heap of a user process (tlib/src/malloc.cpp).  Its blocks have the    *)
(* header of the kernel's and no footer, so it is instantiated with a       *)
(* FOOTER_SIZE of 0; they are split in the same way and never joined.  The   *)
(* heap grows with the system call sbrk, which gives nothing when the system *)
(* is out of memory: malloc then goes around the free list again.           *)
(***************************************************************************)

VARIABLES
    asked,   \* the size that malloc is looking for, 0 when it is not running
    failed   \* the last sbrk gave nothing

mallocVars == <<heapVars, asked, failed>>

MallocInit ==
    /\ header = <<>> /\ footer = <<>> /\ list = <<>>
    /\ given = {}
    /\ end = 0
    /\ expansions = 0
    /\ _used_memory = 0
    /\ asked = 0
    /\ failed = FALSE

malloc(s) ==
    /\ asked = 0
    /\ asked' = s
    /\ UNCHANGED <<heapVars, failed>>

\* No block is large enough.  The first call of all expands the heap by the
\* smallest number of blocks before it looks at the size.
malloc_expand ==
    LET bytes == IF end = 0 THEN 0 ELSE Rounded(asked)
        m == expand_heap(Memory, end, 0, bytes)
    IN /\ asked # 0
       /\ Fitting(Memory, Rounded(asked)) = {}
       /\ \/ /\ expansions < MaxExpansions
             /\ header' = m.header /\ footer' = m.footer /\ list' = m.list
             /\ end' = end + m.header[end].size + META_SIZE
             /\ expansions' = expansions + 1
             /\ failed' = FALSE
          \/ failed' = TRUE /\ UNCHANGED <<header, footer, list, end, expansions>>
       /\ UNCHANGED <<given, _used_memory, asked>>

malloc_found ==
    LET bytes == Rounded(asked)
        n == Min(Fitting(Memory, bytes))
        after == Carve(Memory, n, bytes)
    IN /\ asked # 0
       /\ Fitting(Memory, bytes) # {}
       /\ header' = after.header /\ footer' = after.footer /\ list' = after.list
       /\ given' = given \cup {<<list[n], asked>>}
       /\ _used_memory' = _used_memory + after.header[list[n]].size + META_SIZE
       /\ asked' = 0
       /\ UNCHANGED <<end, expansions, failed>>

insert_freed(m, b) == insert_after(m, 0, b)

free(g) ==
    LET after == insert_freed(Memory, g[1])
    IN /\ asked = 0
       /\ given' = given \ {g}
       /\ header' = after.header /\ list' = after.list
       /\ _used_memory' = _used_memory - header[g[1]].size - META_SIZE
       /\ UNCHANGED <<footer, end, expansions, asked, failed>>

MallocNext ==
    \/ \E s \in Sizes : malloc(s)
    \/ malloc_expand
    \/ malloc_found
    \/ \E g \in given : free(g)
===============================================================================
