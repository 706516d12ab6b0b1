-------------------------------- MODULE Memory --------------------------------
(***************************************************************************)
(* The buddy allocator (buddy_allocator.hpp) over static bitmaps            *)
(* (bitmap.hpp), as operators on the value of its bitmaps: bitmaps[l] is the *)
(* set of the bits of level l that are 1, the free blocks of 2^l pages.  An *)
(* address is a page number.                                                *)
(***************************************************************************)
EXTENDS Integers, FiniteSetsExt, Sequences

CONSTANTS
    levels,         \* 8 in the kernel
    bits_per_word   \* 64 in the kernel

max_block == 2^(levels - 1)
npos == -1
level_size(l) == 2^l
word_level_size(l) == bits_per_word * 2^l

\* The words of a bitmap cover the managed space and at least one bit more.
array_size(managed, block) == (managed \div block + 1) \div bits_per_word + 1
Bits(managed, l) == 0..array_size(managed, 2^l) * bits_per_word - 1

set_all(managed) == [l \in 0..levels - 1 |-> Bits(managed, l)]

level(pages) ==
    IF pages > max_block THEN levels - 1 ELSE Min({l \in 0..levels - 1 : pages <= 2^l})

word_level(pages) == Min({l \in 0..levels : l = levels \/ word_level_size(l) >= pages})

set_bit(bits) == IF bits = {} THEN npos ELSE Min(bits)

Word(i) == i..i + bits_per_word - 1

set_word(bits) ==
    LET full == {i \in bits : i % bits_per_word = 0 /\ Word(i) \subseteq bits}
    IN IF full = {} THEN npos ELSE Min(full)

block_start(first, l, index) == first + index * level_size(l)
get_block_index(first, address, l) == (address - first) \div level_size(l)

\* The blocks of level k <= l below the block index of level l.
Below(l, index, k) == index * 2^(l - k)..(index + 1) * 2^(l - k) - 1

\* The block of level k >= l above the block index of level l.
Above(l, index, k) == index \div 2^(k - l)

buddy_of(index) == IF index % 2 = 0 THEN index + 1 ELSE index - 1

\* Mutant: the larger blocks around a used block stay free.
mark_used_NotUp(bitmaps, l, index) ==
    [k \in DOMAIN bitmaps |-> IF k <= l THEN bitmaps[k] \ Below(l, index, k) ELSE bitmaps[k]]

mark_used(bitmaps, l, index) ==
    [k \in DOMAIN bitmaps |->
        IF k <= l THEN bitmaps[k] \ Below(l, index, k) ELSE bitmaps[k] \ {Above(l, index, k)}]

\* A level is reached from below as long as the buddies on the way are free.
mark_free(bitmaps, l, index) ==
    LET Reached(k) == \A j \in l..k - 1 : buddy_of(Above(l, index, j)) \in bitmaps[j]
    IN [k \in DOMAIN bitmaps |->
           CASE k <= l -> bitmaps[k] \cup Below(l, index, k)
             [] k > l /\ Reached(k) -> bitmaps[k] \cup {Above(l, index, k)}
             [] OTHER -> bitmaps[k]]

\* All the bits of the word are used.
mark_all(bitmaps, l, index) ==
    [k \in DOMAIN bitmaps |->
        {i \in bitmaps[k] : \A b \in Word(index) : i \in mark_used(bitmaps, l, b)[k]}]

\* The address, 0 when there is none, and the bitmaps after the call.  The last
\* block of the range is never given: its end is not below last.
allocate(bitmaps, first, last, pages) ==
    LET single == pages <= max_block
        l == IF single THEN level(pages) ELSE word_level(pages)
        size == IF single THEN level_size(l) ELSE word_level_size(l)
        index == IF single THEN set_bit(bitmaps[l]) ELSE set_word(bitmaps[l])
        address == block_start(first, l, index)
    IN IF pages > max_block * bits_per_word \/ index = npos \/ address + size >= last
       THEN [address |-> 0, bitmaps |-> bitmaps]
       ELSE [address |-> address,
             bitmaps |-> IF single THEN mark_used(bitmaps, l, index)
                         ELSE mark_all(bitmaps, l, index)]

\* Blocks of a word are freed at the level of the largest block, whatever the
\* level of the word they were taken from.
free(bitmaps, first, address, pages) ==
    LET l == level(pages)
        index == get_block_index(first, address, l)
    IN IF pages <= max_block THEN mark_free(bitmaps, l, index)
       ELSE FoldSet(LAMBDA b, acc : mark_free(acc, l, b), bitmaps, Word(index))

\* The pages that allocate(pages) takes.
necessary_size(pages) ==
    IF pages <= max_block THEN level_size(level(pages)) ELSE word_level_size(word_level(pages))

-------------------------------------------------------------------------------
(***************************************************************************)
(* The memory of the kernel: the physical and the virtual allocator         *)
(* (physical_allocator.cpp, virtual_allocator.cpp), the page table of the   *)
(* kernel (paging.cpp) and those that map physical memory with them:        *)
(* mmap_phys, the OS layer of ACPICA, physical_pointer and the heap.        *)
(*                                                                          *)
(* All the tables above the page tables are present for every kernel        *)
(* address (paging::init), so a walk is a lookup in one table.  Addresses   *)
(* handed to and from the callers are in bytes, the others in pages; 0 is   *)
(* the address that means failure.                                          *)
(***************************************************************************)

CONSTANTS
    PAGE_SIZE,
    first_virtual_address, last_virtual_address,
    first_physical_address, last_physical_address,
    managed_space,    \* of the physical allocator, the bitmaps themselves included
    Devices,          \* the <<address, length>> that mmap_phys and ACPICA map
    HeapBlocks,       \* the numbers of pages the heap asks for
    Holders,          \* the threads with a physical_pointer in scope
    MaxRegions        \* bound on the mappings at a time

VARIABLES
    physical, virtual,   \* the bitmaps of the allocators
    page_table,          \* virtual page -> physical page, 0 when not PRESENT
    regions              \* the mappings the callers hold

Virtual == first_virtual_address..last_virtual_address - 1

Offset(address) == address % PAGE_SIZE
pages(size) == (size + PAGE_SIZE - 1) \div PAGE_SIZE

MemoryInit ==
    /\ physical = set_all(managed_space)
    /\ virtual = set_all(last_virtual_address)
    /\ page_table = [v \in Virtual |-> 0]
    /\ regions = {}

-----------------------------------------------------------------------------
(* paging.cpp                                                               *)

page_present(v) == page_table[v] # 0

\* The offset inside a page is cut out with 13 bits, so the number of an odd
\* virtual page counts as part of the offset.
physical_address(v) == page_table[v] + (v % 2)

page_free_or_set(v, p) == ~page_present(v) \/ physical_address(v) = p

\* map() refuses a page that has another value; map_pages() looks at all the
\* pages before it maps the first one.
map_pages(v, p, n) ==
    LET refused == {k \in 0..n - 1 : page_present(v + k) /\ page_table[v + k] # p + k}
        mapped == IF refused = {} THEN n ELSE Min(refused)
    IN IF \A k \in 0..n - 1 : page_free_or_set(v + k, p + k)
       THEN [done |-> refused = {},
             table |-> [x \in Virtual |-> IF x \in v..v + mapped - 1 THEN p + x - v ELSE page_table[x]]]
       ELSE [done |-> FALSE, table |-> page_table]

unmap_pages(v, n) == page_table' = [x \in Virtual |-> IF x \in v..v + n - 1 THEN 0 ELSE page_table[x]]

-----------------------------------------------------------------------------
(* The allocators.  Their counters of used memory only feed sysfs and an     *)
(* assertion, and are left out.                                             *)

virtual_allocate(n) == allocate(virtual, first_virtual_address, last_virtual_address, n)
physical_allocate(n) == allocate(physical, first_physical_address, last_physical_address, n)

virtual_free(v, n) == virtual' = free(virtual, first_virtual_address, v, n)

\* Virtual memory is taken and mapped to the n pages from p on.  What it took
\* stays taken when the mapping fails.
Map(kind, address, length, n) ==
    LET a == virtual_allocate(n)
        p == address \div PAGE_SIZE
        m == map_pages(a.address, p, n)
    IN /\ Cardinality(regions) < MaxRegions
       /\ virtual' = a.bitmaps
       /\ \/ /\ a.address = 0
             /\ UNCHANGED <<page_table, regions>>
          \/ /\ a.address # 0
             /\ page_table' = m.table
             /\ regions' = regions \cup
                   IF m.done THEN {[kind |-> kind, phys |-> p, virt |-> a.address, length |-> length,
                                    address |-> a.address * PAGE_SIZE
                                                + IF kind = "acpi" THEN Offset(address) ELSE 0,
                                    pages |-> n]}
                   ELSE {}

-----------------------------------------------------------------------------
(* The callers.                                                             *)

\* The pointer it returns is that of the page, not that of the address in it.
mmap_phys ==
    \E d \in Devices :
        /\ Map("mmap", d[1], d[2], pages(Offset(d[1]) + d[2]))
        /\ UNCHANGED physical

AcpiOsMapMemory ==
    \E d \in Devices :
        /\ pages(Offset(d[1]) + d[2]) <= max_block
        /\ Map("acpi", d[1], d[2], pages(Offset(d[1]) + d[2]))
        /\ UNCHANGED physical

\* Mutant: the offset of the address in its page is forgotten.
UnmapLength_NoOffset(r) == r.length

\* The length that is unmapped is computed again from the pointer.
UnmapLength(r) == Offset(r.address) + r.length

AcpiOsUnmapMemory ==
    \E r \in regions :
        LET v == r.address \div PAGE_SIZE
            n == pages(UnmapLength(r))
        IN /\ r.kind = "acpi"
           /\ unmap_pages(v, n)
           /\ virtual_free(v, n)
           /\ regions' = regions \ {r}
           /\ UNCHANGED physical

\* The scope of a physical_pointer of a thread: of one page or of two.
physical_pointer(h) ==
    \E p \in {first_physical_address}, n \in 1..2 :
        /\ \A r \in regions : r.kind # h
        /\ Map(h, p * PAGE_SIZE, n * PAGE_SIZE, n)
        /\ UNCHANGED physical

physical_pointer_end(h) ==
    \E r \in regions :
        /\ r.kind = h
        /\ unmap_pages(r.virt, r.pages)
        /\ virtual_free(r.virt, r.pages)
        /\ regions' = regions \ {r}
        /\ UNCHANGED physical

\* The heap grows (kalloc.cpp) and never shrinks.  The physical memory is lost
\* when there is no virtual memory for it.
allocate_block ==
    \E n \in HeapBlocks :
        LET a == physical_allocate(n)
        IN /\ physical' = a.bitmaps
           /\ \/ /\ a.address # 0
                 /\ Map("heap", a.address * PAGE_SIZE, n * PAGE_SIZE, n)
              \/ /\ a.address = 0
                 /\ UNCHANGED <<virtual, page_table, regions>>

MemoryNext ==
    \/ mmap_phys
    \/ AcpiOsMapMemory
    \/ AcpiOsUnmapMemory
    \/ \E h \in Holders : physical_pointer(h) \/ physical_pointer_end(h)
    \/ allocate_block

-----------------------------------------------------------------------------
(* Properties.                                                              *)

Span(start, n) == start..start + n - 1

\* The bitmaps of all levels agree: a bit of a level is set exactly when its
\* block meets none of the blocks that were given and not given back, so that
\* buddies were joined whenever they could be, and no two live blocks meet.
BuddyExact ==
    LET Taken(r) == Span(r.virt, necessary_size(r.pages))
    IN /\ \A l \in 0..levels - 1 : \A i \in Bits(last_virtual_address, l) :
             i \in virtual[l] <=>
             \A r \in regions : Span(block_start(first_virtual_address, l, i), level_size(l)) \cap Taken(r) = {}
       /\ \A r, s \in regions : r # s => Taken(r) \cap Taken(s) = {}

\* The page table of the kernel maps what the callers hold and nothing else: a
\* mapping that was given back leaves no page behind, and none loses a page.
KernelMapExact ==
    \A v \in Virtual :
        page_table[v] = IF \E r \in regions : v \in Span(r.virt, r.pages)
                        THEN LET r == CHOOSE r \in regions : v \in Span(r.virt, r.pages)
                             IN r.phys + v - r.virt
                        ELSE 0

-------------------------------------------------------------------------------
(***************************************************************************)
(* The memory of user processes: what exec and sbrk take for a process      *)
(* (create_paging, allocate_user_memory, sbrk in scheduler.cpp and user_map  *)
(* in paging.cpp) and what the garbage collector gives back when the process *)
(* is killed.  A system call runs with the interrupts off, so it is one     *)
(* step; the garbage collector is a kernel thread of low priority, and a    *)
(* system call may come between any two of its calls.                       *)
(*                                                                          *)
(* A page of the paging structures is what the set entries says of it: a    *)
(* triple of table, index and page is an entry that is PRESENT.  Of a virtual*)
(* address the indexes in the four tables are kept.                         *)
(***************************************************************************)

CONSTANTS
    Proc,         \* the slots of the pcb
    nobody,
    ProgramSizes, \* pages of a program, as its ELF header says
    BreakSizes,   \* pages that sbrk is asked for
    MaxBreak,     \* bound on the pages of a heap
    MaxExecs      \* bound on the programs that are started

VARIABLES
    entries, process, gc, execs

userVars == <<entries, process, gc, execs>>

user_stack_pages == 2
kernel_stack_pages == 2

\* The indexes of the first page of the stack, the program and the break.
user_stack_start == <<1, 0, 3>>
program_base == <<1, 0, 0>>
program_break == <<1, 64, 0>>

EMPTY == [state |-> "EMPTY", cr3 |-> 0, user_stack |-> 0, kernel_stack |-> 0, virtual_stack |-> 0,
          segments |-> <<>>, brk_end |-> 0, taken |-> {}]

UserInit ==
    /\ entries = {}
    /\ process = [p \in Proc |-> EMPTY]
    /\ gc = [process |-> nobody, todo |-> <<>>]
    /\ execs = 0

-----------------------------------------------------------------------------
(* Taking memory: the operators work on a record of the bitmaps, the        *)
(* entries, the segments and (for the properties) the blocks taken.         *)

Entry(m, table, index) == {e \in m.entries : e[1] = table /\ e[2] = index}
Present(m, table, index) == Entry(m, table, index) # {}
Target(m, table, index) == (CHOOSE e \in Entry(m, table, index) : TRUE)[3]

Given(m, a, n) ==
    [m EXCEPT !.physical = a.bitmaps, !.last = a.address,
              !.taken = IF a.address = 0 THEN @ ELSE @ \cup {<<a.address, n>>}]
Take(m, n) == Given(m, allocate(m.physical, first_physical_address, last_physical_address, n), n)

\* Mutant: the new table is not cleared.
clear_physical_page_Not(es, page) == es

clear_physical_page(es, page) == {e \in es : e[1] # page}

\* One of the three tables on the way to a page: it is created when it is not
\* there.  Whatever the table, it is the one of the first step, of the size 1,
\* that is noted as a segment.
Linked(m, at, index) == [m EXCEPT !.entries = clear_physical_page(@ \cup {<<at, index, m.last>>}, m.last)]
Noted(m, cr3, index) == [m EXCEPT !.segments = Append(@, [physical |-> Target(m, cr3, index), size |-> 1])]
Followed(m, index) == [m EXCEPT !.at = Target(m, @, index)]

Descend(m, cr3, path, k) ==
    Followed(IF Present(m, m.at, path[k]) THEN m
             ELSE Noted(Linked(Take(m, 1), m.at, path[k]), cr3, path[1]), path[k])

Mapping(pt, pte, page) == [pt EXCEPT !.entries = (@ \ Entry(pt, pt.at, pte)) \cup {<<pt.at, pte, page>>}]

user_map(m, cr3, path, pte, page) ==
    Mapping(Descend(Descend(Descend([m EXCEPT !.at = cr3], cr3, path, 1), cr3, path, 2), cr3, path, 3), pte, page)

user_map_pages(m, cr3, path, pte, page, n) ==
    LET Mapped[k \in 0..n] == IF k = 0 THEN m ELSE user_map(Mapped[k - 1], cr3, path, pte + k - 1, page + k - 1)
    IN Mapped[n]

\* The result's page is that of the memory taken, 0 when there was none.
MappedAt(a, cr3, path, n) ==
    IF a.last = 0 THEN [a EXCEPT !.page = 0]
    ELSE [user_map_pages(a, cr3, path, 0, a.last, n) EXCEPT !.page = a.last]

allocate_user_memory(m, cr3, path, n) == MappedAt(Take(m, n), cr3, path, n)

-----------------------------------------------------------------------------
(* The system calls.                                                        *)

Before(p) == [physical |-> physical, entries |-> entries, segments |-> process[p].segments,
              taken |-> process[p].taken, at |-> 0, last |-> 0, page |-> 0, cr3 |-> 0, user_stack |-> 0]

\* create_paging; the kernel is mapped through the first entry of the PML4T,
\* which no user address uses.
create_paging(m) == [m EXCEPT !.entries = clear_physical_page(@, m.last), !.cr3 = m.last]

Stacked(m) == [m EXCEPT !.user_stack = m.page]
Segmented(m, n) == [m EXCEPT !.segments = Append(@, [physical |-> m.page, size |-> n * PAGE_SIZE])]

WithStack(m) == Stacked(allocate_user_memory(m, m.cr3, user_stack_start, user_stack_pages))
WithProgram(m, n) == Segmented(allocate_user_memory(m, m.cr3, program_base, n), n)

\* All that a program of n pages takes, its kernel stack last.
Loaded(p, n) == Take(WithProgram(WithStack(create_paging(Take(Before(p), 1))), n), kernel_stack_pages)

\* exec fails when the kernel stack, from l, cannot be mapped at v.
start(p, l, v) ==
    LET m == map_pages(v.address, l.last, kernel_stack_pages)
    IN /\ physical' = l.physical
       /\ entries' = l.entries
       /\ virtual' = v.bitmaps
       /\ page_table' = m.table
       /\ process' = [process EXCEPT ![p] =
                         [state |-> IF m.done THEN "READY" ELSE "FAILED", cr3 |-> l.cr3,
                          user_stack |-> l.user_stack,
                          kernel_stack |-> IF m.done THEN l.last ELSE 0,
                          virtual_stack |-> IF m.done THEN v.address ELSE 0,
                          segments |-> l.segments, brk_end |-> 0, taken |-> l.taken]]

exec(p) ==
    /\ process[p].state = "EMPTY"
    /\ execs < MaxExecs
    /\ execs' = execs + 1
    /\ \E n \in ProgramSizes : start(p, Loaded(p, n), virtual_allocate(kernel_stack_pages))
    /\ UNCHANGED <<regions, gc>>

\* The segment's size is the number of pages here, not of bytes.
grow(p, m, page, n) ==
    /\ physical' = m.physical
    /\ entries' = m.entries
    /\ process' = [process EXCEPT ![p].segments = Append(m.segments, [physical |-> page, size |-> n]),
                                  ![p].brk_end = @ + n,
                                  ![p].taken = m.taken]

sbrk(p) ==
    \E n \in BreakSizes :
        LET a == Take(Before(p), n)
        IN /\ process[p].state = "READY"
           /\ process[p].brk_end + n <= MaxBreak
           /\ a.last # 0
           /\ grow(p, user_map_pages(a, process[p].cr3, program_break, process[p].brk_end, a.last, n), a.last, n)
           /\ UNCHANGED <<virtual, page_table, regions, gc, execs>>

kill(p) ==
    /\ process[p].state = "READY"
    /\ process' = [process EXCEPT ![p].state = "KILLED"]
    /\ UNCHANGED <<physical, virtual, page_table, regions, entries, gc, execs>>

-----------------------------------------------------------------------------
(* The garbage collector.                                                   *)

\* The calls that release the memory of a killed process, in their order.
Releases(p) ==
    LET Segment(s) == [call |-> "physical", address |-> s.physical, n |-> s.size \div PAGE_SIZE]
        Stack(call) == [call |-> call, address |-> process[p].virtual_stack, n |-> kernel_stack_pages]
    IN <<[call |-> "physical", address |-> process[p].cr3, n |-> 1],
         [call |-> "physical", address |-> process[p].kernel_stack, n |-> kernel_stack_pages],
         [call |-> "physical", address |-> process[p].user_stack, n |-> user_stack_pages]>>
       \o [i \in DOMAIN process[p].segments |-> Segment(process[p].segments[i])]
       \o <<Stack("virtual"), Stack("unmap")>>

gc_start(p) ==
    /\ gc.process = nobody
    /\ process[p].state = "KILLED"
    /\ gc' = [process |-> p, todo |-> Releases(p)]
    /\ UNCHANGED <<physical, virtual, page_table, regions, entries, process, execs>>

gc_release ==
    /\ gc.process # nobody
    /\ gc.todo # <<>>
    /\ gc' = [gc EXCEPT !.todo = Tail(@)]
    /\ LET r == Head(gc.todo)
       IN \/ /\ r.call = "physical"
             /\ physical' = free(physical, first_physical_address, r.address, r.n)
             /\ UNCHANGED <<virtual, page_table>>
          \/ /\ r.call = "virtual"
             /\ virtual_free(r.address, r.n)
             /\ UNCHANGED <<physical, page_table>>
          \/ /\ r.call = "unmap"
             /\ unmap_pages(r.address, r.n)
             /\ UNCHANGED <<physical, virtual>>
    /\ UNCHANGED <<regions, entries, process, execs>>

gc_clean ==
    /\ gc.process # nobody
    /\ gc.todo = <<>>
    /\ process' = [process EXCEPT ![gc.process] = EMPTY]
    /\ gc' = [process |-> nobody, todo |-> <<>>]
    /\ UNCHANGED <<physical, virtual, page_table, regions, entries, execs>>

UserNext ==
    \/ \E p \in Proc : exec(p) \/ sbrk(p) \/ kill(p) \/ gc_start(p)
    \/ gc_release
    \/ gc_clean

-----------------------------------------------------------------------------
(* Properties.                                                              *)

Blocks(p) == UNION {Span(b[1], necessary_size(b[2])) : b \in process[p].taken}

Now == [entries |-> entries]

\* The page that the tables of p give for a virtual page, 0 when there is none.
Walk(p, path, pte) ==
    LET Next(table, index) == IF table # 0 /\ Present(Now, table, index) THEN Target(Now, table, index) ELSE 0
    IN Next(Next(Next(Next(process[p].cr3, path[1]), path[2]), path[3]), pte)

\* The tables of a process lead from its stack, its program and its break to
\* the memory taken for them, page by page, and from nothing else to a page:
\* no page of a table was left over from an earlier process.
UserMapExact ==
    \A p \in Proc : process[p].state = "READY" =>
        /\ \A k \in 0..user_stack_pages - 1 :
              Walk(p, user_stack_start, k) = process[p].user_stack + k
        /\ \A path \in {program_base, program_break} : \A k \in 0..MaxBreak :
              LET page == Walk(p, path, k)
              IN /\ page # 0 => page \in Blocks(p)
                 /\ (path = program_break) => (page # 0 <=> k < process[p].brk_end)
===============================================================================
