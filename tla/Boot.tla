-------------------------------- MODULE Boot --------------------------------
(***************************************************************************)
(* How the kernel lays out its memory at boot (kernel.cpp): the memory map  *)
(* of the BIOS (e820.cpp), the paging structures (paging.cpp) and the ranges *)
(* of the virtual and the physical allocator.  Addresses and sizes are in   *)
(* pages.  The memory map is external.                                      *)
(***************************************************************************)
EXTENDS Integers, FiniteSetsExt, Sequences

CONSTANTS
    Maps,           \* the memory maps: sequences of [base, size, type]
    KernelSizes,    \* the sizes of the kernel, in MiB
    ENTRIES,        \* the entries of a table, 512
    MIB,            \* the pages of a MiB, 256
    kernel_virtual_size

VARIABLES
    step, e820, kernel_mib,
    current_mmap_entry, current_mmap_entry_position,
    mapping,              \* virtual -> physical, for the pages that are PRESENT
    paging,                  \* the physical start of the paging structures
    virtual_range, physical_range   \* <<first, last>>

bootVars == <<step, e820, kernel_mib, current_mmap_entry, current_mmap_entry_position,
              mapping, paging, virtual_range, physical_range>>

kernel_address == MIB
CeilDiv(x, y) == (x + y - 1) \div y

\* Tables of all levels that are needed for the virtual memory of the kernel.
pd_entries == CeilDiv(kernel_virtual_size, ENTRIES)
physical_memory_pages == 3 + pd_entries
virtual_paging_start == kernel_address + MIB * kernel_mib

BootInit ==
    /\ step = "virtual"
    /\ e820 \in Maps
    /\ kernel_mib \in KernelSizes
    /\ current_mmap_entry = 0 /\ current_mmap_entry_position = 0
    /\ mapping = <<>>
    /\ paging = 0
    /\ virtual_range = <<0, 0>> /\ physical_range = <<0, 0>>

\* The first MiB boundary behind the paging structures.
virtual_init ==
    /\ step = "virtual"
    /\ step' = "early"
    /\ virtual_range' = <<CeilDiv(virtual_paging_start + physical_memory_pages, MIB) * MIB, kernel_virtual_size>>
    /\ UNCHANGED <<e820, kernel_mib, current_mmap_entry, current_mmap_entry_position,
                   mapping, paging, physical_range>>

\* The memory at address 0 belongs to the kernel, whatever the BIOS says.
finalize_memory_detection == [i \in DOMAIN e820 |->
    IF e820[i].base = 0 /\ e820[i].type = 1 THEN [e820[i] EXCEPT !.type = 7] ELSE e820[i]]

\* The boot is suspended when the entry of the kernel is not found.
early_init ==
    LET map == finalize_memory_detection
        found == {i \in DOMAIN map : map[i].type = 1 /\ map[i].base = kernel_address}
        large == {i \in found : i = Min(found) /\ map[i].size >= kernel_mib * MIB}
    IN /\ step = "early"
       /\ e820' = map
       /\ \/ /\ step' = "paging"
             /\ current_mmap_entry' \in large
             /\ current_mmap_entry_position' = kernel_address + kernel_mib * MIB
          \/ /\ large = {}
             /\ step' = "suspended"
             /\ UNCHANGED <<current_mmap_entry, current_mmap_entry_position>>
       /\ UNCHANGED <<kernel_mib, mapping, paging, virtual_range, physical_range>>

\* Mutant: the next table is begun one entry too early.
NextTable_Early(i) == i > 0 /\ i % (ENTRIES - 2) = 0

\* The next table is begun after the entry i.
NextTable(i) == i > 0 /\ i % (ENTRIES - 1) = 0

\* The virtual page whose entry the i-th step of the loop writes.
Slot(i) ==
    LET begun == {j \in 0..i - 1 : NextTable(j)}
    IN IF begun = {} THEN i ELSE Cardinality(begun) * ENTRIES + (i - Max(begun) - 1)

\* The first MiB and the kernel, and then the paging structures.
paging_init ==
    LET identity == {<<Slot(i), i>> : i \in 0..MIB + MIB * kernel_mib - 1}
        tables == {<<virtual_paging_start + k, current_mmap_entry_position + k>> : k \in 0..physical_memory_pages - 1}
        later == {t[1] : t \in tables}
        mapped == {m \in identity : m[1] \notin later} \cup tables
    IN /\ step = "paging"
       /\ step' = "physical"
       /\ paging' = current_mmap_entry_position
       /\ current_mmap_entry_position' = current_mmap_entry_position + physical_memory_pages
       /\ mapping' = [v \in {m[1] : m \in mapped} |-> (CHOOSE m \in mapped : m[1] = v)[2]]
       /\ UNCHANGED <<e820, kernel_mib, current_mmap_entry, virtual_range, physical_range>>

\* The words of the bitmap for blocks of a size, 512 to a page.
array_pages(space, block) == CeilDiv((space \div block + 1) \div 64 + 1, 512)

\* The bitmaps lie in front of the memory they are about.  They are large
\* enough for their own memory, too.
physical_init ==
    LET entry == e820[current_mmap_entry]
        space == entry.size - (current_mmap_entry_position - entry.base)
        arrays == MapThenSumSet(LAMBDA l : array_pages(space, 2^l), 0..7)
    IN /\ step = "physical"
       /\ step' = "running"
       /\ current_mmap_entry_position' = current_mmap_entry_position + arrays
       /\ physical_range' = <<current_mmap_entry_position + arrays, entry.base + entry.size>>
       /\ UNCHANGED <<e820, kernel_mib, current_mmap_entry, mapping, paging, virtual_range>>

BootNext == virtual_init \/ early_init \/ paging_init \/ physical_init

-----------------------------------------------------------------------------
(* Properties.                                                              *)

\* The kernel runs at the addresses where it was loaded, "Identity map the
\* first MiB and the kernel code"; the paging structures are found where the
\* code looks for them; what the allocators hand out meets neither of them.
BootLayout ==
    /\ step \in {"physical", "running"} =>
          /\ \A v \in 0..virtual_paging_start - 1 : v \in DOMAIN mapping /\ mapping[v] = v
          /\ \A k \in 0..physical_memory_pages - 1 : mapping[virtual_paging_start + k] = paging + k
          /\ \A v \in DOMAIN mapping : v < virtual_range[1]
    /\ step = "running" =>
          /\ physical_range[1] < physical_range[2]
          /\ \A v \in DOMAIN mapping : mapping[v] < physical_range[1]
=============================================================================
