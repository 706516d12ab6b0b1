------------------------------ MODULE MCMachine ------------------------------
(*****************************************************************************)
(* Disk, memory, terminals, timer, system calls and the containers of the    *)
(* library on small instances.  Each behaviour is about one component, the   *)
(* focus; the disk is left alone by the behaviours about others, and the     *)
(* variables of the other components are 0.                                  *)
(*****************************************************************************)
EXTENDS Ata, TLC

CONSTANTS p1, p2, Foci

VARIABLES
    focus,
    cache_key, cache_table, cache_list, cache_assert,
    physical, virtual, page_table, regions,
    entries, process, gc, execs,
    header, footer, list, given, end, expansions, _used_memory,
    asked, failed,
    step, e820, kernel_mib, current_mmap_entry, current_mmap_entry_position, mapping, paging, virtual_range,
    physical_range,
    term, active_terminal, thread, reader, handled, results, dropped, keys, panic,
    buffer, start, ring_end, popping, queue,
    cpu, current, context, frame, call_pc, call, operation, call_answer, calls,
    obj, seq,
    time, hpet_frequency, driver, pending, irq_handler, timer_frequency, counter_fun, counter_frequency,
    pit_counter, epoch, comparator, sleeper, counter_start,
    astray,
    node

-----------------------------------------------------------------------------
(* The instances.                                                           *)

\* The disk: two processes, and a sector more than fits into the cache.  A
\* controller may get stuck or fail when only one process uses it.
OneDrive == [d1 |-> "c1"]
OneDevice == [d1 |-> 1]

\* Buckets that collide, and more keys than blocks.
Cache == INSTANCE BlockCache WITH
    blocks <- 3, Keys <- {1, 2, 7, 8, 13}, key <- cache_key, hash_table <- cache_table, free_list <- cache_list,
    chain_assert <- cache_assert

\* One mapping needs a word of the bitmap, one crosses a page.
DeviceMemory == {<<41, 2>>, <<46, 5>>, <<40, 16>>}
Kernel == INSTANCE Memory WITH
    levels <- 3, bits_per_word <- 4, PAGE_SIZE <- 2, first_virtual_address <- 10, last_virtual_address <- 30,
    first_physical_address <- 1, last_physical_address <- 9, managed_space <- 10, Devices <- DeviceMemory,
    HeapBlocks <- {3}, Holders <- {"h1"}, MaxRegions <- 3,
    Proc <- {}, ProgramSizes <- {}, BreakSizes <- {}, MaxBreak <- 0, MaxExecs <- 0

User == INSTANCE Memory WITH
    levels <- 3, bits_per_word <- 4, PAGE_SIZE <- 4, first_virtual_address <- 10, last_virtual_address <- 22,
    first_physical_address <- 1, last_physical_address <- 50, managed_space <- 50, Devices <- {},
    HeapBlocks <- {}, Holders <- {}, MaxRegions <- 0,
    Proc <- {p1}, ProgramSizes <- {1, 2}, BreakSizes <- {1, 2}, MaxBreak <- 3, MaxExecs <- 2

Heap == INSTANCE Kalloc WITH
    HEADER_SIZE <- 4, FOOTER_SIZE <- 1, ALIGNMENT <- 2, BLOCK_SIZE <- 8, MIN_BLOCKS <- 4,
    Sizes <- {1, 9, 40}, MaxExpansions <- 1

UserHeap == INSTANCE Kalloc WITH
    HEADER_SIZE <- 4, FOOTER_SIZE <- 0, ALIGNMENT <- 2, BLOCK_SIZE <- 6, MIN_BLOCKS <- 4,
    Sizes <- {1, 12}, MaxExpansions <- 2

Entry(b, s, t) == [base |-> b, size |-> s, type |-> t]
MemoryMaps == {<<Entry(0, 3, 1), Entry(4, 100, 1)>>, <<Entry(0, 50, 1)>>, <<Entry(4, 3, 1), Entry(0, 3, 1)>>,
               <<Entry(0, 3, 1), Entry(3, 1, 2), Entry(4, 60, 1), Entry(64, 20, 3)>>}
Layout == INSTANCE Boot WITH
    Maps <- MemoryMaps, KernelSizes <- {1, 2}, ENTRIES <- 8, MIB <- 4, kernel_virtual_size <- 64


\* A line is typed, corrected and read; programs wait with and without timeout.
Lines == INSTANCE Terminal WITH
    Terminals <- {0}, Raw <- FALSE, KeyboardSize <- 3, InputSize <- 2, CanonicalSize <- 3, RawSize <- 2,
    Keys <- {<<"a", FALSE>>, <<"b", FALSE>>, <<"enter", FALSE>>, <<"backspace", FALSE>>},
    Reads <- {<<1, 1>>, <<3, 0>>}, MaxKeys <- 4, MaxReads <- 2
\* The user presses and lets go of shift.
Shifted == INSTANCE Terminal WITH
    Terminals <- {0}, Raw <- FALSE, KeyboardSize <- 3, InputSize <- 2, CanonicalSize <- 3, RawSize <- 2,
    Keys <- {<<"a", FALSE>>, <<"enter", FALSE>>, <<"shift", FALSE>>, <<"shift", TRUE>>},
    Reads <- {<<3, 0>>}, MaxKeys <- 4, MaxReads <- 1
\* The user moves between two terminals.
Switch == INSTANCE Terminal WITH
    Terminals <- {0, 1}, Raw <- FALSE, KeyboardSize <- 3, InputSize <- 2, CanonicalSize <- 3, RawSize <- 2,
    Keys <- {<<"alt", FALSE>>, <<"f1", TRUE>>, <<"f2", TRUE>>}, Reads <- {}, MaxKeys <- 5, MaxReads <- 0
\* A program reads raw key codes, and takes mouse events.
RawKeys == INSTANCE Terminal WITH
    Terminals <- {0}, Raw <- TRUE, KeyboardSize <- 3, InputSize <- 2, CanonicalSize <- 3, RawSize <- 2,
    Keys <- {<<"a", FALSE>>}, Reads <- {<<3, 2>>}, MaxKeys <- 3, MaxReads <- 2

\* The ring between a handler and a thread, and the ring of one thread.
Between == INSTANCE CircularBuffer WITH S <- 3, Values <- {"x", "y"}, Shared <- TRUE, end <- ring_end
Owned == INSTANCE CircularBuffer WITH S <- 3, Values <- {"x", "y"}, Shared <- FALSE, end <- ring_end

\* One process makes every call of the library, another two that block.
Every == INSTANCE Syscalls WITH Processes <- {}, CallsOf <- <<>>, MaxCalls <- 0, pc <- call_pc, answer <- call_answer
Sys == INSTANCE Syscalls WITH
    Processes <- {"a", "b"}, CallsOf <- [a |-> DOMAIN Every!Stubs, b |-> {"read_timeout", "exec"}], MaxCalls <- 1,
    pc <- call_pc, answer <- call_answer

\* HPETs slower and faster than the 10 kHz that the ticks aim at.
Tim == INSTANCE Timer WITH HpetFrequencies <- {5000, 20000}, Delays <- {0, 2}, SizeValues <- 65536, MaxTime <- 28,
    process <- sleeper, started <- counter_start

Vec == INSTANCE Vector WITH Values <- {1, 2}, MaxSize <- 3, vec <- obj
Sma == INSTANCE SmallVector WITH Values <- {1, 2}, small_capacity <- 2, MaxSize <- 3, vec <- obj
Str == INSTANCE BasicString WITH Chars <- {1, 2}, string_min_capacity <- 2, MaxLength <- 3, str <- obj
Deq == INSTANCE Deque WITH Values <- {1, 2}, block_elements <- 2, MaxSize <- 3, MaxBlocks <- 3, deq <- obj
Lis == INSTANCE List WITH Values <- {1, 2}, Nodes <- 1..4, lists <- obj

-----------------------------------------------------------------------------

hashVars == <<cache_key, cache_table, cache_list, cache_assert>>
kernelVars == <<physical, virtual, page_table, regions>>
userVars == <<entries, process, gc, execs>>
heapVars == <<header, footer, list, given, end, expansions, _used_memory>>
mallocVars == <<asked, failed>>
bootVars == <<step, e820, kernel_mib, current_mmap_entry, current_mmap_entry_position, mapping, paging,
              virtual_range, physical_range>>
termVars == <<term, active_terminal, thread, reader, handled, results, dropped, keys, panic>>
ringVars == <<buffer, start, ring_end, popping, queue>>
callVars == <<cpu, current, context, frame, call_pc, call, operation, call_answer, calls>>
objectVars == <<obj, seq>>
timerVars == <<time, hpet_frequency, driver, pending, irq_handler, timer_frequency, counter_fun,
               counter_frequency, pit_counter, epoch, comparator, sleeper, counter_start>>
dequeVars == <<astray>>
listVars == <<node>>
vars == <<focus, driverVars, hashVars, kernelVars, userVars, heapVars, mallocVars, bootVars, termVars,
          ringVars, callVars, objectVars, timerVars, dequeVars, listVars>>

NoHash == cache_key = 0 /\ cache_table = 0 /\ cache_list = 0 /\ cache_assert = 0
NoKernel == physical = 0 /\ virtual = 0 /\ page_table = 0 /\ regions = 0
NoUser == entries = 0 /\ process = 0 /\ gc = 0 /\ execs = 0
NoHeap == header = 0 /\ footer = 0 /\ list = 0 /\ given = 0 /\ end = 0 /\ expansions = 0 /\ _used_memory = 0
NoMalloc == asked = 0 /\ failed = 0
NoBoot ==
    /\ step = 0 /\ e820 = 0 /\ kernel_mib = 0 /\ current_mmap_entry = 0
    /\ current_mmap_entry_position = 0 /\ mapping = 0 /\ paging = 0 /\ virtual_range = 0
    /\ physical_range = 0
NoTerm ==
    /\ term = 0 /\ active_terminal = 0 /\ thread = 0 /\ reader = 0 /\ handled = 0 /\ results = 0
    /\ dropped = 0 /\ keys = 0 /\ panic = 0
NoRing == buffer = 0 /\ start = 0 /\ ring_end = 0 /\ popping = 0 /\ queue = 0
NoCall ==
    /\ cpu = 0 /\ current = 0 /\ context = 0 /\ frame = 0 /\ call_pc = 0 /\ call = 0 /\ operation = 0
    /\ call_answer = 0 /\ calls = 0
NoObject == obj = 0 /\ seq = 0
NoTimer ==
    /\ time = 0 /\ hpet_frequency = 0 /\ driver = 0 /\ pending = 0 /\ irq_handler = 0
    /\ timer_frequency = 0 /\ counter_fun = 0 /\ counter_frequency = 0 /\ pit_counter = 0
    /\ epoch = 0 /\ comparator = 0 /\ sleeper = 0 /\ counter_start = 0
NoDeque == astray = 0
NoList == node = 0

Init ==
    /\ focus \in Foci
    /\ AtaInit
    /\ IF focus = "cache" THEN Cache!CacheInit ELSE NoHash
    /\ CASE focus = "kernel" -> Kernel!MemoryInit
         [] focus = "user" -> User!MemoryInit
         [] OTHER -> NoKernel
    /\ IF focus = "user" THEN User!UserInit ELSE NoUser
    /\ CASE focus = "heap" -> Heap!HeapInit
         [] focus = "malloc" -> UserHeap!MallocInit
         [] OTHER -> NoHeap
    /\ IF focus = "malloc" THEN TRUE ELSE NoMalloc
    /\ IF focus = "boot" THEN Layout!BootInit ELSE NoBoot
    /\ CASE focus = "lines" -> Lines!Init
         [] focus = "shifted" -> Shifted!Init
         [] focus = "switch" -> Switch!Init
         [] focus = "raw" -> RawKeys!Init
         [] OTHER -> NoTerm
    /\ CASE focus = "ring_between" -> Between!Init
         [] focus = "ring_owned" -> Owned!Init
         [] OTHER -> NoRing
    /\ IF focus = "syscalls" THEN Sys!Init ELSE NoCall
    /\ CASE focus = "vector" -> Vec!Init
         [] focus = "small_vector" -> Sma!Init
         [] focus = "string" -> Str!Init
         [] focus = "deque" -> Deq!Init
         [] focus = "list" -> Lis!Init
         [] OTHER -> NoObject
    /\ IF focus = "timer" THEN Tim!Init ELSE NoTimer
    /\ IF focus = "deque" THEN TRUE ELSE NoDeque
    /\ IF focus = "list" THEN TRUE ELSE NoList

UseAta ==
    /\ \/ focus = "ata" /\ AtaNext /\ faults' = 0
       \/ focus = "ata_faulty" /\ AtaNext /\ pc'[p2] = "out"
    /\ UNCHANGED <<focus, hashVars, kernelVars, userVars, heapVars, mallocVars, bootVars, termVars, ringVars,
                   callVars, objectVars, timerVars, dequeVars, listVars>>

UseCache ==
    /\ focus = "cache" /\ Cache!CacheNext
    /\ UNCHANGED <<focus, driverVars, kernelVars, userVars, heapVars, mallocVars, bootVars, termVars, ringVars,
                   callVars, objectVars, timerVars, dequeVars, listVars>>

UseKernel ==
    /\ focus = "kernel" /\ Kernel!MemoryNext
    /\ UNCHANGED <<focus, driverVars, hashVars, userVars, heapVars, mallocVars, bootVars, termVars, ringVars,
                   callVars, objectVars, timerVars, dequeVars, listVars>>

UseUser ==
    /\ focus = "user" /\ User!UserNext
    /\ UNCHANGED <<focus, driverVars, hashVars, heapVars, mallocVars, bootVars, termVars, ringVars, callVars,
                   objectVars, timerVars, dequeVars, listVars>>

UseHeap ==
    /\ focus = "heap" /\ Heap!HeapNext
    /\ UNCHANGED <<focus, driverVars, hashVars, kernelVars, userVars, mallocVars, bootVars, termVars,
                   ringVars, callVars, objectVars, timerVars, dequeVars, listVars>>

UseMalloc ==
    /\ focus = "malloc" /\ UserHeap!MallocNext
    /\ UNCHANGED <<focus, driverVars, hashVars, kernelVars, userVars, bootVars, termVars, ringVars, callVars,
                   objectVars, timerVars, dequeVars, listVars>>

UseBoot ==
    /\ focus = "boot" /\ Layout!BootNext
    /\ UNCHANGED <<focus, driverVars, hashVars, kernelVars, userVars, heapVars, mallocVars, termVars,
                   ringVars, callVars, objectVars, timerVars, dequeVars, listVars>>

UseLines ==
    /\ \/ focus = "lines" /\ Lines!Next
       \/ focus = "shifted" /\ Shifted!Next
       \/ focus = "switch" /\ Switch!Next
       \/ focus = "raw" /\ RawKeys!Next
    /\ UNCHANGED <<focus, driverVars, hashVars, kernelVars, userVars, heapVars, mallocVars, bootVars,
                   ringVars, callVars, objectVars, timerVars, dequeVars, listVars>>

UseRingBetween ==
    /\ \/ focus = "ring_between" /\ Between!Next
       \/ focus = "ring_owned" /\ Owned!Next
    /\ UNCHANGED <<focus, driverVars, hashVars, kernelVars, userVars, heapVars, mallocVars, bootVars,
                   termVars, callVars, objectVars, timerVars, dequeVars, listVars>>

UseSyscalls ==
    /\ focus = "syscalls" /\ Sys!Next
    /\ UNCHANGED <<focus, driverVars, hashVars, kernelVars, userVars, heapVars, mallocVars, bootVars,
                   termVars, ringVars, objectVars, timerVars, dequeVars, listVars>>

UseTimer ==
    /\ focus = "timer" /\ Tim!Next
    /\ UNCHANGED <<focus, driverVars, hashVars, kernelVars, userVars, heapVars, mallocVars, bootVars,
                   termVars, ringVars, callVars, objectVars, dequeVars, listVars>>

UseVector ==
    /\ \/ focus = "vector" /\ Vec!Next
       \/ focus = "small_vector" /\ Sma!Next
       \/ focus = "string" /\ Str!Next
    /\ UNCHANGED <<focus, driverVars, hashVars, kernelVars, userVars, heapVars, mallocVars, bootVars,
                   termVars, ringVars, callVars, timerVars, dequeVars, listVars>>

UseDeque ==
    /\ focus = "deque" /\ Deq!Next
    /\ UNCHANGED <<focus, driverVars, hashVars, kernelVars, userVars, heapVars, mallocVars, bootVars,
                   termVars, ringVars, callVars, timerVars, listVars>>

UseList ==
    /\ focus = "list" /\ Lis!Next
    /\ UNCHANGED <<focus, driverVars, hashVars, kernelVars, userVars, heapVars, mallocVars, bootVars,
                   termVars, ringVars, callVars, timerVars, dequeVars>>

Next == UseAta \/ UseCache \/ UseKernel \/ UseUser \/ UseHeap \/ UseMalloc \/ UseBoot \/ UseLines
     \/ UseRingBetween \/ UseSyscalls \/ UseTimer \/ UseVector \/ UseDeque \/ UseList

Spec == Init /\ [][Next]_vars

-----------------------------------------------------------------------------
(* Properties, each under the name it has in the module of its component.   *)
(* Those of the disk, CacheCoherent and InterruptsKept, are in that module. *)

\* Memory: a bit of the buddy allocator is set exactly when its block meets none of the live
\* blocks, which do not meet each other; the page table of the kernel maps what the callers
\* hold and nothing else; the tables of a process lead from its stack, program and break to
\* the memory taken for them, and from nothing else to a page; and the boot maps the kernel
\* where it was loaded, and the allocators hand out neither it nor the paging structures.
MapsExact ==
    /\ focus = "kernel" => Kernel!BuddyExact /\ Kernel!KernelMapExact
    /\ focus = "user" => User!UserMapExact
    /\ focus = "boot" => Layout!BootLayout

\* Heaps: the blocks of the kernel heap, and of malloc, cover the heap without meeting, and
\* one in use is as large as was asked for; and of two blocks of the kernel heap that adjoin
\* in one expansion, one is in use.
BlocksTileHeap ==
    /\ focus = "heap" => Heap!BlocksTileHeap /\ Heap!NeighboursJoined
    /\ focus = "malloc" => UserHeap!BlocksTileHeap

\* Terminal: what programs have read, followed by what the buffers hold, is what was typed
\* and corrected, in order, as long as no buffer was full; a canonical read never goes past
\* the end of a line, and ends at one unless it is full or its time is over; and once a
\* switch is over the terminal that receives the keys is the one that draws on the screen.
TypedIsRead ==
    /\ focus = "lines" => Lines!TypedIsRead /\ Lines!OneLinePerRead
    /\ focus = "shifted" => Shifted!TypedIsRead /\ Shifted!OneLinePerRead
    /\ focus = "switch" => Switch!TypedIsRead /\ Switch!OneActive
    /\ focus = "raw" => RawKeys!TypedIsRead

\* System calls: a handler does what the stub is named for with the arguments that the
\* calling program gave, and what the stub decodes is what the kernel answered to this very
\* call.
AnswerReachesItsCaller ==
    focus = "syscalls" => Sys!CallReachesItsHandler /\ Sys!AnswerReachesItsCaller

\* Timer: a process that the change of the timer does not catch asleep sleeps as long as it
\* asked for, to within a tick, with either timer; IRQ 0 goes to the handler of the device
\* that drives it, and the next event of the HPET is ahead or its interrupt is waiting; and
\* milliseconds() counts the milliseconds since the counter in use was started.
TimeKept == focus = "timer" => Tim!SleepLasts /\ Tim!TicksKeepComing /\ Tim!ClockKeepsTime

\* Timer: a process that is in sleep_ms while the timer changes also sleeps as long as it
\* asked for: "this will update the sleeping task as well" (hpet.cpp).
SleepSurvivesHandover == focus = "timer" => Tim!SleepSurvivesHandover

\* Containers: the hash chains of the block cache list the blocks in the order of the free
\* list, so that the evicted block is the first of its chain; the chain of the block to be
\* filled again contains it, and no two blocks have the same key; the cells of a vector, small vector, string and deque, and the nodes of a list
\* read in both directions, hold the elements that were put in, in order, and nothing else,
\* across the change from the inline array to the heap; and a circular buffer is a queue,
\* also when the handler pushes between the two halves of a pop.
ContainersAreSequences ==
    /\ focus = "cache" => Cache!ChainsFollowFreeList /\ Cache!CacheIsMap
    /\ focus = "vector" => Vec!VectorIsSequence
    /\ focus = "small_vector" => Sma!SmallVectorIsSequence
    /\ focus = "string" => Str!StringIsSequence
    /\ focus = "deque" => Deq!DequeIsSequence
    /\ focus = "list" => Lis!ListIsSequence
    /\ focus = "ring_between" => Between!RingIsQueue
    /\ focus = "ring_owned" => Owned!RingIsQueue
=============================================================================
