-------------------------------- MODULE Fat32 --------------------------------
(***************************************************************************)
(* The FAT32 file system (fs/fat32.cpp): the chains of clusters in the file *)
(* allocation table, the entries of the directories with their marks for    *)
(* unused entries and for the end, and the bytes of the files.  A directory *)
(* has ENTRIES entries per cluster, a file CLUSTER_SIZE bytes.  The         *)
(* operations work on the state of the disk as a record.                    *)
(*                                                                          *)
(* Some operations go wrong in the code itself: suspect is set when one of  *)
(* them was asked for, and nothing is claimed from there on.                *)
(***************************************************************************)
EXTENDS Naturals, SequencesExt

CONSTANTS
    Clusters,      \* 2..n; the root directory starts in cluster 2
    ENTRIES, CLUSTER_SIZE,
    Slots,         \* Slots[name]: number_of_entries(), the long and the short ones
    Image,         \* the files on the disk at first: path -> contents
    Paths,         \* the paths that are asked for, of one or two names
    Directories,   \* the ones that mkdir() makes, touch() the others
    Sizes,         \* the sizes that are asked for
    Ranges         \* <<offset, count>> that are written and cleared

VARIABLES
    m,         \* [fat, free_clusters, data]: the disk
    tree,      \* what the operations promised: path -> [directory, bytes]
    suspect    \* an operation was asked for that the code cannot do

fatVars == <<m, tree, suspect>>

ROOT == 2
CLUSTER_FREE == 0
CLUSTER_END == 1
Entry(mark, long, name, directory, cluster, size) ==
    [mark |-> mark, long |-> long, name |-> name, directory |-> directory, cluster |-> cluster, size |-> size]
End == Entry("end", FALSE, "", FALSE, 0, 0)
Unused(e) == Entry("unused", e.long, "", FALSE, 0, 0)
Free(e) == e.mark \in {"end", "unused"}

-----------------------------------------------------------------------------
(* The file allocation table.                                               *)

next_cluster(d, c) == IF d.fat[c] = CLUSTER_END THEN 0 ELSE d.fat[c]

\* The clusters from c on; the length bounds the walk around a cycle.
Chain(d, c) ==
    LET Walk[n \in 1..Cardinality(Clusters) + 1] ==
            IF n = 1 THEN <<c>>
            ELSE LET w == Walk[n - 1]
                     next == next_cluster(d, Last(w))
                 IN IF next = 0 \/ Len(w) < n - 1 THEN w ELSE Append(w, next)
    IN Walk[Cardinality(Clusters) + 1]

find_free_cluster(d) ==
    LET free == {c \in Clusters : d.fat[c] = CLUSTER_FREE} IN IF free = {} THEN 0 ELSE Min(free)

write_fat_value(d, c, v) == [d EXCEPT !.fat[c] = v]

\* Mutant: the clusters of a chain are released, but not the last one.
Released_NotLast(d, c) == ToSet(Front(Chain(d, c)))

Released(d, c) == ToSet(Chain(d, c))

Release(d, c) ==
    LET gone == Released(d, c)
    IN [d EXCEPT !.fat = [x \in Clusters |-> IF x \in gone THEN CLUSTER_FREE ELSE d.fat[x]],
                 !.free_clusters = @ + Cardinality(gone)]

-----------------------------------------------------------------------------
(* Directories.                                                             *)

\* All the entries of a directory up to the first end mark.
UpToEnd(all) ==
    LET ends == {i \in DOMAIN all : all[i].mark = "end"}
    IN IF ends = {} THEN all ELSE SubSeq(all, 1, Min(ends) - 1)
Contents(d, chain) == FlattenSeq([k \in DOMAIN chain |-> d.data[chain[k]]])
Listed(d, c) == UpToEnd(Contents(d, Chain(d, c)))

\* The positions of the files; a file without a cluster is located in the root.
FilesOf(l) == {i \in DOMAIN l : l[i].mark = "used" /\ ~l[i].long}
files(d, c) == FilesOf(Listed(d, c))
location(e) == IF e.cluster = 0 THEN ROOT ELSE e.cluster

\* The position of a name in a directory, 0 when it is not there.
Position(l, name) ==
    LET found == {i \in FilesOf(l) : l[i].name = name}
    IN IF found = {} THEN 0 ELSE Min(found)
Find(d, c, name) == Position(Listed(d, c), name)

\* The directory of a path of one or two names, 0 when there is none.
DirectoryAt(l, i) == IF i = 0 THEN 0 ELSE location(l[i])
find_cluster_number(d, path) ==
    IF Len(path) = 1 THEN ROOT ELSE DirectoryAt(Listed(d, ROOT), Find(d, ROOT, path[1]))

FileAt(l, i) == IF i = 0 THEN [position |-> 0] ELSE l[i] @@ [position |-> i]
FileIn(d, c, name) == IF c = 0 THEN [position |-> 0] ELSE FileAt(Listed(d, c), Find(d, c, name))
get_file(d, path) == FileIn(d, find_cluster_number(d, path), Last(path))
Exists(d, path) == get_file(d, path).position # 0

\* The free entries of a cluster for n entries, with the end mark moved behind
\* them; start is 0 when there is not enough room for both.
Room(d, c, n) ==
    LET es == d.data[c]
        end == Min({i \in 1..ENTRIES : es[i].mark = "end"})
        starts == {s \in 1..ENTRIES - n + 1 : \A i \in s..s + n - 1 : Free(es[i])}
        s == Min(starts)
        ends == {i \in s + n..ENTRIES : \A j \in i..ENTRIES : Free(es[j])}
        moved == [es EXCEPT ![end] = Unused(@), ![Min(ends)] = End]
    IN CASE starts = {} -> [start |-> 0, entries |-> es]
         [] starts # {} /\ end > s + n - 1 -> [start |-> s, entries |-> es]
         [] starts # {} /\ end <= s + n - 1 /\ ends = {} -> [start |-> 0, entries |-> es]
         [] OTHER -> [start |-> s, entries |-> moved]

\* Mutant: the end marks of a full cluster stay.
Unmarked_Not(es) == es

HasEnd(d, c) == \E i \in 1..ENTRIES : d.data[c][i].mark = "end"
Unmarked(es) == [i \in 1..ENTRIES |-> IF es[i].mark = "end" THEN Unused(es[i]) ELSE es[i]]

\* A new cluster at the end of a directory; there may be none (a null pointer).
extend_directory(d, c) ==
    LET new == find_free_cluster(d)
        linked == write_fat_value(write_fat_value(d, c, new), new, CLUSTER_END)
    IN IF new = 0 THEN [disk |-> d, cluster |-> 0, start |-> 0]
       ELSE [disk |-> [linked EXCEPT !.free_clusters = @ - 1,
                                     !.data = [@ EXCEPT ![c] = Unmarked(@), ![new] = [i \in 1..ENTRIES |-> End]]],
             cluster |-> new, start |-> 1]

RECURSIVE find_free_entry(_, _, _)
find_free_entry(d, c, n) ==
    LET room == IF HasEnd(d, c) THEN Room(d, c, n) ELSE [start |-> 0, entries |-> d.data[c]]
        unmarked == [d EXCEPT !.data[c] = Unmarked(@)]
    IN CASE room.start # 0 -> [disk |-> [d EXCEPT !.data[c] = room.entries], cluster |-> c, start |-> room.start]
         [] room.start = 0 /\ next_cluster(d, c) # 0 -> find_free_entry(unmarked, next_cluster(d, c), n)
         [] OTHER -> extend_directory(unmarked, c)

\* init_entry: the long entries and the short one.
init_entry(f, name, directory, cluster) ==
    LET last == f.start + Slots[name] - 1
    IN [f.disk EXCEPT !.data[f.cluster] =
           [i \in 1..ENTRIES |->
              CASE i \in f.start..last - 1 -> Entry("used", TRUE, name, FALSE, 0, 0)
                [] i = last -> Entry("used", FALSE, name, directory, cluster, 0)
                [] OTHER -> @[i]]]

\* rm_file and change_directory_entry only find what is in the first cluster.
InFirst(position) == position <= ENTRIES

change_directory_entry(d, c, position, size) ==
    IF InFirst(position) THEN [d EXCEPT !.data[c][position].size = size] ELSE d

\* The entry and the long ones just before it.
rm_file(d, c, position, cluster) ==
    LET es == d.data[c]
        first == Min({i \in 1..position : \A j \in i..position - 1 : es[j].long})
        marked == [d EXCEPT !.data[c] = [i \in 1..ENTRIES |-> IF i \in first..position THEN Unused(es[i]) ELSE es[i]]]
    IN IF InFirst(position) THEN Release(marked, cluster) ELSE d

\* Everything in the directory first; an entry that is not found ends it all.
RECURSIVE rm_dir(_, _, _, _)
rm_dir(d, c, position, cluster) ==
    LET inside == {i \in files(d, cluster) : Listed(d, cluster)[i].name \notin {".", ".."}}
        i == Min(inside)
        e == Listed(d, cluster)[i]
        less == IF e.directory THEN rm_dir(d, cluster, i, location(e)) ELSE rm_file(d, cluster, i, location(e))
    IN IF inside = {} THEN rm_file(d, c, position, cluster)
       ELSE IF less = d THEN d ELSE rm_dir(less, c, position, cluster)

-----------------------------------------------------------------------------
(* The operations.                                                          *)

Put(f, x, y) == [z \in DOMAIN f \cup {x} |-> IF z = x THEN y ELSE f[z]]
Parent(path) == SubSeq(path, 1, Len(path) - 1)
HasParent(path) ==
    IF Len(path) = 1 THEN TRUE ELSE Exists(m, Parent(path)) /\ get_file(m, Parent(path)).directory
FullWhenExtending(f) == f.start = 0

\* vfs::open() only asks for it when there is no such file.
touch(path) ==
    LET f == find_free_entry(m, find_cluster_number(m, path), Slots[Last(path)])
    IN /\ HasParent(path) /\ ~Exists(m, path)
       /\ m' = IF FullWhenExtending(f) THEN m ELSE init_entry(f, Last(path), FALSE, 0)
       /\ tree' = Put(tree, path, [directory |-> FALSE, bytes |-> <<>>])
       /\ suspect' = FullWhenExtending(f)

NewDirectory(c, parent) ==
    [i \in 1..ENTRIES |-> CASE i = 1 -> Entry("used", FALSE, ".", TRUE, c, 0)
                            [] i = 2 -> Entry("used", FALSE, "..", TRUE, IF parent = ROOT THEN 0 ELSE parent, 0)
                            [] i = ENTRIES -> End
                            [] OTHER -> Unused(End)]

\* The new cluster is not yet taken when the parent directory is extended.
mkdir(path) ==
    LET parent == find_cluster_number(m, path)
        c == find_free_cluster(m)
        f == find_free_entry(m, parent, Slots[Last(path)])
        entered == write_fat_value(init_entry(f, Last(path), TRUE, c), c, CLUSTER_END)
        failed == FullWhenExtending(f)
    IN /\ HasParent(path) /\ ~Exists(m, path)
       /\ c # 0
       /\ m' = IF failed THEN m
               ELSE [entered EXCEPT !.free_clusters = @ - 1, !.data[c] = NewDirectory(c, parent)]
       /\ tree' = Put(tree, path, [directory |-> TRUE, bytes |-> <<>>])
       /\ suspect' = (failed \/ f.cluster = c)

Inside(path) == {p \in DOMAIN tree : IsPrefix(path, p)}
Empty(path) == ~tree[path].directory /\ get_file(m, path).cluster = 0

rm(path) ==
    LET f == get_file(m, path)
        c == find_cluster_number(m, path)
        after == IF f.directory THEN rm_dir(m, c, f.position, location(f)) ELSE rm_file(m, c, f.position, location(f))
    IN /\ Exists(m, path)
       /\ m' = after
       /\ tree' = [p \in DOMAIN tree \ Inside(path) |-> tree[p]]
       /\ suspect' = \E p \in Inside(path) : Empty(p) \/ ~InFirst(get_file(m, p).position)

\* One more cluster for the chain that ends in last, until there are enough.
\* A cluster is free until the next one is linked to it.
RECURSIVE Extended(_, _, _)
Extended(d, last, n) ==
    LET c == find_free_cluster(d)
    IN IF n = 0 THEN write_fat_value(d, last, CLUSTER_END)
       ELSE IF c = 0 THEN d
       ELSE Extended([write_fat_value(d, last, c) EXCEPT !.free_clusters = @ - 1], c, n - 1)

Bytes(bytes, size) == [i \in 1..size |-> IF i <= Len(bytes) THEN bytes[i] ELSE "any"]

truncate(path, size) ==
    LET f == get_file(m, path)
        chain == Chain(m, location(f))
        clusters == (size + CLUSTER_SIZE - 1) \div CLUSTER_SIZE
        more == IF f.size < size /\ Len(chain) < clusters THEN clusters - Len(chain) ELSE 0
        grown == IF more = 0 THEN m ELSE Extended(m, Last(chain), more)
        full == more # 0 /\ find_free_cluster(m) = 0
    IN /\ Exists(m, path) /\ ~f.directory /\ f.size # size
       /\ m' = IF full THEN m ELSE change_directory_entry(grown, find_cluster_number(m, path), f.position, size)
       /\ tree' = IF full THEN tree ELSE [tree EXCEPT ![path].bytes = Bytes(@, size)]
       /\ suspect' = (Empty(path) \/ more > 1 \/ ~InFirst(f.position))

\* The loop ends after the number of bytes up to the last one, counted from the
\* start of the first cluster: so it goes too far by what it left out there.
Overshoot(first) == first % CLUSTER_SIZE

\* The offsets that are accessed, from the first on.
Accessed(first, last, capacity) == {o \in first..last - 1 + Overshoot(first) : o < capacity}

\* write and clear: bytes[o] is what the file gets at offset o.
Written(d, chain, bytes) ==
    [d EXCEPT !.data =
        [c \in Clusters |-> IF c \notin ToSet(chain) THEN @[c] ELSE
            [b \in DOMAIN @[c] |->
                LET o == (CHOOSE k \in DOMAIN chain : chain[k] = c) * CLUSTER_SIZE - CLUSTER_SIZE + b - 1
                IN IF o \in DOMAIN bytes THEN bytes[o] ELSE @[c][b]]]]

\* What is beyond the caller's buffer goes to what is beyond the range.
Change(path, first, count, value, beyond) ==
    LET f == get_file(m, path)
        last == first + count
        chain == Chain(m, location(f))
        offsets == Accessed(first, last, Len(chain) * CLUSTER_SIZE)
        bytes == [o \in offsets |-> IF o < last THEN value ELSE beyond]
    IN /\ Exists(m, path) /\ ~f.directory
       /\ last <= f.size /\ count > 0
       /\ m' = IF Empty(path) THEN m ELSE Written(m, chain, bytes)
       /\ tree' = [tree EXCEPT ![path].bytes =
                      [i \in DOMAIN @ |-> IF i - 1 \in first..last - 1 THEN value ELSE @[i]]]
       /\ suspect' = (Empty(path) \/ \E o \in offsets : o >= last)

write(path, first, count) == Change(path, first, count, "y", "garbage")
clear(path, first, count) == Change(path, first, count, "zero", "zero")

\* The bytes of a file.
read(path) ==
    LET f == get_file(m, path)
        all == Contents(m, Chain(m, location(f)))
    IN [i \in 1..f.size |-> IF i \in DOMAIN all THEN all[i] ELSE "missing"]

-----------------------------------------------------------------------------

\* The image: one cluster per file of the root, with the bytes of the image.
FatInit ==
    LET names == SetToSeq(DOMAIN Image)
        n == Len(names)
        Used(i) == 2 * ((i + 1) \div 2)
    IN /\ m = [fat |-> [c \in Clusters |-> IF c <= ROOT + n THEN CLUSTER_END ELSE CLUSTER_FREE],
               free_clusters |-> Cardinality(Clusters) - 1 - n,
               data |-> [c \in Clusters |->
                  CASE c = ROOT ->
                         [i \in 1..ENTRIES |->
                            CASE i > 2 * n -> End
                              [] i <= 2 * n /\ i % 2 = 1 -> Entry("used", TRUE, names[Used(i) \div 2][1], FALSE, 0, 0)
                              [] OTHER -> Entry("used", FALSE, names[i \div 2][1], FALSE, ROOT + (i \div 2),
                                                Len(Image[names[i \div 2]]))]
                    [] c \in ROOT + 1..ROOT + n -> Bytes(Image[names[c - ROOT]], CLUSTER_SIZE)
                    [] OTHER -> [b \in 1..CLUSTER_SIZE |-> "old"]]]
       /\ tree = [p \in DOMAIN Image |-> [directory |-> FALSE, bytes |-> Image[p]]]
       /\ suspect = FALSE

FatNext ==
    /\ ~suspect
    /\ \E path \in Paths :
          \/ path \notin Directories /\ touch(path)
          \/ path \in Directories /\ mkdir(path)
          \/ rm(path)
          \/ \E size \in Sizes : truncate(path, size)
          \/ \E r \in Ranges : write(path, r[1], r[2]) \/ clear(path, r[1], r[2])

-----------------------------------------------------------------------------
(* Properties.                                                              *)

\* The paths of the tree that have clusters, and the root.
Own(path) == IF path = <<>> THEN ToSet(Chain(m, ROOT)) ELSE ToSet(Chain(m, get_file(m, path).cluster))
Owners == {<<>>} \cup {p \in DOMAIN tree : tree[p].directory \/ ~Empty(p)}

\* Through any sequence of operations, every cluster in use belongs to exactly
\* one file or directory, which has as many as its size needs, and the number of
\* free clusters is exact.
ChainsExact ==
    suspect \/
        /\ \A p, q \in Owners : p # q => Own(p) \cap Own(q) = {}
        /\ UNION {Own(p) : p \in Owners} = {c \in Clusters : m.fat[c] # CLUSTER_FREE}
        /\ m.free_clusters = Cardinality({c \in Clusters : m.fat[c] = CLUSTER_FREE})
        /\ \A p \in Owners \ {<<>>} : Cardinality(Own(p)) * CLUSTER_SIZE >= Len(tree[p].bytes)

\* Every file and directory that was created and not removed is found again with
\* its bytes, and nothing else is: no entry is behind an end mark, none is
\* overwritten, also when a directory goes on in another cluster.
TreeKept ==
    suspect \/
        /\ \A p \in Paths : Exists(m, p) = (p \in DOMAIN tree)
        /\ \A p \in DOMAIN tree :
              /\ get_file(m, p).directory = tree[p].directory
              /\ ~tree[p].directory =>
                    /\ get_file(m, p).size = Len(tree[p].bytes)
                    /\ \A i \in DOMAIN tree[p].bytes : tree[p].bytes[i] \in {"any", read(p)[i]}

\* "Find a free cluster in the disk": the cluster that find_free_cluster() finds
\* is not one of the root directory.
FreeClusterIsFree == find_free_cluster(m) \notin ToSet(Chain(m, ROOT))
=============================================================================
