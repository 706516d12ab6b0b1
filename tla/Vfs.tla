--------------------------------- MODULE Vfs ----------------------------------
(***************************************************************************)
(* The paths of the virtual file system (path.cpp): the text in its          *)
(* canonical form, and the positions of its slashes, from which the names   *)
(* are cut out.  Positions are counted from 1 here.                         *)
(***************************************************************************)
EXTENDS SequencesExt, Naturals

CONSTANTS
    Characters,  \* those of a name
    MaxLength    \* of the texts that are made into paths

VARIABLES
    left, right  \* the texts of two paths

pathVars == <<left, right>>

Texts == BoundedSeq(Characters \cup {"/"}, MaxLength) \ {<<>>}

Indexes(s) == [i \in DOMAIN s |-> i]

\* A slash is erased when it follows another one.
Kept(base, i) == i = 1 \/ base[i] # "/" \/ base[i - 1] # "/"

\* Mutant: doubled slashes are kept.
erase_Not(base) == base

erase(base) ==
    LET kept == SelectSeq(Indexes(base), LAMBDA i : Kept(base, i))
    IN [n \in DOMAIN kept |-> base[kept[n]]]

\* The canonical text; the positions are a function of it.
update_positions(base) ==
    LET erased == erase(base)
    IN IF base = <<>> \/ Last(erased) = "/" THEN erased ELSE Append(erased, "/")

positions(p) == SelectSeq(Indexes(p), LAMBDA i : p[i] = "/")

new_path(text) == update_positions(text)
Add(p, q) == update_positions(p \o q)
invalid == <<"/", "/">>

-----------------------------------------------------------------------------

is_root(p) == p = <<"/">>
is_absolute(p) == p # <<>> /\ p[1] = "/"
size(p) == Len(positions(p))
is_sub_root(p) == is_absolute(p) /\ size(p) = 2

\* What lies between the slash before the i-th name and the one after it.
Between(p, i) == SubSeq(p, positions(p)[i] + 1, positions(p)[i + 1] - 1)

base_name(p) ==
    CASE p = <<>> -> <<>>
      [] is_root(p) -> <<"/">>
      [] size(p) = 1 -> SubSeq(p, 1, Len(p) - 1)
      [] OTHER -> SubSeq(p, positions(p)[size(p) - 1] + 1, Len(p) - 1)

\* The names are counted from 0.
name(p, i) ==
    CASE i = 0 /\ is_absolute(p) -> <<"/">>
      [] i = 0 /\ ~is_absolute(p) -> SubSeq(p, 1, positions(p)[1] - 1)
      [] OTHER -> Between(p, i)

root_name(p) == IF p = <<>> THEN <<>> ELSE name(p, 0)
sub_root_name(p) == IF size(p) < 2 THEN <<>> ELSE SubSeq(p, 2, positions(p)[2] - 1)

sub_path(p, i) ==
    CASE i = 0 -> p
      [] i = size(p) -> <<>>
      [] OTHER -> update_positions(SubSeq(p, positions(p)[i] + 1, Len(p)))

branch_path(p) ==
    IF p = <<>> \/ is_root(p) \/ (~is_absolute(p) /\ size(p) = 1) THEN p
    ELSE update_positions(SubSeq(p, 1, positions(p)[size(p) - 1] - 1))

-----------------------------------------------------------------------------

PathInit == left \in Texts /\ right = <<"/">>

\* Another text for the second path.
PathNext == right = <<"/">> /\ right' \in Texts /\ UNCHANGED left

-----------------------------------------------------------------------------
(* Properties.                                                              *)

\* The names of a path, from the first on.
Names(p) == [i \in 1..size(p) |-> name(p, i - 1)]

\* A path is the sequence of its names, none of them empty, however its text
\* was written: "/a//b" and "/a/b/" are the same path and different names give
\* different paths.
PathIsNames ==
    LET p == new_path(left)
        q == new_path(right)
    IN /\ \A i \in 1..size(p) : Names(p)[i] # <<>>
       /\ base_name(p) = Last(Names(p))
       /\ root_name(p) = Head(Names(p))
       /\ is_sub_root(p) => sub_root_name(p) = Names(p)[2]
       /\ (p = q) = (Names(p) = Names(q))

\* Adding a relative path appends its names, sub_path and branch_path take
\* names off, so that get_fs_path finds the rest of a path below its mount
\* point.  (Of "/a" branch_path is the empty path, not the root.)
PathParts ==
    LET p == new_path(left)
        q == new_path(right)
    IN /\ \A i \in 1..size(p) - 1 : Names(sub_path(p, i)) = SubSeq(Names(p), i + 1, size(p))
       /\ size(p) > 1 /\ ~is_sub_root(p) => Names(branch_path(p)) = SubSeq(Names(p), 1, size(p) - 1)
       /\ ~is_absolute(q) => /\ Names(Add(p, q)) = Names(p) \o Names(q)
                             /\ sub_path(Add(p, q), size(p)) = q

-------------------------------------------------------------------------------
(***************************************************************************)
(* The virtual file system (vfs.cpp) and the file handles of the processes  *)
(* (scheduler.cpp): which mounted file system a path or a handle leads to.   *)
(* A path is the sequence of its names (see above), "/" the first one of an  *)
(* absolute path.  Of a file system only its files are kept; whether one of *)
(* its own operations succeeds is open here.                                *)
(***************************************************************************)

CONSTANTS
    Proc,         \* the slots of the pcb
    Paths,        \* the paths that processes name, absolute and relative
    Types,        \* the partition types that are asked for in mount()
    MaxHandles,   \* bound on the handles of a process
    MaxMounts     \* bound on the mount points

VARIABLES
    mount_point_list,   \* sequence of [type, mount_point, files]
    handles,            \* handles[p]: sequence of paths
    working_directory

vfsVars == <<mount_point_list, handles, working_directory>>

root == <<"/">>
undefined == <<>>         \* positions beyond the end of a path are read
tty == <<"/", "dev", "tty0">>
Known == {"FAT32", "SYSFS", "DEVFS", "PROCFS"}

mounted(type, mp, files) == [type |-> type, mount_point |-> mp, files |-> files]

\* vfs::init; the first process has the three standard handles.
VfsInit ==
    /\ mount_point_list = <<mounted("FAT32", root, {<<"/", "a">>, <<"/", "a", "b">>}), mounted("SYSFS", <<"/", "sys">>, {}),
                            mounted("DEVFS", <<"/", "dev">>, {<<"/", "tty0">>}), mounted("PROCFS", <<"/", "proc">>, {})>>
    /\ LET first == CHOOSE p \in Proc : TRUE
       IN handles = [p \in Proc |-> IF p = first THEN <<tty, tty, tty>> ELSE <<>>]
    /\ working_directory = [p \in Proc |-> root]

-----------------------------------------------------------------------------
(* Resolution.                                                              *)

get_path(p, text) == IF text[1] = "/" THEN text ELSE working_directory[p] \o text

\* All the names that both paths have are the same.
match(mp, path) == \A j \in 1..Min({Len(mp), Len(path)}) : mp[j] = path[j]

\* Mutant: the first file system that matches.
best_First(sizes, i) == \A j \in DOMAIN sizes : i <= j

\* The first of those with the longest mount point.
best(sizes, i) == \A j \in DOMAIN sizes : sizes[i] > sizes[j] \/ (sizes[i] = sizes[j] /\ i <= j)

get_fs(path) ==
    LET mps == [i \in DOMAIN mount_point_list |-> mount_point_list[i].mount_point]
        matches == {i \in DOMAIN mps : IF path = root THEN mps[i] = root ELSE match(mps[i], path)}
        sizes == [i \in matches |-> Len(mps[i])]
    IN CHOOSE i \in matches : best(sizes, i)

get_fs_path(path, i) ==
    LET mp == mount_point_list[i].mount_point
    IN CASE path = mp -> root
         [] path # mp /\ Len(path) > Len(mp) -> root \o SubSeq(path, Len(mp) + 1, Len(path))
         [] OTHER -> undefined

\* The file that a path denotes: its file system and its path there.
Resolve(path) == LET i == get_fs(path) IN <<i, get_fs_path(path, i)>>
exists(path) == LET f == Resolve(path) IN f[2] \in mount_point_list[f[1]].files
IsRoot(path) == Resolve(path)[2] = root
Defined(path) == Resolve(path)[2] # undefined

-----------------------------------------------------------------------------
(* Handles.                                                                 *)

\* Mutant: a handle that was closed is used again.
register_new_handle_Reuse(hs, path) ==
    IF \E fd \in DOMAIN hs : hs[fd] = invalid
    THEN [hs EXCEPT ![CHOOSE fd \in DOMAIN hs : hs[fd] = invalid] = path]
    ELSE Append(hs, path)

register_new_handle(hs, path) == Append(hs, path)

has_handle(p, fd) == fd \in DOMAIN handles[p] /\ handles[p][fd] # invalid

Register(p, path) ==
    /\ Len(handles[p]) < MaxHandles
    /\ handles' = [handles EXCEPT ![p] = register_new_handle(@, path)]

Files(i, files) == mount_point_list' = [mount_point_list EXCEPT ![i].files = files]

-----------------------------------------------------------------------------
(* The operations; one that fails changes nothing.                          *)

\* Where read, write, clear, truncate, stat and entries go: the file system and
\* the path there, or an error.
access(p, fd) ==
    CASE ~has_handle(p, fd) -> <<"ERROR_INVALID_FILE_DESCRIPTOR">>
      [] has_handle(p, fd) /\ handles[p][fd] = root -> <<"ERROR_INVALID_FILE_PATH">>
      [] OTHER -> Resolve(handles[p][fd])

Standard == 3   \* the standard handles
Running(p) == handles[p] # <<>>

open(p, text, create) ==
    LET path == get_path(p, text)
        f == Resolve(path)
        old == mount_point_list[f[1]].files
    IN /\ Running(p) /\ Defined(path)
       /\ \/ /\ IsRoot(path) \/ exists(path)
             /\ UNCHANGED mount_point_list
          \/ /\ create /\ ~IsRoot(path) /\ ~exists(path)
             /\ mount_point_list[f[1]].type = "FAT32"  \* touch() of the others fails
             /\ Files(f[1], old \cup {f[2]})
       /\ Register(p, path)
       /\ UNCHANGED working_directory

close(p, fd) ==
    /\ has_handle(p, fd)
    /\ handles' = [handles EXCEPT ![p][fd] = invalid]
    /\ UNCHANGED <<mount_point_list, working_directory>>

\* mkdir and rm, by path; rm of a directory takes all that is in it.
mkdir(p, text) ==
    LET f == Resolve(get_path(p, text))
        fs == mount_point_list[f[1]]
    IN /\ Running(p) /\ Defined(get_path(p, text))
       /\ fs.type = "FAT32" /\ ~IsRoot(get_path(p, text))
       /\ Files(f[1], fs.files \cup {f[2]})
       /\ UNCHANGED <<handles, working_directory>>

rm(p, text) ==
    LET f == Resolve(get_path(p, text))
        fs == mount_point_list[f[1]]
    IN /\ Running(p) /\ Defined(get_path(p, text))
       /\ fs.type = "FAT32" /\ exists(get_path(p, text))
       /\ Files(f[1], {g \in fs.files : ~IsPrefix(f[2], g)})
       /\ UNCHANGED <<handles, working_directory>>

\* The handles of a mount point and of a device; the new file system is empty,
\* or has what it had.
mount(p, type, mp_fd, dev_fd) ==
    /\ has_handle(p, mp_fd) /\ has_handle(p, dev_fd)
    /\ \A i \in DOMAIN mount_point_list : mount_point_list[i].mount_point # handles[p][mp_fd]
    /\ type \in Known
    /\ Len(mount_point_list) < MaxMounts
    /\ mount_point_list' = Append(mount_point_list, mounted(type, handles[p][mp_fd], {}))
    /\ UNCHANGED <<handles, working_directory>>

cwd(p, path) ==
    /\ Running(p) /\ path[1] = "/"
    /\ working_directory' = [working_directory EXCEPT ![p] = path]
    /\ UNCHANGED <<mount_point_list, handles>>

\* exec() gives the working directory and the first three handles to the child.
exec(p, q) ==
    /\ Running(p) /\ ~Running(q)
    /\ handles' = [handles EXCEPT ![q] = SubSeq(handles[p], 1, 3)]
    /\ working_directory' = [working_directory EXCEPT ![q] = working_directory[p]]
    /\ UNCHANGED <<mount_point_list>>

\* The garbage collector clears the handles of a killed process.
clean(p) ==
    /\ Running(p) /\ \E q \in Proc \ {p} : Running(q)
    /\ handles' = [handles EXCEPT ![p] = <<>>]
    /\ UNCHANGED <<mount_point_list, working_directory>>

VfsNext ==
    \E p \in Proc :
        \/ \E text \in Paths : open(p, text, TRUE) \/ open(p, text, FALSE) \/ mkdir(p, text) \/ rm(p, text) \/ cwd(p, text)
        \/ \E fd \in Standard..MaxHandles : close(p, fd) \/ \E type \in Types : mount(p, type, fd, 1)
        \/ \E q \in Proc : exec(p, q)
        \/ clean(p)

-----------------------------------------------------------------------------
(* Properties.                                                              *)

Mounts == {mount_point_list[i].mount_point : i \in DOMAIN mount_point_list}

Deepest(path, f) ==
    LET above == {mp \in Mounts : IsPrefix(mp, path)}
        mp == mount_point_list[f[1]].mount_point
    IN (\A m \in Mounts : ~IsStrictPrefix(path, m)) =>
          /\ mp \in above
          /\ \A other \in above : Len(other) <= Len(mp)
          /\ mp \o Tail(f[2]) = path

\* Whatever was mounted over what, and also after the handle was opened, a path
\* or a handle leads to the file system with the longest mount point above it,
\* and what is below the mount point is the path there.  (Except for a path that
\* is itself above a mount point, whose names get_fs compares with too few.)
ResolvesToDeepest ==
    \A p \in Proc :
        /\ \A text \in Paths : Deepest(get_path(p, text), Resolve(get_path(p, text)))
        /\ \A fd \in DOMAIN handles[p] :
              (has_handle(p, fd) /\ handles[p][fd] # root) => Deepest(handles[p][fd], access(p, fd))

\* A descriptor leads to the path it was opened with until it is closed, and
\* never again after that, as long as its process lives: no later open() gets
\* its number.
DescriptorKept ==
    \A p \in Proc : handles'[p] # <<>> =>
        \A fd \in DOMAIN handles[p] : handles'[p][fd] \in {handles[p][fd], invalid}
===============================================================================
