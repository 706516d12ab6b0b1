------------------------------ MODULE MCFiles ------------------------------
(*****************************************************************************)
(* The file systems for TLC.  Each behaviour is about one component, the     *)
(* focus; the variables of the others are 0.                                 *)
(*****************************************************************************)
EXTENDS Naturals, Sequences, TLC

CONSTANTS Foci

VARIABLES
    focus,
    left, right,
    mount_point_list, handles, working_directory,
    m, tree, suspect,
    folders, values, latest,
    devices, serial, opened, reached,
    procs, cleaning,
    kind, records, buffer, buffer_size, removed, answer, cursor, seen

-----------------------------------------------------------------------------
(* The instances.                                                           *)

\* Every text of up to four letters and slashes; an absolute path, and one
\* below the working directory.
Asked == {<<"/", "a">>, <<"b">>}
Switch == INSTANCE Vfs WITH
    Characters <- {"a", "b"}, MaxLength <- 4, Proc <- {1, 2}, Paths <- Asked, Types <- {"FAT32"},
    MaxHandles <- 4, MaxMounts <- 5

\* A directory of six entries is full with three files; the image has one file
\* of one cluster, and there are three clusters for the rest.
FatPaths == {<<"f">>, <<"d">>, <<"g">>, <<"d", "g">>, <<"d", "h">>}
NameSlots == [f |-> 2, d |-> 2, g |-> 2, h |-> 3]
FirstFiles == [p \in {<<"f">>} |-> <<"x", "x">>]
WrittenRanges == {<<0, 2>>, <<1, 1>>}
Fat == INSTANCE Fat32 WITH
    Clusters <- 2..6, ENTRIES <- 6, CLUSTER_SIZE <- 2, Slots <- NameSlots, Image <- FirstFiles,
    Paths <- FatPaths, Directories <- {<<"d">>}, Sizes <- {1, 3}, Ranges <- WrittenRanges

SysTree == {<<"a">>, <<"a", "b">>}
\* Texts of no, one and more characters, up to three records.
Text(n) == [id |-> n, length |-> n]
Single == {<<Text(n)>> : n \in {0, 1, 3}}
Triple == {<<Text(1), Text(n), Text(2)>> : n \in {0, 3}}
Listed == UNION {[1..n -> Single] \cup [1..n -> Triple] : n \in 0..3}
Special == INSTANCE Specialfs WITH
    SysPaths <- SysTree, SysValues <- {1, 2}, MAX_PROCESS <- 4,
    Mounts <- {"dev", "dev2"}, DevNames <- {"hda"}, MaxDevices <- 3,
    Texts <- {Text(n) : n \in 0..3}, Lists <- Listed, BufferSizes <- {0, 10, 22, 31, 32, 60}, WORD <- 2

-----------------------------------------------------------------------------

pathVars == <<left, right>>
vfsVars == <<mount_point_list, handles, working_directory>>
fatVars == <<m, tree, suspect>>
sysVars == <<folders, values, latest>>
devVars == <<devices, serial, opened, reached>>
procVars == <<procs, cleaning>>
listVars == <<kind, records, buffer, buffer_size, removed, answer, cursor, seen>>
vars == <<focus, pathVars, vfsVars, fatVars, sysVars, devVars, procVars, listVars>>

NoPath == left = 0 /\ right = 0
NoVfs == mount_point_list = 0 /\ handles = 0 /\ working_directory = 0
NoFat == m = 0 /\ tree = 0 /\ suspect = 0
NoSys == folders = 0 /\ values = 0 /\ latest = 0
NoDev == devices = 0 /\ serial = 0 /\ opened = 0 /\ reached = 0
NoProc == procs = 0 /\ cleaning = 0
NoList ==
    /\ kind = 0 /\ records = 0 /\ buffer = 0 /\ buffer_size = 0 /\ removed = 0 /\ answer = 0
    /\ cursor = 0 /\ seen = 0

Init ==
    /\ focus \in Foci
    /\ IF focus = "path" THEN Switch!PathInit ELSE NoPath
    /\ IF focus = "vfs" THEN Switch!VfsInit ELSE NoVfs
    /\ IF focus = "fat32" THEN Fat!FatInit ELSE NoFat
    /\ IF focus = "sysfs" THEN Special!SysInit ELSE NoSys
    /\ IF focus = "devfs" THEN Special!DevInit ELSE NoDev
    /\ IF focus = "procfs" THEN Special!ProcInit ELSE NoProc
    /\ IF focus = "listing" THEN Special!ListInit ELSE NoList

UsePath ==
    /\ focus = "path" /\ Switch!PathNext
    /\ UNCHANGED <<focus, vfsVars, fatVars, sysVars, devVars, procVars, listVars>>

UseVfs ==
    /\ focus = "vfs" /\ Switch!VfsNext
    /\ UNCHANGED <<focus, pathVars, fatVars, sysVars, devVars, procVars, listVars>>

UseFat32 ==
    /\ focus = "fat32" /\ Fat!FatNext
    /\ UNCHANGED <<focus, pathVars, vfsVars, sysVars, devVars, procVars, listVars>>

UseSysfs ==
    /\ focus = "sysfs" /\ Special!SysNext
    /\ UNCHANGED <<focus, pathVars, vfsVars, fatVars, devVars, procVars, listVars>>

UseDevfs ==
    /\ focus = "devfs" /\ Special!DevNext
    /\ UNCHANGED <<focus, pathVars, vfsVars, fatVars, sysVars, procVars, listVars>>

UseProcfs ==
    /\ focus = "procfs" /\ Special!ProcNext
    /\ UNCHANGED <<focus, pathVars, vfsVars, fatVars, sysVars, devVars, listVars>>

UseListing ==
    /\ focus = "listing" /\ Special!ListNext
    /\ UNCHANGED <<focus, pathVars, vfsVars, fatVars, sysVars, devVars, procVars>>

Next == UsePath \/ UseVfs \/ UseFat32 \/ UseSysfs \/ UseDevfs \/ UseProcfs \/ UseListing

Spec == Init /\ [][Next]_vars

-----------------------------------------------------------------------------
(* Properties, each under the name it has in the module of its component.   *)

\* vfs: a path has the names of its text, in order, is its branch and its base name, its
\* root and its sub path, and is served by the deepest mount point above it.
PathsResolve ==
    /\ focus = "path" => Switch!PathIsNames /\ Switch!PathParts
    /\ focus = "vfs" => Switch!ResolvesToDeepest

\* vfs: the descriptor of an open file never names another file.
DescriptorsStable == [][focus = "vfs" => Switch!DescriptorKept]_vars

\* fat32: every cluster in use belongs to exactly one file or directory.
ChainsExact == focus = "fat32" => Fat!ChainsExact

\* fat32: what was created is found again with its bytes, and nothing else.
TreeKept == focus = "fat32" => Fat!TreeKept

\* fat32: the cluster that is found free is not one of the root directory.
FreeClusterIsFree == focus = "fat32" => Fat!FreeClusterIsFree

\* sysfs, devfs, procfs and the lists of vfs: a program sees what the kernel holds.  A value
\* reads as it was set last; an open file reaches only a device that is registered now;
\* every process is listed once, except while it is cleaned; and the records that cross
\* into the buffer of a program are exactly those that were listed.
SpecialFilesExact ==
    /\ focus = "sysfs" => Special!SysReadsLatest
    /\ focus = "devfs" => Special!CallsRegistered
    /\ focus = "procfs" => Special!ListedOnce
    /\ focus = "listing" => Special!ListsCross
=============================================================================
