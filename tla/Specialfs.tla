------------------------------ MODULE Specialfs -------------------------------
(***************************************************************************)
(* sysfs (fs/sysfs.cpp): a tree of folders and values in memory, filled by  *)
(* the kernel with constants and with functions that compute a value when   *)
(* it is read.                                                              *)
(***************************************************************************)
EXTENDS Naturals, SequencesExt

CONSTANTS SysPaths, SysValues

VARIABLES
    folders,     \* the paths of the folders
    values,      \* the values, in the order of their creation
    latest       \* what was set last, in each way: path -> kind -> value

sysVars == <<folders, values, latest>>

Kinds == {"_value", "fun", "fun_data"}
Nothing == [k \in Kinds |-> 0]
SysInit == folders = {} /\ values = <<>> /\ latest = [p \in SysPaths |-> Nothing]

\* The folders on the way to a path; the missing ones are created.
find_folder(path) == folders \cup {SubSeq(path, 1, n) : n \in 1..Len(path) - 1}
exists_folder(path) == path = <<>> \/ path \in folders

Position(path) == SelectInSeq(values, LAMBDA v : v.path = path)

\* sys_value::value(): a function with data, a function, or the constant.
value(v) == IF v.of["fun_data"] # 0 THEN v.of["fun_data"] ELSE IF v.of["fun"] # 0 THEN v.of["fun"] ELSE v.of["_value"]

\* Mutant: a value that is set again is a new one.
set_value_New(path, kind, x) == Append(values, [path |-> path, of |-> [Nothing EXCEPT ![kind] = x]])

set_value(path, kind, x) ==
    LET i == Position(path)
    IN IF i = 0 THEN Append(values, [path |-> path, of |-> [Nothing EXCEPT ![kind] = x]])
       ELSE [values EXCEPT ![i].of[kind] = x]

\* set_constant_value, set_dynamic_value and set_dynamic_value_data.
Set(path, kind, x) ==
    /\ folders' = find_folder(path)
    /\ values' = set_value(path, kind, x)
    /\ latest' = [latest EXCEPT ![path][kind] = x]

delete_value(path) ==
    /\ folders' = find_folder(path)
    /\ values' = SelectSeq(values, LAMBDA v : v.path # path)
    /\ latest' = [latest EXCEPT ![path] = Nothing]

\* With all that is in it.
delete_folder(path) ==
    LET Below(p) == IsPrefix(path, p)
    IN /\ folders' = {f \in find_folder(path) : ~Below(f)}
       /\ values' = SelectSeq(values, LAMBDA v : ~IsStrictPrefix(path, v.path))
       /\ latest' = [p \in SysPaths |-> IF IsStrictPrefix(path, p) THEN Nothing ELSE latest[p]]

SysNext ==
    \E p \in SysPaths :
        \/ \E kind \in Kinds, x \in SysValues : Set(p, kind, x)
        \/ delete_value(p) \/ delete_folder(p)

\* The kind of a path: a folder comes before a value of the same name.
sys_get_file(path) ==
    CASE ~exists_folder(Front(path)) -> "none"
      [] exists_folder(Front(path)) /\ path \in folders -> "folder"
      [] exists_folder(Front(path)) /\ path \notin folders /\ Position(path) # 0 -> "value"
      [] OTHER -> "none"

\* What read() copies, 0 when there is nothing.
sys_read(path) ==
    IF exists_folder(Front(path)) /\ Position(path) # 0 THEN value(values[Position(path)]) ELSE 0

\* The names of a folder, for ls().
sys_ls(path) ==
    {Last(f) : f \in {f \in folders : Front(f) = path}} \cup
    {Last(values[i].path) : i \in {i \in DOMAIN values : Front(values[i].path) = path}}

-----------------------------------------------------------------------------
\* Reading a value gives what was set last since it was last deleted, in the
\* strongest of the three ways, and it is listed by all the folders above it;
\* nothing comes back from a deleted folder.
SysReadsLatest ==
    \A p \in SysPaths :
        /\ sys_read(p) = value([of |-> latest[p]])
        /\ latest[p] # Nothing =>
              \A n \in 1..Len(p) : p[n] \in sys_ls(SubSeq(p, 1, n - 1))
        /\ sys_get_file(p) = "value" => latest[p] # Nothing

-------------------------------------------------------------------------------
(***************************************************************************)
(* procfs (fs/procfs.cpp): the process control blocks as files.  They are   *)
(* read while the garbage collector, which can be preempted, cleans a block *)
(* in several steps, and while blocks are taken again.                      *)
(***************************************************************************)

CONSTANT MAX_PROCESS

VARIABLES
    procs,       \* the blocks: state, pid, ppid
    cleaning     \* the block gc_task() has reset but not yet released, 0 when none

procVars == <<procs, cleaning>>

Slots == 0..MAX_PROCESS - 1
Idle == [state |-> "READY", pid |-> 0, ppid |-> 0]
ProcInit ==
    /\ procs = [i \in Slots |-> IF i = 0 THEN Idle ELSE [Idle EXCEPT !.state = "EMPTY"]]
    /\ cleaning = 0

Alive(i) == procs[i].state \notin {"EMPTY", "KILLED"}

\* scheduler: new_process, exit and the two last steps of gc_task.
new_process(i, parent) ==
    /\ procs[i].state = "EMPTY" /\ Alive(parent)
    /\ procs' = [procs EXCEPT ![i] = [state |-> "NEW", pid |-> i, ppid |-> parent]]
    /\ UNCHANGED cleaning
exit(i) ==
    /\ i # 0 /\ Alive(i)
    /\ procs' = [procs EXCEPT ![i].state = "KILLED"]
    /\ UNCHANGED cleaning
gc_reset(i) ==
    /\ cleaning = 0 /\ procs[i].state = "KILLED"
    /\ procs' = [procs EXCEPT ![i].pid = 0, ![i].ppid = 0]
    /\ cleaning' = i
gc_release ==
    /\ cleaning # 0
    /\ procs' = [procs EXCEPT ![cleaning].state = "EMPTY"]
    /\ cleaning' = 0

ProcNext ==
    \/ \E i \in Slots : exit(i) \/ gc_reset(i) \/ \E parent \in Slots : new_process(i, parent)
    \/ gc_release

-----------------------------------------------------------------------------
(* The files.                                                               *)

\* Mutant: the blocks that are not in use are listed too.
Shown_All(i) == TRUE

Shown(i) == procs[i].state # "EMPTY"

\* The names in the root: one per block in use, the number in the block.
ls == LET used == SelectSeq([i \in 1..MAX_PROCESS |-> i - 1], Shown) IN [k \in DOMAIN used |-> procs[used[k]].pid]

\* get_file and read take the number as the index of a block.
proc_get_file(n) == n < MAX_PROCESS /\ procs[n].state # "EMPTY"
get_value(n, name) == IF name = "pid" THEN procs[n].pid ELSE IF name = "ppid" THEN procs[n].ppid ELSE procs[n].state

\* Every directory that the root lists can be entered, and each process that is
\* not being cleaned is listed exactly once under its own number, with a parent
\* number that was a process; the block being cleaned shows as another 0.
ListedOnce ==
    /\ \A k \in DOMAIN ls : proc_get_file(ls[k])
    /\ \A i \in Slots \ {0} :
          Cardinality({k \in DOMAIN ls : ls[k] = i}) = IF procs[i].state # "EMPTY" /\ cleaning # i THEN 1 ELSE 0
    /\ Cardinality({k \in DOMAIN ls : ls[k] = 0}) = IF cleaning # 0 THEN 2 ELSE 1
    /\ \A i \in Slots : proc_get_file(i) /\ cleaning # i => get_value(i, "pid") = i

-------------------------------------------------------------------------------
(***************************************************************************)
(* devfs (fs/devfs.cpp): the devices registered under the mount points, and *)
(* the calls on open files that it passes on to their drivers.  A device    *)
(* may be removed, or another of the same name added, while a file is open. *)
(***************************************************************************)

CONSTANTS
    Mounts, DevNames,
    MaxDevices        \* bound: devices ever registered

VARIABLES
    devices,     \* mount point -> the devices registered there, in order
    serial,      \* the devices registered so far, to tell them apart
    opened,      \* the files open: [mount, name]
    reached      \* the device and the method the last call went to, or an error

devVars == <<devices, serial, opened, reached>>

DevTypes == {"BLOCK_DEVICE", "CHAR_DEVICE"}
Methods == {"read", "timed_read", "write", "clear", "size"}
None == [device |-> 0, method |-> "none", mount |-> "", name |-> ""]
DevInit ==
    /\ devices = [mp \in Mounts |-> <<>>]
    /\ serial = 0 /\ opened = {} /\ reached = None

register_device(mp, name, type, driver) ==
    /\ serial < MaxDevices
    /\ serial' = serial + 1
    /\ devices' = [devices EXCEPT ![mp] =
                      Append(@, [name |-> name, type |-> type, driver |-> driver, id |-> serial + 1])]
    /\ reached' = None
    /\ UNCHANGED opened

Without(s, name) == SelectSeq(s, LAMBDA d : d.name # name)

deregister_device(mp, name) ==
    /\ devices' = [devices EXCEPT ![mp] = Without(@, name)]
    /\ reached' = None
    /\ UNCHANGED <<serial, opened>>

\* Mutant: the mount point is not looked at.
Matching_AnyMount(mp, name) ==
    SelectSeq(FlattenSeq(SetToSeq({devices[x] : x \in Mounts})), LAMBDA d : d.name = name)

Matching(mp, name) == SelectSeq(devices[mp], LAMBDA d : d.name = name)

dev_get_file(mp, name) == Matching(mp, name) # <<>>

\* vfs::open() asks for the file first.
open(mp, name) ==
    /\ dev_get_file(mp, name)
    /\ opened' = opened \cup {[mount |-> mp, name |-> name]}
    /\ reached' = None
    /\ UNCHANGED <<devices, serial>>

\* What each kind of device can do; a character device has no offset.
Supported(d, method, offset) ==
    IF d.type = "BLOCK_DEVICE" THEN method # "timed_read" /\ d.driver
    ELSE method \in {"read", "timed_read", "write"} /\ offset = 0 /\ d.driver

\* read, write, clear and get_device_size: the first device of the name.
call(f, method, offset) ==
    LET ds == Matching(f.mount, f.name)
    IN /\ f \in opened
       /\ reached' = IF ds = <<>> \/ ~Supported(Head(ds), method, offset) THEN None
                     ELSE [device |-> Head(ds).id, method |-> method, mount |-> f.mount, name |-> f.name]
       /\ UNCHANGED <<devices, serial, opened>>

DevNext ==
    \/ \E mp \in Mounts, name \in DevNames :
          \/ \E type \in DevTypes, driver \in BOOLEAN : register_device(mp, name, type, driver)
          \/ deregister_device(mp, name)
          \/ open(mp, name)
    \/ \E f \in opened, method \in Methods, offset \in {0, 1} : call(f, method, offset)

-----------------------------------------------------------------------------
\* A call on a file that was opened earlier goes to a device that is registered
\* now under the mount point and the name of the file, and only with a method
\* that devices of its kind have: never to one that was removed since.
CallsRegistered ==
    reached # None =>
        \E i \in DOMAIN devices[reached.mount] :
            LET d == devices[reached.mount][i]
            IN /\ d.id = reached.device /\ d.name = reached.name
               /\ d.driver
               /\ reached.method = "timed_read" => d.type = "CHAR_DEVICE"
               /\ reached.method \in {"clear", "size"} => d.type = "BLOCK_DEVICE"

-------------------------------------------------------------------------------
(***************************************************************************)
(* How lists cross from the kernel to a program: vfs::entries() and         *)
(* vfs::mounts() lay records of different lengths one after the other into  *)
(* the program's buffer, each with the distance to the next one, and        *)
(* directory_iterator and the loops in ls, ps, df and mount walk over them. *)
(* A text is its number and its length.                                     *)
(***************************************************************************)

CONSTANTS
    Texts,          \* the texts of the names: [id, length]
    Lists,          \* the lists of records, each a sequence of texts
    BufferSizes, WORD

VARIABLES
    kind,           \* "entries" or "mounts"
    records,        \* what is listed: each record a sequence of texts
    buffer,         \* the records in memory: [at, fields, offset_next]
    buffer_size,
    removed,        \* the directory was removed after it was opened
    answer,         \* -1 before the call, the size, or an error
    cursor,         \* -1 before and after the walk
    seen            \* what the program read

listVars == <<kind, records, buffer, buffer_size, removed, answer, cursor, seen>>

ERROR_NOT_EXISTS == 6
ERROR_BUFFER_SMALL == 7
Value(v) == [valid |-> TRUE, value |-> v]
Error(c) == [valid |-> FALSE, value |-> c]
Waiting == [valid |-> FALSE, value |-> 0]

\* The first word-sized fields, then the texts, each with its final zero.
Words(k) == IF k = "entries" THEN 3 * WORD ELSE 4 * WORD
Stored(record) == FoldSeq(LAMBDA t, n : t.length + 1 + n, 0, record)

\* Mutant: the final zeros are left out of the distance.
Distance_NoZero(k, record) == Words(k) + Stored(record) - Len(record)

Distance(k, record) == Words(k) + Stored(record)

\* sizeof(directory_entry) has the padding after the first character.
Announced(k, record) ==
    IF k = "entries" THEN 4 * WORD + record[1].length ELSE 4 * WORD + Stored(record)

total_size(k, rs) == FoldSeq(LAMBDA r, n : Announced(k, r) + n, 0, rs)

\* The records in the buffer, with the distance 0 in the last one.
Laid(k, rs) ==
    LET position[i \in 1..Len(rs)] == IF i = 1 THEN 0 ELSE position[i - 1] + Distance(k, rs[i - 1])
    IN {[at |-> position[i], fields |-> rs[i], offset_next |-> IF i < Len(rs) THEN Distance(k, rs[i]) ELSE 0]
            : i \in DOMAIN rs}

ListInit ==
    /\ kind \in {"entries", "mounts"}
    /\ records \in {l \in Lists : \A i \in DOMAIN l : Len(l[i]) = IF kind = "entries" THEN 1 ELSE 3}
    /\ kind = "mounts" => records # <<>>
    /\ buffer_size \in BufferSizes
    /\ buffer = {} /\ removed = FALSE /\ answer = Waiting /\ cursor = 0 /\ seen = <<>>

\* Another process removes the directory: ls() of the file system then fails.
remove ==
    /\ kind = "entries" /\ answer = Waiting /\ ~removed
    /\ removed' = TRUE
    /\ UNCHANGED <<kind, records, buffer, buffer_size, answer, cursor, seen>>

\* The negated error is returned as a value.
list ==
    /\ answer = Waiting
    /\ CASE removed -> answer' = Value(0 - ERROR_NOT_EXISTS) /\ UNCHANGED buffer
         [] ~removed /\ buffer_size < total_size(kind, records) -> answer' = Error(ERROR_BUFFER_SMALL) /\ UNCHANGED buffer
         [] OTHER -> answer' = Value(total_size(kind, records)) /\ buffer' = Laid(kind, records)
    /\ UNCHANGED <<kind, records, buffer_size, removed, cursor, seen>>

\* The program reads the record at its position, then goes on by its distance.
\* An empty directory is not walked (ls), nor is an error.
walk ==
    LET here == {r \in buffer : r.at = cursor}
        r == CHOOSE r \in here : TRUE
    IN /\ answer.valid /\ answer.value # 0 /\ cursor >= 0
       /\ IF here = {} THEN seen' = Append(seen, "garbage") /\ cursor' = -1
          ELSE /\ seen' = Append(seen, r.fields)
               /\ cursor' = IF r.offset_next = 0 THEN -1 ELSE cursor + r.offset_next
       /\ UNCHANGED <<kind, records, buffer, buffer_size, removed, answer>>

ListNext == remove \/ list \/ walk

-----------------------------------------------------------------------------
\* Bytes that a record takes.
Bytes(r) == r.at..r.at + Words(kind) + Stored(r.fields) - 1

\* The program reads exactly the records that the kernel listed, in their order;
\* no record overlaps another or goes beyond the program's buffer.
ListsCross ==
    removed \/
        /\ IsPrefix(seen, records)
        /\ cursor = -1 => seen = records
        /\ \A r, s \in buffer : r # s => Bytes(r) \cap Bytes(s) = {}
        /\ \A r \in buffer : \A b \in Bytes(r) : b < buffer_size
===============================================================================
