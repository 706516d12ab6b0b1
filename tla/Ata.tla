--------------------------------- MODULE Ata ----------------------------------
(***************************************************************************)
(* The mutex that an interrupt handler releases and one thread waits on     *)
(* (conc/deferred_unique_mutex.hpp): one for each channel c of the ATA      *)
(* controller.  Of the scheduler it takes what the module Deferred shows: a *)
(* process that has blocked itself goes on exactly when it is unblocked,    *)
(* whether it has reached its reschedule() or not.                          *)
(***************************************************************************)
EXTENDS BlockCache

CONSTANTS Proc, nobody, Channels

VARIABLES
    pc,
    blocked,   \* the processes that are BLOCKED
    value, waiting, pid

mutexVars == <<blocked, value, waiting, pid>>

MutexInit ==
    /\ blocked = {}
    /\ value = [c \in Channels |-> 0]
    /\ waiting = [c \in Channels |-> FALSE]
    /\ pid = [c \in Channels |-> nobody]

At(p, l) == pc[p] = l
Goto(p, l) == pc' = [pc EXCEPT ![p] = l]

claim(c, p) == pid' = [pid EXCEPT ![c] = p]

\* Mutant: a notification is never used up.
Consume_Not(c) == UNCHANGED value

Consume(c) == value' = [value EXCEPT ![c] = 0]

\* waiting is reset by the thread, when it runs again.
wait(c, p, l, return) ==
    \/ /\ At(p, l)
       /\ value[c] > 0
       /\ Consume(c)
       /\ Goto(p, return)
       /\ UNCHANGED <<blocked, waiting, pid>>
    \/ /\ At(p, l)
       /\ value[c] = 0
       /\ waiting' = [waiting EXCEPT ![c] = TRUE]
       /\ blocked' = blocked \cup {pid[c]}
       /\ Goto(p, "reschedule")
       /\ UNCHANGED <<value, pid>>
    \/ /\ At(p, "reschedule")
       /\ p \notin blocked
       /\ waiting' = [waiting EXCEPT ![c] = FALSE]
       /\ Goto(p, return)
       /\ UNCHANGED <<blocked, value, pid>>

\* Mutant: only a thread that waits already is told.
notify_NoValue(c) ==
    /\ blocked' = IF waiting[c] THEN blocked \ {pid[c]} ELSE blocked
    /\ UNCHANGED <<value, waiting, pid>>

notify(c) ==
    /\ IF waiting[c]
       THEN blocked' = blocked \ {pid[c]} /\ UNCHANGED value
       ELSE value' = [value EXCEPT ![c] = 1] /\ UNCHANGED blocked
    /\ UNCHANGED <<waiting, pid>>

-------------------------------------------------------------------------------
(***************************************************************************)
(* The ATA driver (drivers/ata.cpp): processes that read, write and clear   *)
(* sectors through the block cache, one sector at a time under ata_lock,    *)
(* the controllers, and their interrupts.  ata_lock is taken at what the    *)
(* module Mutex shows it to promise.  Before the scheduler is started, the  *)
(* code that boots runs alone and polls a flag of the handler.              *)
(***************************************************************************)

CONSTANTS
    Drives, Channel,      \* Channel[d]: the controller of a drive
    Device, SectorSpan,   \* the key of a sector: the device shifted by 16 bits
    Sectors, BLOCK_SIZE,
    PartStart,            \* the partition descriptors: their first sector
    CountValues,          \* the number of values of the uint8_t count
    Counts, Offsets,      \* in bytes, the arguments of the calls
    Data,                 \* what is written
    MaxFaults             \* bound: the times a controller does not do as told

VARIABLES
    disk,        \* disk[d][s]
    payload,     \* payload[b]
    lock,        \* the owner of ata_lock, or nobody
    req,         \* req[p]: the request in progress
    started,     \* scheduler::is_started()
    invoked,     \* primary_invoked, secondary_invoked
    controller,  \* what the status register shows, and of which command
    irq,         \* the interrupt is pending
    faults,
    suspect      \* history: the sectors of which the last command failed, or ended
                 \* with the interrupt of an earlier command

ataVars == <<payload, lock, req, suspect>>
diskVars == <<disk, controller, irq, faults>>
driverVars == <<pc, mutexVars, cacheVars, ataVars, diskVars, started, invoked>>

Key(d, s) == Device[d] * SectorSpan + s
Idle == [status |-> "idle", op |-> "none", drive |-> "none", sector |-> 0, data |-> "zero"]
NoRequest == [op |-> "none", drive |-> "none", sector |-> 0, left |-> 0, data |-> "zero"]

AtaInit ==
    /\ MutexInit /\ CacheInit
    /\ pc = [p \in Proc |-> "out"]
    /\ disk = [d \in Drives |-> [s \in Sectors |-> "zero"]]
    /\ payload = [b \in Blocks |-> "garbage"]
    /\ lock = nobody
    /\ req = [p \in Proc |-> NoRequest]
    /\ started = FALSE /\ invoked = [c \in Channels |-> FALSE]
    /\ controller = [c \in Channels |-> Idle] /\ irq = [c \in Channels |-> FALSE]
    /\ faults = 0 /\ suspect = {}

-----------------------------------------------------------------------------
(* The drivers of the disks and of the partitions.                          *)

\* A request that is not of whole sectors is refused.  The number of sectors is
\* passed on as a uint8_t.
request(p, op, d, start, count, offset, data) ==
    /\ At(p, "out")
    /\ started \/ \A q \in Proc : pc[q] = "out"
    /\ count % BLOCK_SIZE = 0
    /\ offset % BLOCK_SIZE = 0
    /\ Goto(p, "next")
    /\ req' = [req EXCEPT ![p] =
                [op |-> op, drive |-> d, sector |-> offset \div BLOCK_SIZE + start,
                 left |-> (count \div BLOCK_SIZE) % CountValues, data |-> data]]
    /\ UNCHANGED <<mutexVars, cacheVars, payload, lock, suspect, diskVars, started, invoked>>

\* ata_driver (start = 0) and ata_part_driver
ata_driver(p, d, start, count, offset) ==
    \/ request(p, "READ", d, start, count, offset, "zero")
    \/ request(p, "CLEAR", d, start, count, offset, "zero")
    \/ \E v \in Data : request(p, "WRITE", d, start, count, offset, v)

-----------------------------------------------------------------------------
(* One command.                                                             *)

Mine(p) == Channel[req[p].drive]
This(p) == <<req[p].drive, req[p].sector>>

\* The guard of a request gives up the lock when it returns or goes round.
give_back(p, l) == lock' = nobody /\ Goto(p, l)

fail(p) ==
    /\ give_back(p, "out")
    /\ suspect' = suspect \cup {This(p)}
    /\ req' = [req EXCEPT ![p] = NoRequest]
    /\ UNCHANGED <<mutexVars, cacheVars, payload, diskVars, started, invoked>>

\* The controller is waited for at most a number of polls: BSY and DRQ must be
\* clear before a command.
select_device(p) ==
    \/ At(p, "select") /\ controller[Mine(p)].status \notin {"idle", "error"} /\ fail(p)
    \/ /\ At(p, "select")
       /\ controller[Mine(p)].status \in {"idle", "error"}
       /\ controller' = [controller EXCEPT ![Mine(p)] =
              [status |-> "busy", op |-> req[p].op, drive |-> req[p].drive,
               sector |-> req[p].sector, data |-> req[p].data]]
       /\ Goto(p, "poll")
       /\ UNCHANGED <<mutexVars, cacheVars, ataVars, disk, irq, faults, started, invoked>>

\* The data of a write follows when BSY is clear and there is no error.
poll(p) ==
    \/ At(p, "poll") /\ controller[Mine(p)].status \in {"stuck", "error"} /\ fail(p)
    \/ /\ At(p, "poll")
       /\ controller[Mine(p)].status = "data"
       /\ controller' = [controller EXCEPT ![Mine(p)].status =
              IF req[p].op = "READ" THEN @ ELSE "writing"]
       /\ IF started THEN claim(Mine(p), p) ELSE UNCHANGED pid
       /\ Goto(p, "wait_irq")
       /\ UNCHANGED <<blocked, value, waiting, cacheVars, ataVars, disk, irq, faults, started, invoked>>

\* ata_wait_irq_primary and ata_wait_irq_secondary
wait_irq(p) ==
    \/ /\ started
       /\ wait(Mine(p), p, "wait_irq", "status")
       /\ UNCHANGED <<cacheVars, ataVars, diskVars, started, invoked>>
    \/ /\ ~started
       /\ At(p, "wait_irq")
       /\ invoked[Mine(p)]
       /\ invoked' = [invoked EXCEPT ![Mine(p)] = FALSE]
       /\ Goto(p, "status")
       /\ UNCHANGED <<mutexVars, cacheVars, ataVars, diskVars, started>>

\* The error bit after the interrupt; then a read takes the data.
status(p) ==
    \/ At(p, "status") /\ controller[Mine(p)].status = "error" /\ fail(p)
    \/ /\ At(p, "status")
       /\ controller[Mine(p)].status # "error"
       /\ IF req[p].op = "READ"
          THEN /\ payload' = [payload EXCEPT ![block_if_present(Key(req[p].drive, req[p].sector))]
                                = disk[req[p].drive][req[p].sector]]
               /\ controller' = [controller EXCEPT ![Mine(p)] = Idle]
          ELSE UNCHANGED <<payload, controller>>
       /\ suspect' = IF controller[Mine(p)].status = "writing" THEN suspect \cup {This(p)}
                     ELSE suspect \ {This(p)}
       /\ Goto(p, "done")
       /\ UNCHANGED <<mutexVars, cacheVars, lock, req, disk, irq, faults, started, invoked>>

read_write_sector(p) == select_device(p) \/ poll(p) \/ wait_irq(p) \/ status(p)

-----------------------------------------------------------------------------
(* read_sectors, write_sectors and clear_sectors.                           *)

next_sector(p) ==
    \/ /\ At(p, "next")
       /\ req[p].left > 0
       /\ lock = nobody
       /\ lock' = p
       /\ Goto(p, "cache")
       /\ UNCHANGED <<mutexVars, cacheVars, payload, req, suspect, diskVars, started, invoked>>
    \/ /\ At(p, "next")
       /\ req[p].left = 0
       /\ req' = [req EXCEPT ![p] = NoRequest]
       /\ Goto(p, "out")
       /\ UNCHANGED <<mutexVars, cacheVars, payload, lock, suspect, diskVars, started, invoked>>

read_cache(p, k) ==
    LET b == block_if_present(k)
    IN /\ req[p].op = "READ"
       /\ block(k)
       /\ Goto(p, IF b # NoBlock THEN "done" ELSE "select")
       /\ UNCHANGED payload

\* Mutant: the cache is left alone by writes.
write_cache_Skips(p, k) ==
    /\ req[p].op # "READ"
    /\ Goto(p, "select")
    /\ UNCHANGED <<payload, cacheVars>>

\* The cached block is updated before the disk is.
write_cache(p, k) ==
    LET b == block_if_present(k)
    IN /\ req[p].op # "READ"
       /\ payload' = IF b # NoBlock THEN [payload EXCEPT ![b] = req[p].data] ELSE payload
       /\ Goto(p, "select")
       /\ UNCHANGED cacheVars

cached(p) ==
    /\ At(p, "cache")
    /\ \/ read_cache(p, Key(req[p].drive, req[p].sector))
       \/ write_cache(p, Key(req[p].drive, req[p].sector))
    /\ UNCHANGED <<mutexVars, lock, req, suspect, diskVars, started, invoked>>

\* The sector is done.
advance(p) ==
    /\ At(p, "done")
    /\ give_back(p, "next")
    /\ req' = [req EXCEPT ![p].sector = @ + 1, ![p].left = @ - 1]
    /\ UNCHANGED <<mutexVars, cacheVars, payload, suspect, diskVars, started, invoked>>

-----------------------------------------------------------------------------
(* The controllers.  They raise the interrupt when the data of a read is    *)
(* there, when a write is done, and on an error; one that is stuck answers  *)
(* when nobody polls it any more.                                           *)

respond(c, st) ==
    /\ controller' = [controller EXCEPT ![c] =
           [(IF st \in {"idle", "error"} THEN Idle ELSE @) EXCEPT !.status = st]]
    /\ irq' = [irq EXCEPT ![c] = @ \/ st \in {"idle", "error"} \/ (st = "data" /\ controller[c].op = "READ")]

\* A command that goes wrong.
fault(c, st) == faults < MaxFaults /\ faults' = faults + 1 /\ respond(c, st) /\ UNCHANGED disk

device(c) ==
    /\ \/ controller[c].status \in {"busy", "stuck"} /\ respond(c, "data") /\ UNCHANGED <<disk, faults>>
       \/ controller[c].status \in {"busy", "stuck", "writing"} /\ fault(c, "error")
       \/ controller[c].status = "busy" /\ fault(c, "stuck")
       \/ /\ controller[c].status = "writing"
          /\ respond(c, "idle")
          /\ disk' = [disk EXCEPT ![controller[c].drive][controller[c].sector] = controller[c].data]
          /\ UNCHANGED faults
    /\ UNCHANGED <<pc, mutexVars, cacheVars, ataVars, started, invoked>>

\* primary_controller_handler and secondary_controller_handler
controller_handler(c) ==
    /\ irq[c]
    /\ irq' = [irq EXCEPT ![c] = FALSE]
    /\ IF started
       THEN notify(c) /\ UNCHANGED invoked
       ELSE invoked' = [invoked EXCEPT ![c] = TRUE] /\ UNCHANGED <<mutexVars>>
    /\ UNCHANGED <<pc, cacheVars, ataVars, disk, controller, faults, started>>

start_scheduler ==
    /\ ~started
    /\ \A p \in Proc : pc[p] = "out"
    /\ started' = TRUE
    /\ UNCHANGED <<pc, mutexVars, cacheVars, ataVars, diskVars, invoked>>

Step(p) ==
    \/ \E d \in Drives, start \in PartStart, count \in Counts, offset \in Offsets :
        ata_driver(p, d, start, count, offset)
    \/ next_sector(p) \/ cached(p) \/ read_write_sector(p) \/ advance(p)

AtaNext ==
    \/ \E p \in Proc : Step(p)
    \/ \E c \in Channels : device(c) \/ controller_handler(c)
    \/ start_scheduler

AtaSpec == AtaInit /\ [][AtaNext]_driverVars

-----------------------------------------------------------------------------
(* Properties.                                                              *)

Waiting == {"wait_irq", "reschedule"}

\* The cache shows what is on the disk: through every mix of reads, writes and
\* clears of several processes, of hits and evictions, a cached sector differs
\* from the disk only while a command for it is in progress, or once one has
\* failed or was ended by the interrupt of another.
CacheCoherent ==
    \A d \in Drives, s \in Sectors :
        LET b == block_if_present(Key(d, s))
        IN \/ b = NoBlock
           \/ <<d, s>> \in suspect
           \/ lock # nobody /\ This(lock) = <<d, s>>
           \/ payload[b] = disk[d][s]

\* "Wait the IRQ to happen": as long as no command has gone wrong, the request
\* goes on only when the controller is done with its own command.
IrqOfOwnCommand ==
    \A p \in Proc : (faults = 0 /\ pc[p] = "status") => controller[Mine(p)].status # "writing"

\* No interrupt is lost between the command, the test of the deferred mutex, the
\* block of the process and its reschedule(): a process that is going to wait
\* for ever has a controller that is still busy, or an interrupt to come.
IrqIsNotLost ==
    \A p \in Proc :
        (started /\ pc[p] \in Waiting /\ (pc[p] = "reschedule" => p \in blocked)) =>
            \/ controller[Mine(p)].status = "writing"
            \/ irq[Mine(p)]
            \/ value[Mine(p)] = 1

\* Both: the interrupt that ends a wait is that of the command waited for.
InterruptsKept == IrqOfOwnCommand /\ IrqIsNotLost

-----------------------------------------------------------------------------
(* The inductive invariant that the interrupts rest on.                     *)

Locked == {"cache", "select", "poll", "wait_irq", "reschedule", "status", "done"}
Operations == {"none", "READ", "CLEAR", "WRITE"}
Requests == [op : Operations, drive : Drives \cup {"none"}, sector : Nat, left : Int,
             data : Data \cup {"zero"}]
Commands == [status : {"idle", "busy", "data", "writing", "stuck", "error"}, op : Operations,
             drive : Drives \cup {"none"}, sector : Nat, data : Data \cup {"zero"}]

TypeOK ==
    /\ pc \in [Proc -> Locked \cup {"out", "next"}]
    /\ lock \in Proc \cup {nobody}
    /\ req \in [Proc -> Requests]
    /\ value \in [Channels -> {0, 1}]
    /\ waiting \in [Channels -> BOOLEAN]
    /\ pid \in [Channels -> Proc \cup {nobody}]
    /\ started \in BOOLEAN
    /\ invoked \in [Channels -> BOOLEAN]
    /\ controller \in [Channels -> Commands]
    /\ irq \in [Channels -> BOOLEAN]
    /\ faults \in Nat

\* Whoever has the lock is at work on its sector, and nobody else is.
LockHeld ==
    \A p \in Proc : /\ pc[p] \in Locked <=> lock = p
                    /\ pc[p] # "out" => req[p].drive \in Drives

\* The deferred mutex of a channel is waited on by the process at its
\* reschedule(), which has claimed it.
WaiterKnown ==
    /\ \A c \in Channels : waiting[c] => \E p \in Proc : pc[p] = "reschedule" /\ Mine(p) = c
    /\ \A p \in Proc : /\ pc[p] = "reschedule" => started /\ waiting[Mine(p)]
                       /\ started /\ pc[p] \in Waiting => pid[Mine(p)] = p

\* What a process polls for is its own command.
OwnCommand ==
    \A p \in Proc : pc[p] = "poll" =>
        /\ controller[Mine(p)].status \in {"busy", "data", "stuck", "error"}
        /\ controller[Mine(p)].status # "error" => controller[Mine(p)].op = req[p].op

\* The interrupt of a read comes with the data, before the process waits for it.
DataComesWithIrq ==
    \A p \in Proc :
        (started /\ pc[p] = "poll" /\ controller[Mine(p)].status = "data" /\ req[p].op = "READ") =>
            irq[Mine(p)] \/ value[Mine(p)] = 1

\* An interrupt is pending, or was handled and not yet noticed by the process.
Unblocked(c) == waiting[c] /\ lock \notin blocked
Signal(c) == irq[c] \/ value[c] = 1 \/ invoked[c] \/ Unblocked(c)

OneSignal(c) ==
    /\ irq[c] => value[c] = 0 /\ ~invoked[c] /\ ~Unblocked(c)
    /\ value[c] = 1 => ~invoked[c] /\ ~Unblocked(c)
    /\ invoked[c] => ~Unblocked(c)

\* A channel that signals, or is not idle, does so for the holder of the lock.
SignalOfOwner(c) ==
    Signal(c) =>
        /\ lock \in Proc /\ Mine(lock) = c
        /\ \/ pc[lock] = "poll" /\ controller[c].status = "data" /\ req[lock].op = "READ"
           \/ pc[lock] \in Waiting /\ controller[c].status \in {"data", "idle"}

BusyForOwner(c) ==
    controller[c].status # "idle" =>
        /\ lock \in Proc /\ Mine(lock) = c
        /\ \/ pc[lock] = "poll" /\ controller[c].status \in {"busy", "data"}
           \/ pc[lock] \in Waiting \cup {"status"} /\ controller[c].status = "data" /\ req[lock].op = "READ"
           \/ pc[lock] \in Waiting /\ controller[c].status = "writing"

\* As long as no command has gone wrong, every interrupt answers the command
\* in progress, and answers it once.
InStep == faults = 0 => \A c \in Channels : OneSignal(c) /\ SignalOfOwner(c) /\ BusyForOwner(c)

IInv == TypeOK /\ LockHeld /\ WaiterKnown /\ OwnCommand /\ DataComesWithIrq /\ IrqIsNotLost /\ InStep

-----------------------------------------------------------------------------
(* The inductive invariant that the coherence of the cache rests on.        *)

\* The sectors that a request has still to go through are on the disk.
RequestOnDisk ==
    \A p \in Proc : pc[p] # "out" =>
        /\ req[p].left \in Nat
        /\ pc[p] \in Locked => req[p].left > 0
        /\ req[p].sector .. (req[p].sector + req[p].left - 1) \subseteq Sectors

\* What is cached of a sector is what is on the disk, if its last command went well.
SectorGood(d, s) ==
    <<d, s>> \in suspect \/ \A b \in Blocks : key[b] = Key(d, s) => payload[b] = disk[d][s]

Commanding == {"select", "poll", "wait_irq", "reschedule", "status"}

\* That holds of every sector but the one that a command is in progress for.
OthersGood ==
    \A d \in Drives, s \in Sectors :
        SectorGood(d, s) \/ (lock \in Proc /\ pc[lock] \in Commanding /\ This(lock) = <<d, s>>)

\* Before a sector is written, its block has the new data.
CacheFirst ==
    \A p \in Proc : (pc[p] \in Commanding /\ req[p].op # "READ") =>
        \A b \in Blocks : key[b] = Key(req[p].drive, req[p].sector) => payload[b] = req[p].data

\* A command k is the one that the process has given, and a write that is done
\* is on the disk: of a process at l with the request r, x on the disk.
Same(r, k) == k.drive = r.drive /\ k.sector = r.sector /\ k.data = r.data

Kept(l, r, k, x) ==
    /\ (l = "poll" /\ k.status # "error") => Same(r, k)
    /\ (l \in Waiting \cup {"status"} /\ r.op = "READ") => k.status = "data"
    /\ (l \in Waiting \cup {"status"} /\ r.op # "READ") =>
         /\ k.status \in {"writing", "idle", "error"}
         /\ k.status = "writing" => Same(r, k)
         /\ k.status = "idle" => x = r.data

CommandKept ==
    \A p \in Proc : Kept(pc[p], req[p], controller[Mine(p)], disk[req[p].drive][req[p].sector])

\* A write that nobody waits for any more is to a sector that is suspect.
StrayWrites ==
    \A c \in Channels : controller[c].status = "writing" =>
        /\ controller[c].drive \in Drives /\ Channel[controller[c].drive] = c
        /\ controller[c].sector \in Sectors
        /\ \/ <<controller[c].drive, controller[c].sector>> \in suspect
           \/ lock \in Proc /\ Mine(lock) = c /\ pc[lock] \in Waiting \cup {"status"} /\ req[lock].op # "READ"

DiskTypeOK ==
    /\ disk \in [Drives -> [Sectors -> Data \cup {"zero"}]]
    /\ payload \in [Blocks -> Data \cup {"zero", "garbage"}]

Coherence ==
    DiskTypeOK /\ CacheInv /\ RequestOnDisk /\ OthersGood /\ CacheFirst /\ CommandKept /\ StrayWrites

-----------------------------------------------------------------------------
(* What the constants are taken to be.                                      *)

\* There is a block at least.
SomeBlock == blocks \in Nat \ {0}

\* What the code knows of its arguments: a drive has one of the two channels,
\* and sectors and counts are unsigned.
Arguments ==
    /\ nobody \notin Proc
    /\ Channel \in [Drives -> Channels]
    /\ BLOCK_SIZE \in Nat \ {0} /\ CountValues \in Nat \ {0}
    /\ PartStart \subseteq Nat /\ Counts \subseteq Nat /\ Offsets \subseteq Nat

ASSUME AtaAssumption == Arguments

\* What the driver takes for granted: there is a block, no two sectors have the
\* same key, and requests stay on the disk.
DiskArguments ==
    /\ SomeBlock /\ Arguments
    /\ Sectors \subseteq Nat
    /\ \A d \in Drives, s \in Sectors : Key(d, s) \in Nat \ {0}
    /\ \A d, e \in Drives, s, t \in Sectors : Key(d, s) = Key(e, t) => d = e /\ s = t
    /\ \A start \in PartStart, count \in Counts, offset \in Offsets :
           LET first == offset \div BLOCK_SIZE + start
               n == (count \div BLOCK_SIZE) % CountValues
           IN first .. (first + n - 1) \subseteq Sectors

ASSUME DiskAssumption == DiskArguments
===============================================================================
