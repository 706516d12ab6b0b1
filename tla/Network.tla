------------------------------- MODULE Network --------------------------------
(***************************************************************************)
(* The interfaces of the network (net/network.cpp, net/interface.hpp) and   *)
(* the path of a packet through the loopback one (drivers/loopback.cpp):    *)
(* the senders that queue it under tx_lock, the transmit thread, the driver *)
(* that hands it to the receive queue with interrupts off, and the receive  *)
(* thread, which answers some of the packets through the same interface.    *)
(* The deque operations are single steps.                                   *)
(***************************************************************************)
EXTENDS Naturals, Sequences, SequencesExt, FiniteSets

CONSTANTS
    Senders,       \* the processes that send
    Devices,       \* the sequences of PCI network devices of a machine
    MaxSent        \* the packets that are sent, at most

VARIABLES
    interfaces,
    sender,        \* where a thread is in send, and its packet
    tx_lock,       \* the thread that has the mutex, or "none"
    tx_sem,        \* the semaphore: its value, and whether the tx thread waits
    tx_queue,
    tx,            \* the tx thread: where it is, and its packet
    rx_sem,        \* value, waiting
    rx_queue,
    rx,
    sentlog,       \* history: the packets in the order of their pushes
    decodedlog     \* history: the packets that were decoded

netifVars == <<interfaces, sender, tx_lock, tx_sem, tx_queue, tx, rx_sem, rx_queue, rx, sentlog, decodedlog>>

RxThread == "rx"
Threads == Senders \cup {RxThread}
Loopback == "127.0.0.1"
Other == "10.0.2.2"
NoPacket == 0

\* A packet is a number; the receive thread answers the odd ones with the next.
Answered(p) == p % 2 = 1

-----------------------------------------------------------------------------
\* init: one interface for a network device, enabled when it has a driver, and
\* the loopback as the last one

Interface(device) == [driver |-> IF device = "rtl8139" THEN "rtl8139" ELSE "", enabled |-> device = "rtl8139"]

init(devices) ==
    [i \in 1..(Len(devices) + 1) |->
        IF i <= Len(devices) THEN Interface(devices[i]) ELSE [driver |-> "loopback", enabled |-> TRUE]]

\* Mutant: the first interface, enabled or not.
select_interface_First(address) ==
    IF address = Loopback THEN SelectInSeq(interfaces, LAMBDA i : i.driver = "loopback") ELSE 1

\* The loopback for its address, the first enabled interface for the others.
select_interface(address) ==
    IF address = Loopback /\ \E i \in DOMAIN interfaces : interfaces[i].enabled /\ interfaces[i].driver = "loopback"
    THEN SelectInSeq(interfaces, LAMBDA i : i.enabled /\ i.driver = "loopback")
    ELSE SelectInSeq(interfaces, LAMBDA i : i.enabled)

Local(address) == interfaces[select_interface(address)].driver = "loopback"

NetifInit ==
    /\ \E devices \in Devices : interfaces = init(devices)
    /\ sender = [t \in Threads |-> [pc |-> "idle", packet |-> NoPacket]]
    /\ tx_lock = "none" /\ tx_sem = [value |-> 0, waiting |-> FALSE] /\ tx_queue = <<>>
    /\ tx = [pc |-> "lock", packet |-> NoPacket]
    /\ rx_sem = [value |-> 0, waiting |-> FALSE] /\ rx_queue = <<>>
    /\ rx = [pc |-> "claim", packet |-> NoPacket]
    /\ sentlog = <<>> /\ decodedlog = <<>>

rxVars == <<rx_sem, rx_queue, rx, decodedlog>>

-----------------------------------------------------------------------------
\* send: the lock, the push, the signal and the end of the lock

At(t, pc) == sender[t].pc = pc
Step(t, pc) == sender' = [sender EXCEPT ![t].pc = pc]

\* A process sends a new packet to an address that the loopback serves.
Send(t, address) ==
    /\ t \in Senders /\ At(t, "idle") /\ Local(address)
    /\ LET p == 1 + 2 * Len(sentlog)
       IN Len(sentlog) < MaxSent /\ \E q \in {p, p + 1} : sender' = [sender EXCEPT ![t] = [pc |-> "lock", packet |-> q]]
    /\ UNCHANGED <<interfaces, tx_lock, tx_sem, tx_queue, tx, sentlog, rxVars>>

Lock(t) ==
    /\ At(t, "lock") /\ tx_lock = "none"
    /\ tx_lock' = t /\ Step(t, "push")
    /\ UNCHANGED <<interfaces, tx_sem, tx_queue, tx, sentlog, rxVars>>

Push(t) ==
    /\ At(t, "push")
    /\ tx_queue' = Append(tx_queue, sender[t].packet)
    /\ sentlog' = Append(sentlog, sender[t].packet)
    /\ Step(t, "signal")
    /\ UNCHANGED <<interfaces, tx_lock, tx_sem, tx, rxVars>>

\* Mutant: a signal that wakes also counts.
Signalled_Twice(sem) == [value |-> sem.value + 1, waiting |-> FALSE]

\* A thread that waits takes the permit; otherwise the semaphore keeps it.
Signalled(sem) == IF sem.waiting THEN [sem EXCEPT !.waiting = FALSE] ELSE [sem EXCEPT !.value = @ + 1]

\* tx_sem.unlock and the end of the guard.
Signal(t) ==
    /\ At(t, "signal")
    /\ tx_sem' = Signalled(tx_sem)
    /\ tx' = IF tx_sem.waiting THEN [tx EXCEPT !.pc = "take"] ELSE tx
    /\ tx_lock' = "none" /\ Step(t, "idle")
    /\ UNCHANGED <<interfaces, tx_queue, sentlog, rxVars>>

-----------------------------------------------------------------------------
\* tx_thread

\* Mutant: the packet is taken at the wrong end.
Top_Last(queue) == <<Last(queue), Front(queue)>>

\* top() and pop(): the packet, and the rest.
Top(queue) == <<Head(queue), Tail(queue)>>

TxWait ==
    /\ tx.pc = "lock"
    /\ IF tx_sem.value > 0
       THEN tx_sem' = [tx_sem EXCEPT !.value = @ - 1] /\ tx' = [tx EXCEPT !.pc = "take"]
       ELSE tx_sem' = [tx_sem EXCEPT !.waiting = TRUE] /\ tx' = [tx EXCEPT !.pc = "asleep"]
    /\ UNCHANGED <<interfaces, sender, tx_lock, tx_queue, sentlog, rxVars>>

TxTake ==
    /\ tx.pc = "take" /\ tx_queue # <<>>
    /\ tx' = [pc |-> "hw_send", packet |-> Top(tx_queue)[1]]
    /\ tx_queue' = Top(tx_queue)[2]
    /\ UNCHANGED <<interfaces, sender, tx_lock, tx_sem, sentlog, rxVars>>

notify(sem) == IF sem.waiting THEN [sem EXCEPT !.waiting = FALSE] ELSE [sem EXCEPT !.value = @ + 1]

\* send_packet of the loopback driver.
send_packet ==
    /\ tx.pc = "hw_send"
    /\ rx_queue' = Append(rx_queue, tx.packet)
    /\ rx_sem' = notify(rx_sem)
    /\ rx' = IF rx_sem.waiting THEN [rx EXCEPT !.pc = "take"] ELSE rx
    /\ tx' = [pc |-> "lock", packet |-> NoPacket]
    /\ UNCHANGED <<interfaces, sender, tx_lock, tx_sem, tx_queue, sentlog, decodedlog>>

-----------------------------------------------------------------------------
\* rx_thread

txVars == <<interfaces, tx_lock, tx_sem, tx_queue, tx, sentlog>>

claim ==
    /\ rx.pc = "claim"
    /\ rx' = [rx EXCEPT !.pc = "wait"]
    /\ UNCHANGED <<txVars, sender, rx_sem, rx_queue, decodedlog>>

RxWait ==
    /\ rx.pc = "wait"
    /\ IF rx_sem.value > 0
       THEN rx_sem' = [rx_sem EXCEPT !.value = @ - 1] /\ rx' = [rx EXCEPT !.pc = "take"]
       ELSE rx_sem' = [rx_sem EXCEPT !.waiting = TRUE] /\ rx' = [rx EXCEPT !.pc = "asleep"]
    /\ UNCHANGED <<txVars, sender, rx_queue, decodedlog>>

RxTake ==
    /\ rx.pc = "take" /\ rx_queue # <<>>
    /\ rx' = [pc |-> "decode", packet |-> Top(rx_queue)[1]]
    /\ rx_queue' = Top(rx_queue)[2]
    /\ UNCHANGED <<txVars, sender, rx_sem, decodedlog>>

\* The layers decode the packet; a packet to answer is answered before the next.
decode ==
    /\ rx.pc = "decode"
    /\ decodedlog' = Append(decodedlog, rx.packet)
    /\ IF Answered(rx.packet)
       THEN rx' = [rx EXCEPT !.pc = "answer"] /\ sender' = [sender EXCEPT ![RxThread] = [pc |-> "lock", packet |-> rx.packet + 1]]
       ELSE rx' = [pc |-> "wait", packet |-> NoPacket] /\ UNCHANGED sender
    /\ UNCHANGED <<txVars, rx_sem, rx_queue>>

HasAnswered ==
    /\ rx.pc = "answer" /\ At(RxThread, "idle")
    /\ rx' = [pc |-> "wait", packet |-> NoPacket]
    /\ UNCHANGED <<txVars, sender, rx_sem, rx_queue, decodedlog>>

NetifNext ==
    \/ \E t \in Threads : Lock(t) \/ Push(t) \/ Signal(t) \/ \E a \in {Loopback, Other} : Send(t, a)
    \/ TxWait \/ TxTake \/ send_packet
    \/ claim \/ RxWait \/ RxTake \/ decode \/ HasAnswered

-----------------------------------------------------------------------------
(* Properties.                                                              *)

InHand(thread, pc) == IF thread.pc = pc THEN <<thread.packet>> ELSE <<>>

\* Every packet that was pushed is decoded once and in the order of the pushes:
\* what was decoded, what the receive thread has, its queue, what the transmit
\* thread has and its queue are, together, what was sent.
PacketsInOrder ==
    decodedlog \o InHand(rx, "decode") \o rx_queue \o InHand(tx, "hw_send") \o tx_queue = sentlog

\* The permits of the two semaphores are the packets of the two queues: no thread
\* takes from an empty queue, and none sleeps while its queue has a packet that
\* was signalled, though queues and semaphores are not changed together.
Signalling == {t \in Threads : At(t, "signal")}
PermitsArePackets ==
    /\ Len(tx_queue) = tx_sem.value + (IF tx.pc = "take" THEN 1 ELSE 0) + (IF Signalling # {} THEN 1 ELSE 0)
    /\ Len(rx_queue) = rx_sem.value + (IF rx.pc = "take" THEN 1 ELSE 0)

\* Whatever devices the machine has, every address has an enabled interface, and
\* the loopback's own address has the loopback, although it is the last one.
InterfaceSelected ==
    /\ \A address \in {Loopback, Other} : select_interface(address) # 0 /\ interfaces[select_interface(address)].enabled
    /\ Local(Loopback)

-------------------------------------------------------------------------------
(***************************************************************************)
(* The sockets of a program: the class tlib::socket (tlib/src/net.cpp) over *)
(* the socket calls of the kernel (net/network.cpp), with the connections   *)
(* that UDP and TCP keep for them.  A system call is a set of outcomes:     *)
(* what it leaves in the kernel and "ok", "error" or "halt", the last for a *)
(* failed assertion.  The memory of a connection is an address, used again  *)
(* once the connection is removed.  The fields that the constructors of     *)
(* tlib::socket do not initialise have any value.                           *)
(***************************************************************************)

CONSTANTS Objects, MaxSockets, Addresses, Kinds

VARIABLES
    objects,     \* the objects of the program
    kernel       \* the sockets of the process, and the connections of UDP and TCP

sockVars == <<objects, kernel>>

Types == {"RAW", "DGRAM", "STREAM"}

NoObject == [alive |-> FALSE, type |-> "RAW", protocol |-> "ICMP", fd |-> 0, error |-> FALSE, connected |-> FALSE, bound |-> FALSE]

SockInit ==
    /\ objects = [o \in Objects |-> NoObject]
    /\ kernel = [sockets |-> <<>>, connections |-> {}]

-----------------------------------------------------------------------------
\* The kernel

Socket(type, protocol) ==
    [valid |-> TRUE, type |-> type, protocol |-> protocol, listen |-> FALSE, data |-> 0]

Outcome(k, result) == [kernel |-> k, result |-> result]
Succeeds(k) == {Outcome(k, "ok")}
Fails(k) == {Outcome(k, "error")}
\* What depends on the network and leaves nothing behind.
Tries(k) == Succeeds(k) \cup Fails(k)

has_socket(k, fd) == fd \in DOMAIN k.sockets /\ k.sockets[fd].valid
\* What an invalid socket holds is not read again.
release_socket(k, fd) == [k EXCEPT !.sockets[fd] = [Socket(@.type, @.protocol) EXCEPT !.valid = FALSE]]
register_new_socket(k, type, protocol) == [k EXCEPT !.sockets = Append(@, Socket(type, protocol))]

ConnectionsAt(k, a) == {c \in k.connections : c.at = a}

\* create_connection and the links between it and its socket, for every address
\* that the allocator can return.
Created(k, fd, kind, child, connected) ==
    {[k EXCEPT !.sockets[fd].data = a,
               !.connections = @ \cup {[at |-> a, kind |-> kind, socket |-> fd, child |-> child, connected |-> connected]}] :
        a \in {x \in Addresses : ConnectionsAt(k, x) = {}}}

remove_connection(k, a) == [k EXCEPT !.connections = @ \ ConnectionsAt(k, a)]
Ended(k, a) == [k EXCEPT !.connections = {IF c.at = a THEN [c EXCEPT !.connected = FALSE] ELSE c : c \in @}]

\* get_connection_data, and the test of connected.  What a removed connection
\* reads as is not known.
WithData(k, fd, result) ==
    IF k.sockets[fd].data = 0 THEN {Outcome(k, "halt")}
    ELSE LET found == ConnectionsAt(k, k.sockets[fd].data)
         IN IF found = {} THEN Fails(k) \cup result
            ELSE IF \E c \in found : c.connected THEN result ELSE Fails(k)

datagram_port(protocol) == IF protocol = "DNS" THEN 53 ELSE 0

ValidKind(type, protocol) ==
    CASE type = "DGRAM" -> protocol \in {"DNS", "UDP"}
      [] type = "STREAM" -> protocol = "TCP"
      [] OTHER -> TRUE

open(k, type, protocol) ==
    IF ValidKind(type, protocol) THEN Succeeds(register_new_socket(k, type, protocol)) ELSE Fails(k)

close(k, fd) == IF has_socket(k, fd) THEN release_socket(k, fd) ELSE k

\* A call that is only for sockets of a type.
OfType(k, fd, type, result) ==
    IF has_socket(k, fd) /\ k.sockets[fd].type = type THEN result ELSE Fails(k)

\* Mutant: for sockets of every type.
ForStream_Any(k, fd, result) == IF has_socket(k, fd) THEN result ELSE Fails(k)

ForStream(k, fd, result) == OfType(k, fd, "STREAM", result)

client_bind(k, fd, port) ==
    OfType(k, fd, "DGRAM",
        IF port \/ datagram_port(k.sockets[fd].protocol) # 0
        THEN {Outcome(c, "ok") : c \in Created(k, fd, "udp", FALSE, TRUE)} ELSE Fails(k))

server_bind(k, fd, port) ==
    OfType(k, fd, "DGRAM",
        IF port \/ datagram_port(k.sockets[fd].protocol) # 0
        THEN {Outcome(c, "ok") : c \in Created(k, fd, "udp", FALSE, TRUE)} ELSE Fails(k))

client_unbind(k, fd) ==
    OfType(k, fd, "DGRAM", WithData(k, fd, Succeeds(remove_connection(k, k.sockets[fd].data))))

\* When the handshake fails, the connection that was created stays.
connect(k, fd) ==
    ForStream(k, fd,
        IF k.sockets[fd].protocol # "TCP" THEN Fails(k)
        ELSE {Outcome(c, "ok") : c \in Created(k, fd, "tcp", FALSE, TRUE)} \cup
             {Outcome(c, "error") : c \in Created(k, fd, "tcp", FALSE, FALSE)})

server_start(k, fd) ==
    ForStream(k, fd,
        IF k.sockets[fd].protocol # "TCP" THEN Fails(k)
        ELSE {Outcome(c, "ok") : c \in Created(k, fd, "tcp", FALSE, TRUE)})

\* The socket and the connection of the peer; both stay when the handshake fails.
Child(k, fd) ==
    LET s == k.sockets[fd]
    IN Created(register_new_socket(k, s.type, s.protocol), Len(k.sockets) + 1, "tcp", TRUE, TRUE)
accept(k, fd) ==
    ForStream(k, fd, WithData(k, fd, Fails(k) \cup
        (IF Len(k.sockets) < MaxSockets THEN {Outcome(c, r) : c \in Child(k, fd), r \in {"ok", "error"}} ELSE {})))

\* A connection that the peer has ended is not removed.
disconnect(k, fd) ==
    ForStream(k, fd,
        LET a == k.sockets[fd].data
        IN IF \E c \in ConnectionsAt(k, a) : ~c.connected THEN Succeeds(k)
           ELSE WithData(k, fd, Fails(k) \cup Succeeds(remove_connection(k, a))))

listen(k, fd, l) ==
    IF has_socket(k, fd) THEN Succeeds([k EXCEPT !.sockets[fd].listen = l]) ELSE Fails(k)

send(k, fd, protocols) ==
    IF has_socket(k, fd) /\ k.sockets[fd].protocol \in protocols THEN WithData(k, fd, Tries(k)) ELSE Fails(k)
receive(k, fd, protocols) ==
    IF has_socket(k, fd) /\ k.sockets[fd].listen /\ k.sockets[fd].protocol \in protocols
    THEN WithData(k, fd, Tries(k)) ELSE Fails(k)
wait_for_packet(k, fd) == IF has_socket(k, fd) /\ k.sockets[fd].listen THEN Tries(k) ELSE Fails(k)

\* The layers ask for the connection but do not test that it is connected.
prepare_packet(k, fd) ==
    LET s == k.sockets[fd]
    IN IF ~has_socket(k, fd) THEN Fails(k)
       ELSE IF s.protocol # "ICMP" /\ s.data = 0 THEN {Outcome(k, "halt")}
       ELSE Tries(k)
\* The packet may have been sent before, or not be sent.
finalize_packet(k, fd) == IF has_socket(k, fd) THEN Tries(k) ELSE Fails(k)

-----------------------------------------------------------------------------
\* tlib::socket

good(o) == ~objects[o].error
is_open(o) == objects[o].fd > 0
Usable(o) == objects[o].alive /\ good(o) /\ is_open(o)
Free(o) == objects[o] = NoObject

\* After a failed assertion the kernel is stopped.
Stopped == [NoObject EXCEPT !.error = TRUE]
\* What the program and the kernel have after a system call.
After(out, done, failed) ==
    CASE out.result = "ok" -> kernel' = out.kernel /\ objects' = done
      [] out.result = "error" -> kernel' = out.kernel /\ objects' = failed
      [] OTHER -> kernel' = [sockets |-> <<>>, connections |-> {}] /\ objects' = [o \in Objects |-> Stopped]
Does(o, outcomes, done, failed) ==
    \E out \in outcomes : After(out, [objects EXCEPT ![o] = done], [objects EXCEPT ![o] = failed])

Failed(o) == [objects[o] EXCEPT !.error = TRUE]

Construct(o, type, protocol) ==
    /\ Free(o) /\ Len(kernel.sockets) < MaxSockets
    /\ \E c, b \in BOOLEAN :
          LET new == [alive |-> TRUE, type |-> type, protocol |-> protocol, fd |-> 0, error |-> FALSE, connected |-> c, bound |-> b]
          IN Does(o, open(kernel, type, protocol),
                  [new EXCEPT !.fd = Len(kernel.sockets) + 1], [new EXCEPT !.error = TRUE])

\* Mutant: the source keeps its descriptor.
Moved_Keeps(s) == s

Moved(s) == [s EXCEPT !.fd = 0, !.connected = FALSE, !.bound = FALSE]

\* The move constructor, and the move assignment, which forgets what its target held.
Move(from, to) ==
    /\ objects[from].alive /\ from # to
    /\ objects' = [objects EXCEPT ![to] = objects[from], ![from] = Moved(objects[from])]
    /\ UNCHANGED kernel

clear(o) ==
    /\ objects[o].alive
    /\ objects' = [objects EXCEPT ![o].error = FALSE]
    /\ UNCHANGED kernel

Listen(o, l) == Usable(o) /\ Does(o, listen(kernel, objects[o].fd, l), objects[o], Failed(o))

Bound(o) == [objects[o] EXCEPT !.bound = TRUE]
BindFailed(o) == [objects[o] EXCEPT !.bound = FALSE, !.error = TRUE]
ClientBind(o, port) == Usable(o) /\ Does(o, client_bind(kernel, objects[o].fd, port), Bound(o), BindFailed(o))
ServerBind(o, port) == Usable(o) /\ Does(o, server_bind(kernel, objects[o].fd, port), Bound(o), BindFailed(o))

\* Mutant: the object stays bound.
Unbound_Keeps(s) == s

Unbound(s) == [s EXCEPT !.bound = FALSE]

ClientUnbind(o) ==
    Usable(o) /\ objects[o].bound /\ Does(o, client_unbind(kernel, objects[o].fd), Unbound(objects[o]), Failed(o))

Connected(o) == [objects[o] EXCEPT !.connected = TRUE]
ConnectFailed(o) == [objects[o] EXCEPT !.connected = FALSE, !.error = TRUE]
Connect(o) == Usable(o) /\ Does(o, connect(kernel, objects[o].fd), Connected(o), ConnectFailed(o))
ServerStart(o) == Usable(o) /\ Does(o, server_start(kernel, objects[o].fd), Connected(o), ConnectFailed(o))

Disconnected(s) == [s EXCEPT !.connected = FALSE]
Disconnect(o) ==
    Usable(o) /\ objects[o].connected /\ Does(o, disconnect(kernel, objects[o].fd), Disconnected(objects[o]), Failed(o))

\* Mutant: the flags of the accepted socket are those of its constructor.
Accepted_Flags(s, fd) == [s EXCEPT !.fd = fd, !.error = FALSE, !.connected = FALSE, !.bound = FALSE]

Accepted(s, fd) == [s EXCEPT !.fd = fd, !.error = FALSE, !.connected = TRUE, !.bound = FALSE]

\* The accepted socket is an object of its own.
Accept(o, child) ==
    /\ Usable(o) /\ Free(child)
    /\ \E out \in accept(kernel, objects[o].fd) :
          After(out, [objects EXCEPT ![child] = Accepted(objects[o], Len(out.kernel.sockets))],
                     [objects EXCEPT ![o] = Failed(o)])

\* With a timeout, the descriptor of the accepted socket is dropped.
AcceptFor(o) == Usable(o) /\ Does(o, accept(kernel, objects[o].fd), objects[o], Failed(o))

\* send, send_to, receive and receive_from return when the object is not bound or connected.
Ready(s) ==
    CASE s.type = "DGRAM" -> s.bound
      [] s.type = "STREAM" -> s.connected
      [] OTHER -> FALSE
Sends(o, protocols) == Usable(o) /\ Ready(objects[o]) /\ Does(o, send(kernel, objects[o].fd, protocols), objects[o], Failed(o))
Receives(o, protocols) == Usable(o) /\ Ready(objects[o]) /\ Does(o, receive(kernel, objects[o].fd, protocols), objects[o], Failed(o))

PreparePacket(o) == Usable(o) /\ Does(o, prepare_packet(kernel, objects[o].fd), objects[o], Failed(o))
FinalizePacket(o) == Usable(o) /\ Does(o, finalize_packet(kernel, objects[o].fd), objects[o], Failed(o))
WaitForPacket(o) == Usable(o) /\ Does(o, wait_for_packet(kernel, objects[o].fd), objects[o], Failed(o))

\* The destructor: disconnect and client_unbind, which do nothing after an
\* error, and socket_close.
Disconnecting(k, s) ==
    IF s.connected /\ ~s.error /\ s.fd > 0 THEN disconnect(k, s.fd) ELSE Succeeds(k)
Unbinding(out, s) ==
    IF s.bound /\ ~s.error /\ s.fd > 0 /\ out.result = "ok" THEN client_unbind(out.kernel, s.fd) ELSE {out}
Closing(out, s) == IF s.fd > 0 THEN [out EXCEPT !.kernel = close(@, s.fd)] ELSE out
Destroy(o) ==
    /\ objects[o].alive
    /\ LET s == objects[o]
           gone == [objects EXCEPT ![o] = NoObject]
       IN \E first \in Disconnecting(kernel, s) : \E out \in Unbinding(first, s) : After(Closing(out, s), gone, gone)

\* The receive thread: the peer of an accepted connection ends it.
PeerCloses(a) ==
    /\ \E c \in ConnectionsAt(kernel, a) : c.child /\ c.connected
    /\ kernel' = Ended(kernel, a)
    /\ UNCHANGED objects

SockNext ==
    \/ \E o \in Objects :
        \/ \E kind \in Kinds : Construct(o, kind[1], kind[2])
        \/ \E p \in Objects : Move(o, p) \/ Accept(o, p)
        \/ \E b \in BOOLEAN : Listen(o, b) \/ ClientBind(o, b) \/ ServerBind(o, b)
        \/ clear(o) \/ ClientUnbind(o) \/ Connect(o) \/ ServerStart(o) \/ Disconnect(o) \/ AcceptFor(o)
        \/ \E protocols \in {{"TCP", "UDP"}, {"UDP"}} : Sends(o, protocols) \/ Receives(o, protocols)
        \/ PreparePacket(o) \/ FinalizePacket(o) \/ WaitForPacket(o) \/ Destroy(o)
    \/ \E a \in Addresses : PeerCloses(a)

-----------------------------------------------------------------------------
(* Properties.                                                              *)

\* What an object says to be bound or connected to is the connection of its own
\* socket, also when the memory of a connection is used for another one: send,
\* receive, client_unbind and disconnect never reach the connection of another
\* socket.
ReachesOwnConnection ==
    \A o \in Objects :
        LET a == kernel.sockets[objects[o].fd].data
        IN Usable(o) /\ Ready(objects[o]) /\ a # 0 =>
               \E c \in ConnectionsAt(kernel, a) : c.socket = objects[o].fd

\* The object for whose socket a connection comes up says so, or has an error:
\* client_bind, server_bind, connect, server_start and accept never leave a
\* connection that the destructor does not know of.
Up(k, fd) ==
    fd \in DOMAIN k.sockets /\ \E c \in ConnectionsAt(k, k.sockets[fd].data) : c.connected /\ c.socket = fd
OwnerKnows ==
    \A o \in Objects :
        LET fd == objects[o]'.fd
        IN Usable(o)' /\ Up(kernel', fd) /\ ~Up(kernel, fd) => Ready(objects[o]')

\* No two objects own the same descriptor, so that none is closed under the
\* other, whatever was moved and accepted.
OneOwner ==
    \A o, p \in Objects : o # p /\ objects[o].fd > 0 => objects[o].fd # objects[p].fd

\* get_connection_data "must be the correct type": the connection of a stream
\* socket is one of TCP, that of a datagram socket one of UDP, and raw sockets
\* have none.
DataOfItsKind ==
    \A fd \in DOMAIN kernel.sockets :
        \A c \in kernel.connections :
            c.socket = fd => kernel.sockets[fd].type = (IF c.kind = "tcp" THEN "STREAM" ELSE "DGRAM")
===============================================================================
