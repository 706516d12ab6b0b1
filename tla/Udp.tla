--------------------------------- MODULE Udp ----------------------------------
(***************************************************************************)
(* UDP (net/udp_layer.cpp) and its collection of connections                *)
(* (net/connection_handler.hpp): processes bind, send, receive and unbind   *)
(* on a socket each while the receive thread looks up the connection of a   *)
(* datagram, queues it on the socket of the connection and notifies it; the *)
(* thread can be preempted between these.  A system call is atomic up to    *)
(* where it sleeps.  The memory of a connection is an address that is used  *)
(* again.  A peer answers every datagram, whenever it likes; another one    *)
(* writes to the port of the server.                                        *)
(***************************************************************************)
EXTENDS Naturals, Sequences, SequencesExt, FiniteSetsExt, FiniteSets

CONSTANTS Users, Memory, MaxBinds, MaxDatagrams, ServerPort

VARIABLES
    connections,  \* the list, in the order of creation
    sockets,      \* per process: connection_data and the queue of the socket
    local_port,
    answers,      \* the datagrams that arrive, in any order
    rx,           \* the receive thread
    waiting       \* per process: "no", "listen_queue" or "notified"

udpVars == <<connections, sockets, local_port, answers, rx, waiting>>

NoSocket == [data |-> 0, bound |-> FALSE, listen_packets |-> <<>>]
IdleRx == [pc |-> "idle", datagram |-> [port |-> 0, asker |-> "none"], at |-> 0, socket |-> "none", binding |-> 0]

UdpInit ==
    /\ connections = <<>>
    /\ sockets = [u \in Users |-> NoSocket]
    /\ local_port = 1023
    /\ answers = {}
    /\ rx = IdleRx
    /\ waiting = [u \in Users |-> "no"]

-----------------------------------------------------------------------------
\* The connections

At(a) == SelectInSeq(connections, LAMBDA c : c.at = a)
FreeMemory == {a \in Memory : At(a) = 0}

\* Mutant: the port of a client is not compared.
Matches_Any(c, port) == IF c.server THEN c.port = port ELSE TRUE

\* The datagrams of the model come from the port that the clients send to.
Matches(c, port) == c.port = port

get_connection_for_packet(port) == SelectInSeq(connections, LAMBDA c : Matches(c, port))

\* create_connection, and the links with the socket.
Link(u, a, port, server) ==
    /\ connections' = Append(connections, [at |-> a, port |-> port, server |-> server, socket |-> u, binding |-> local_port])
    /\ sockets' = [sockets EXCEPT ![u].data = a, ![u].bound = TRUE]

remove_connection(a) == connections' = RemoveAt(connections, At(a))

-----------------------------------------------------------------------------
\* The system calls; each process has one socket, which listens

Idle(u) == waiting[u] = "no"
\* The datagrams that were not received yet.
Traffic ==
    Cardinality(answers) + (IF rx.pc = "found" THEN 1 ELSE 0) +
    FoldSet(LAMBDA u, n : n + Len(sockets[u].listen_packets), 0, Users)

\* Every binding takes a port of its own.
client_bind(u) ==
    /\ Idle(u) /\ ~sockets[u].bound /\ local_port < 1023 + MaxBinds
    /\ local_port' = local_port + 1
    /\ \E a \in FreeMemory : Link(u, a, local_port', FALSE)
    /\ UNCHANGED <<answers, rx, waiting>>

server_bind(u) ==
    /\ Idle(u) /\ ~sockets[u].bound
    /\ \A i \in DOMAIN connections : ~connections[i].server
    /\ \E a \in FreeMemory : Link(u, a, ServerPort, TRUE)
    /\ UNCHANGED <<local_port, answers, rx, waiting>>

client_unbind(u) ==
    /\ Idle(u) /\ sockets[u].bound
    /\ remove_connection(sockets[u].data)
    /\ sockets' = [sockets EXCEPT ![u].bound = FALSE]
    /\ UNCHANGED <<local_port, answers, rx, waiting>>

\* A datagram leaves from the port of the connection; its answer will come there.
send(u) ==
    /\ Idle(u) /\ sockets[u].bound /\ Traffic < MaxDatagrams
    /\ LET c == connections[At(sockets[u].data)]
       IN ~c.server /\ answers' = answers \cup {[port |-> c.port, asker |-> u]}
    /\ UNCHANGED <<connections, sockets, local_port, rx, waiting>>

\* send_to answers the peer of the server; nothing comes back.
Ask ==
    /\ Traffic < MaxDatagrams
    /\ answers' = answers \cup {[port |-> ServerPort, asker |-> "peer"]}
    /\ UNCHANGED <<connections, sockets, local_port, rx, waiting>>

\* The first packet leaves the queue, also when the buffer is too small for it.
Pop(u) == sockets' = [sockets EXCEPT ![u].listen_packets = Tail(@)]

\* receive and receive_from.
receive(u) ==
    /\ Idle(u) /\ sockets[u].bound
    /\ IF sockets[u].listen_packets = <<>>
       THEN waiting' = [waiting EXCEPT ![u] = "listen_queue"] /\ UNCHANGED sockets
       ELSE Pop(u) /\ UNCHANGED waiting
    /\ UNCHANGED <<connections, local_port, answers, rx>>

\* What is read from the queue after a notification that comes late is not known.
Received(u) ==
    /\ waiting[u] = "notified"
    /\ waiting' = [waiting EXCEPT ![u] = "no"]
    /\ IF sockets[u].listen_packets # <<>> THEN Pop(u) ELSE UNCHANGED sockets
    /\ UNCHANGED <<connections, local_port, answers, rx>>

\* wait_for returns false: ERROR_SOCKET_TIMEOUT.
Expire(u) ==
    /\ waiting[u] = "listen_queue"
    /\ waiting' = [waiting EXCEPT ![u] = "no"]
    /\ UNCHANGED <<connections, sockets, local_port, answers, rx>>

-----------------------------------------------------------------------------
\* The receive thread: decode, in three steps

decode(d) ==
    /\ rx.pc = "idle"
    /\ answers' = answers \ {d}
    /\ LET i == get_connection_for_packet(d.port)
       IN rx' = IF i = 0 THEN IdleRx
                ELSE [pc |-> "found", datagram |-> d, at |-> connections[i].at, socket |-> connections[i].socket,
                      binding |-> connections[i].binding]
    /\ UNCHANGED <<connections, sockets, local_port, waiting>>

\* The socket that the memory of the connection names by now; freed memory still
\* names the one it had.
Target == IF At(rx.at) = 0 THEN rx.socket ELSE connections[At(rx.at)].socket
\* The connection was removed after it was looked up.
Outdated == At(rx.at) = 0 \/ connections[At(rx.at)].binding # rx.binding \/ connections[At(rx.at)].socket # rx.socket

Propagate ==
    /\ rx.pc = "found"
    /\ sockets' = [sockets EXCEPT ![Target].listen_packets = Append(@, [asker |-> rx.datagram.asker, outdated |-> Outdated])]
    /\ rx' = [rx EXCEPT !.pc = "queued", !.socket = Target]
    /\ UNCHANGED <<connections, local_port, answers, waiting>>

notify_one ==
    /\ rx.pc = "queued"
    /\ waiting' = [waiting EXCEPT ![rx.socket] = IF @ = "listen_queue" THEN "notified" ELSE @]
    /\ rx' = IdleRx
    /\ UNCHANGED <<connections, sockets, local_port, answers>>

UdpNext ==
    \/ \E u \in Users :
        \/ client_bind(u) \/ server_bind(u) \/ client_unbind(u)
        \/ send(u) \/ receive(u) \/ Received(u) \/ Expire(u)
    \/ Ask \/ (\E d \in answers : decode(d)) \/ Propagate \/ notify_one

-----------------------------------------------------------------------------
(* Properties.                                                              *)

For(u, packet) == packet.asker \in {u, "peer"}

\* A process only receives answers to its own datagrams, however late they come:
\* an answer to a binding that is gone reaches no later binding.  Except through
\* a connection that was removed while decode held a pointer to it.
AnswersReachAsker ==
    \A u \in Users : \A i \in DOMAIN sockets[u].listen_packets :
        sockets[u].listen_packets[i].outdated \/ For(u, sockets[u].listen_packets[i])

-------------------------------------------------------------------------------
(***************************************************************************)
(* DHCP (net/dhcp_layer.cpp) and network_discovery (net/network.cpp): the   *)
(* task that asks for an address, and the receive thread that queues the    *)
(* answers.  Both are kernel threads and can be preempted anywhere.  The    *)
(* servers of the network answer what they get, some of them for another    *)
(* machine that uses the same identification; answers are lost, repeated    *)
(* and late.  The options of an answer are the bytes that the code reads.   *)
(***************************************************************************)

CONSTANTS
    Offers,       \* the offers of the servers, as records of their options
    Strays,       \* answers that are for others
    MaxPackets    \* the answers that are queued, at most

VARIABLES
    task,         \* where network_discovery is
    packets,      \* the queue of the layer, read at its end
    listening,
    net,          \* the answers on their way
    dhcp_rx,           \* the receive thread: what it still has to notify
    conf,         \* what was read from the offer
    interface,    \* the interface, once it is configured
    asked         \* what was sent: "discover", and the address of the request

dhcpVars == <<task, packets, listening, net, dhcp_rx, conf, interface, asked>>

NoConf == [ip |-> <<>>, server |-> <<>>, gateway |-> <<>>, dns |-> <<>>]
DefaultAddress == <<10, 0, 2, 15>>
DefaultGateway == <<10, 0, 2, 2>>

DhcpInit ==
    /\ task = "start"
    /\ packets = <<>> /\ listening = FALSE
    /\ net = {} /\ dhcp_rx = FALSE
    /\ conf = NoConf
    /\ interface = [ip |-> <<>>, gateway |-> <<>>, dns |-> <<>>]
    /\ asked = [discover |-> FALSE, request |-> <<>>]

-----------------------------------------------------------------------------
\* The options: a list of options with the end mark, as bytes

Option(id, bytes) == <<id, Len(bytes)>> \o bytes
Options(list) == FlattenSeq(list) \o <<255>>
MessageType(type) == Option(53, <<type>>)

\* What follows the options in the packet reads as the end.
Byte(options, i) == IF i <= Len(options) THEN options[i] ELSE 255

\* Mutant: the bytes of the option are not skipped.
After_Head(i, n) == i + 2

\* The option that follows the one at i, with its n bytes.
After(i, n) == i + 2 + n

RECURSIVE ReadOffer(_, _, _)
\* The loop over the options of an offer: the type, the gateway, the name server.
ReadOffer(options, i, read) ==
    LET id == Byte(options, i)
        n == Byte(options, i + 1)
    IN CASE id = 255 -> read
         [] id = 0 -> ReadOffer(options, i + 1, read)
         [] n = 0 -> ReadOffer(options, i + 2, read)
         [] id = 53 -> ReadOffer(options, i + 3, [read EXCEPT !.offer = @ \/ Byte(options, i + 2) = 2])
         [] id = 3 -> ReadOffer(options, After(i, n), [read EXCEPT !.gateway = SubSeq(options, i + 2, i + 5)])
         [] id = 6 -> ReadOffer(options, After(i, n), [read EXCEPT !.dns = SubSeq(options, i + 2, i + 5)])
         [] OTHER -> ReadOffer(options, After(i, n), read)

\* Mutant: an offer is taken for an acknowledgement.
Acknowledges_Offer(type) == type \in {2, 5, 6}

\* The answers 5 and 6 end the discovery.
Acknowledges(type) == type \in {5, 6}

RECURSIVE ReadAck(_, _, _)
\* The loop over the options of an acknowledgement, which does not skip the
\* bytes of the other options.
ReadAck(options, i, ack) ==
    LET id == Byte(options, i)
        n == Byte(options, i + 1)
    IN CASE id = 255 -> ack
         [] id = 0 -> ReadAck(options, i + 1, ack)
         [] n = 0 -> ReadAck(options, i + 2, ack)
         [] id = 53 -> ReadAck(options, i + 3, ack \/ Acknowledges(Byte(options, i + 2)))
         [] OTHER -> ReadAck(options, i + 2, ack)

-----------------------------------------------------------------------------
\* request_ip

Goto(l) == task' = l

\* The packet is sent, or a layer below has an error and discovery falls back
\* to the addresses of Qemu.
Fallback ==
    /\ interface' = [ip |-> DefaultAddress, gateway |-> DefaultGateway, dns |-> DefaultGateway]
    /\ Goto("done")
    /\ UNCHANGED <<asked, net>>

SendDiscover ==
    /\ task = "start"
    /\ listening' = TRUE
    /\ \/ /\ asked' = [asked EXCEPT !.discover = TRUE]
          /\ net' = net \cup Offers \cup Strays
          /\ Goto("offer") /\ UNCHANGED interface
       \/ Fallback
    /\ UNCHANGED <<packets, dhcp_rx, conf>>

\* The answers to the request: of the server that was asked, to accept or to refuse.
AnswersTo(c) ==
    {[ip |-> c.ip, server |-> c.server, options |-> <<MessageType(t), Option(51, <<0, 1, 81, 128>>), Option(54, c.server)>>] :
        t \in {5, 6}}

SendRequest ==
    /\ task = "request"
    /\ \/ /\ asked' = [asked EXCEPT !.request = conf.ip]
          /\ net' = net \cup AnswersTo(conf)
          /\ Goto("ack") /\ UNCHANGED interface
       \/ Fallback
    /\ UNCHANGED <<packets, listening, dhcp_rx, conf>>

\* packets.empty(), and then the wait; the task may be preempted in between.
Look ==
    /\ task \in {"offer", "ack"}
    /\ Goto(IF packets # <<>> THEN (IF task = "offer" THEN "take_offer" ELSE "take_ack")
            ELSE (IF task = "offer" THEN "sleep_offer" ELSE "sleep_ack"))
    /\ UNCHANGED <<packets, listening, net, dhcp_rx, conf, interface, asked>>

wait ==
    /\ task \in {"sleep_offer", "sleep_ack"}
    /\ Goto(IF task = "sleep_offer" THEN "asleep_offer" ELSE "asleep_ack")
    /\ UNCHANGED <<packets, listening, net, dhcp_rx, conf, interface, asked>>

PopAnswer == packets' = Front(packets)

\* What the offer does not have keeps what an answer that was refused has set.
TakeOffer ==
    /\ task = "take_offer" /\ packets # <<>>
    /\ LET answer == Last(packets)
           read == ReadOffer(Options(answer.options), 1, [offer |-> FALSE, gateway |-> conf.gateway, dns |-> conf.dns])
       IN IF read.offer
          THEN conf' = [ip |-> answer.ip, server |-> answer.server, gateway |-> read.gateway, dns |-> read.dns] /\ Goto("request")
          ELSE conf' = [conf EXCEPT !.gateway = read.gateway, !.dns = read.dns] /\ Goto("offer")
    /\ PopAnswer
    /\ UNCHANGED <<listening, net, dhcp_rx, interface, asked>>

\* network_discovery gives the interface its own address as gateway.
Configured ==
    [ip |-> conf.ip, gateway |-> IF conf.gateway # <<>> THEN conf.ip ELSE DefaultGateway,
     dns |-> IF conf.dns # <<>> THEN conf.dns ELSE DefaultGateway]

TakeAck ==
    /\ task = "take_ack" /\ packets # <<>>
    /\ IF ReadAck(Options(Last(packets).options), 1, FALSE)
       THEN Goto("done") /\ listening' = FALSE /\ interface' = Configured
       ELSE Goto("ack") /\ UNCHANGED <<listening, interface>>
    /\ PopAnswer
    /\ UNCHANGED <<net, dhcp_rx, conf, asked>>

\* The last element of an empty queue: the task is not followed further.
TakeNothing ==
    /\ task \in {"take_offer", "take_ack"} /\ packets = <<>>
    /\ Goto("lost")
    /\ UNCHANGED <<packets, listening, net, dhcp_rx, conf, interface, asked>>

-----------------------------------------------------------------------------
\* decode, in the receive thread, and the network

dhcp_decode(answer) ==
    /\ ~dhcp_rx /\ Len(packets) < MaxPackets
    /\ IF listening THEN packets' = Append(packets, answer) /\ dhcp_rx' = TRUE ELSE UNCHANGED <<packets, dhcp_rx>>
    /\ \E again \in BOOLEAN : net' = IF again THEN net ELSE net \ {answer}
    /\ UNCHANGED <<task, listening, conf, interface, asked>>

dhcp_notify_one ==
    /\ dhcp_rx /\ dhcp_rx' = FALSE
    /\ task' = CASE task = "asleep_offer" -> "take_offer"
                 [] task = "asleep_ack" -> "take_ack"
                 [] OTHER -> task
    /\ UNCHANGED <<packets, listening, net, conf, interface, asked>>

Lose(answer) ==
    /\ net' = net \ {answer}
    /\ UNCHANGED <<task, packets, listening, dhcp_rx, conf, interface, asked>>

DhcpNext ==
    \/ SendDiscover \/ SendRequest \/ Look \/ wait \/ TakeOffer \/ TakeAck \/ TakeNothing \/ dhcp_notify_one
    \/ \E answer \in net : dhcp_decode(answer) \/ Lose(answer)

-----------------------------------------------------------------------------
(* Properties.                                                              *)

Find(list, id) == SelectInSeq(list, LAMBDA o : o[1] = id)
Content(list, id) == IF Find(list, id) = 0 THEN <<>>
                     ELSE LET o == list[Find(list, id)] IN SubSeq(o, 3, IF Len(o) < 6 THEN Len(o) ELSE 6)

\* The loop reads from every answer on its way the options that it has, wherever they are
\* between others and between pads: type 2 is an offer, and the gateway and the
\* name server are the contents of the options 3 and 6.
OptionsRead ==
    \A answer \in net :
        LET list == SelectSeq(answer.options, LAMBDA o : Len(o) > 2)
        IN ReadOffer(Options(answer.options), 1, [offer |-> FALSE, gateway |-> <<>>, dns |-> <<>>])
               = [offer |-> Content(list, 53) = <<2>>, gateway |-> Content(list, 3), dns |-> Content(list, 6)]

\* What ends the discovery is an answer to the request: no offer, however late
\* or repeated, gives the interface an
\* address; and the address is the one that was offered and then requested.
EndsWithAnswer ==
    task = "take_ack" /\ task' = "done" =>
        /\ \E t \in {5, 6} : Last(packets).options[1] = MessageType(t)
        /\ interface'.ip = asked.request
        /\ \E offer \in Offers : offer.ip = interface'.ip /\ offer.server = conf.server

-------------------------------------------------------------------------------
(***************************************************************************)
(* The resolver of the C library (tlib/src/dns.cpp): the query for a name   *)
(* as bytes, the walk over the bytes of an answer, and the loop of resolve  *)
(* over a server that answers, fails, repeats itself, answers late or never.*)
(* A character is its code; the header of a message is left out.            *)
(***************************************************************************)

CONSTANTS
    Domains,      \* the names that are asked for, as sequences of characters
    Replies,      \* the lists of records that a server answers
    Retries,      \* what retries may be
    TimeoutMs     \* timeout_ms

VARIABLES
    domain, retries,
    pc,           \* "request", "wait", "done"
    tries, elapsed, requests,
    inbox,        \* the replies on their way to the socket
    result        \* what resolve returns

dnsVars == <<domain, retries, pc, tries, elapsed, requests, inbox, result>>

Dot == 46
None == <<>>

-----------------------------------------------------------------------------
\* The names

\* The parts between the separators; parts without characters are left out.
Split(s) ==
    LET Part(i, j) == /\ i <= j
                      /\ \A k \in i..j : s[k] # Dot
                      /\ i = 1 \/ s[i - 1] = Dot
                      /\ j = Len(s) \/ s[j + 1] = Dot
        starts == SetToSortSeq({i \in 1..Len(s) : \E j \in i..Len(s) : Part(i, j)}, <)
    IN [n \in 1..Len(starts) |-> SubSeq(s, starts[n], CHOOSE j \in starts[n]..Len(s) : Part(starts[n], j))]

\* Mutant: one byte too few, for the name without its end.
payload_size_NoEnd(s) == Len(Split(s)) + Len(s) + 1 - Len(Split(s)) + 4

\* The bytes that send_request asks for: the labels, the characters without the
\* dots, the end, the type and the class.
payload_size(s) == Len(Split(s)) + (Len(s) + 1 - Len(Split(s))) + 1 + 4

Word(n) == <<n \div 256, n % 256>>

Label(part) == <<Len(part)>> \o part

\* The bytes that send_request writes.
Query(s, rr_type, rr_class) ==
    FlattenSeq([n \in DOMAIN Split(s) |-> Label(Split(s)[n])]) \o <<0>> \o Word(rr_type) \o Word(rr_class)

RECURSIVE Decoded(_, _, _)
\* decode_domain from offset: the name, and the offset after it.
Decoded(payload, offset, name) ==
    LET size == payload[offset]
    IN IF size = 0 THEN [name |-> name, offset |-> offset + 1]
       ELSE Decoded(payload, offset + 1 + size,
                    name \o (IF name = <<>> THEN <<>> ELSE <<Dot>>) \o SubSeq(payload, offset + 1, offset + size))

decode_domain(payload, offset) == Decoded(payload, offset, <<>>)

-----------------------------------------------------------------------------
\* An answer: the question, and a list of records [pointer, type, class, data]

Record(r) ==
    (IF r.pointer THEN <<192, 12>> ELSE Label(<<97>>) \o <<0>>)
        \o Word(r.type) \o Word(r.class) \o <<0, 0, 0, 60>> \o Word(Len(r.data)) \o r.data

Answer(records) == Query(domain, 1, 1) \o FlattenSeq([n \in DOMAIN records |-> Record(records[n])])

WordAt(payload, i) == 256 * payload[i] + payload[i + 1]

Address(ip) == [address |-> ip]
Error(e) == [error |-> e]

\* Mutant: a record is skipped without its data.
NextRecord_Head(at, rd_length) == at + 12

\* The record after the one at, with its name, ten bytes and its data.
NextRecord(at, rd_length) == at + 12 + rd_length

RECURSIVE Walk(_, _, _)
\* The loop of resolve over the answers.
Walk(payload, at, left) ==
    IF left = 0 THEN Error("SOCKET_TIMEOUT")
    ELSE IF payload[at] <= 64 THEN Error("UNSUPPORTED")
    ELSE IF WordAt(payload, at + 4) = 1 /\ WordAt(payload, at + 2) = 1
         THEN Address(SubSeq(payload, at + 12, at + 15))
    ELSE Walk(payload, NextRecord(at, WordAt(payload, at + 10)), left - 1)

\* The answers come after the question, of which only the length is used.
Resolved(reply) ==
    LET payload == Answer(reply.records)
    IN Walk(payload, decode_domain(payload, 1).offset + 4, Len(reply.records))

-----------------------------------------------------------------------------
\* resolve

DnsInit ==
    /\ domain \in Domains /\ retries \in Retries
    /\ pc = "request" /\ tries = 0 /\ elapsed = 0 /\ requests = 0
    /\ inbox = {} /\ result = None

Return(r) == pc' = "done" /\ result' = r

\* The server's replies to a request: records, or an error code.
AnswersRequest ==
    \E reply \in {[rcode |-> 0, records |-> l] : l \in Replies} \cup {[rcode |-> 3, records |-> <<>>]} :
        inbox' = inbox \cup {reply}

\* send_request fails when the socket does, which ends a retry like a timeout;
\* otherwise the server may answer.
send_request ==
    /\ pc = "request"
    /\ \/ Return(Error(IF tries = 0 THEN "socket" ELSE "SOCKET_TIMEOUT")) /\ UNCHANGED <<requests, inbox>>
       \/ /\ pc' = "wait" /\ requests' = requests + 1
          /\ AnswersRequest \/ UNCHANGED inbox
          /\ UNCHANGED result
    /\ UNCHANGED <<domain, retries, tries, elapsed>>

\* Mutant: one request too many.
LastTry_Late(n) == n > retries

\* The try was the last one.
LastTry(n) == n = retries

\* A reply with records ends the loop; one with an error, or without answers, is
\* followed by another request.
wait_for_packet ==
    /\ pc = "wait" /\ elapsed <= TimeoutMs
    /\ \E reply \in inbox :
        /\ \E again \in BOOLEAN : inbox' = IF again THEN inbox ELSE inbox \ {reply}
        /\ IF reply.rcode = 0 /\ reply.records # <<>>
           THEN Return(Resolved(reply)) /\ UNCHANGED tries
           ELSE /\ tries' = tries + 1
                /\ IF LastTry(tries') THEN Return(Error("SOCKET_TIMEOUT")) ELSE pc' = "request" /\ UNCHANGED result
    /\ UNCHANGED <<domain, retries, elapsed, requests>>

\* The wait ends with an error when nothing comes for what remains of the timeout.
TimesOut ==
    /\ pc = "wait"
    /\ Return(Error("SOCKET_TIMEOUT"))
    /\ UNCHANGED <<domain, retries, tries, elapsed, requests, inbox>>

Time ==
    /\ pc = "wait" /\ elapsed <= TimeoutMs
    /\ elapsed' = elapsed + 1
    /\ UNCHANGED <<domain, retries, pc, tries, requests, inbox, result>>

DnsNext == send_request \/ wait_for_packet \/ TimesOut \/ Time

-----------------------------------------------------------------------------
(* Properties.                                                              *)

Joined(parts) == FoldLeft(LAMBDA acc, p : acc \o (IF acc = <<>> THEN <<>> ELSE <<Dot>>) \o p, <<>>, parts)

\* The query that send_request writes stays inside the packet that it has asked
\* for, fills it when the name has no part without characters, and reads back,
\* with decode_domain, as the labels of the name in their order.
QueryReadsBack ==
    LET query == Query(domain, 1, 1)
        back == decode_domain(query, 1)
    IN /\ Len(query) <= payload_size(domain)
       /\ Joined(Split(domain)) = domain /\ domain # <<>> => Len(query) = payload_size(domain)
       /\ back.name = Joined(Split(domain))
       /\ WordAt(query, back.offset) = 1 /\ Len(query) = back.offset + 3

IsAddress(r) == r.type = 1 /\ r.class = 1

\* The result of a reply, by its list of records: the data of the first address,
\* unless a name before it is not compressed.
Reference(records) ==
    LET n == SelectInSeq(records, IsAddress)
        full == SelectInSeq(records, LAMBDA r : ~r.pointer)
    IN IF full # 0 /\ (n = 0 \/ full <= n) THEN Error("UNSUPPORTED")
       ELSE IF n = 0 THEN Error("SOCKET_TIMEOUT") ELSE Address(records[n].data)

\* resolve returns what a reply that has come says: the data of its first address
\* record, wherever records of other types and lengths are before it, and an
\* error when a name before it is not compressed.
FirstAddress ==
    pc = "wait" /\ pc' = "done" =>
        result' \in {Error("SOCKET_TIMEOUT")} \cup {Reference(reply.records) : reply \in inbox}

\* resolve sends at most retries requests (retries is at least 1 here; with 0 only
\* the timeout ends the loop), however many times a failed reply is repeated.
RequestsBounded == requests <= retries
===============================================================================
