------------------------------ MODULE MCNetwork ------------------------------
(*****************************************************************************)
(* The network for TLC.  Each behaviour is about one component, the focus;   *)
(* the variables of the others are 0.                                        *)
(*****************************************************************************)
EXTENDS Naturals, Sequences, TLC

CONSTANTS Foci

VARIABLES
    focus,
    cache, thread, outcome, heard,
    conn, net, call, sent, acked, got, deaf, losses, early, notices,
    objects, kernel,
    connections, sockets, local_port, answers, rx, udp_waiting,
    task, dhcp_packets, listening, dhcp_net, dhcp_rx, conf, interface, asked,
    domain, retries, dns_pc, tries, elapsed, requests, inbox, result,
    interfaces, sender, tx_lock, tx_sem, tx_queue, tx, rx_sem, rx_queue, rx_thread, sentlog, decodedlog,
    packet, message, stage,
    state, current, pc, value, waiting, pid, cur_tx, dirty_tx, entry, tx_status, sending, isr, stale

-----------------------------------------------------------------------------
(* The instances.                                                           *)

\* A client that sends two messages while a segment may be lost; one message
\* and one lost segment; and one message with a timeout that comes early.
Sends(n) == [client |-> n, server |-> 0]
TwoSends == INSTANCE Tcp WITH
    max_tries <- 2, MaxMessages <- Sends(2), MaxLosses <- 1, MaxEarly <- 0, Prepared <- {TRUE, FALSE}
OneSend == INSTANCE Tcp WITH
    max_tries <- 2, MaxMessages <- Sends(1), MaxLosses <- 1, MaxEarly <- 0, Prepared <- {TRUE, FALSE}
EarlyTimeout == INSTANCE Tcp WITH
    max_tries <- 2, MaxMessages <- Sends(1), MaxLosses <- 0, MaxEarly <- 1, Prepared <- {TRUE, FALSE}

StreamKinds == {<<"STREAM", "TCP">>}
DatagramKinds == {<<"DGRAM", "UDP">>, <<"DGRAM", "TCP">>}
Machines == {<<>>, <<"e1000">>, <<"e1000", "rtl8139">>}
Streams == INSTANCE Network WITH
    Objects <- {"p", "q"}, MaxSockets <- 2, Addresses <- 1..2, Kinds <- StreamKinds,
    Senders <- {"p", "q"}, Devices <- Machines, MaxSent <- 2, rx <- rx_thread
Datagrams == INSTANCE Network WITH
    Objects <- {"p", "q"}, MaxSockets <- 2, Addresses <- 1..2, Kinds <- DatagramKinds,
    Senders <- {"p", "q"}, Devices <- Machines, MaxSent <- 2, rx <- rx_thread

\* Two servers: one with pads and options before and after the ones that are
\* read, and one that offers neither a gateway nor a name server; and the
\* acknowledgement of another machine.
Offer1 == [ip |-> <<10, 0, 2, 20>>, server |-> <<10, 0, 2, 2>>,
           options |-> << <<0>>, <<53, 1, 2>>, <<1, 4, 255, 255, 255, 0>>, <<3, 4, 10, 0, 2, 2>>,
                          <<6, 8, 10, 0, 2, 3, 10, 0, 2, 4>> >>]
Offer2 == [ip |-> <<10, 0, 2, 21>>, server |-> <<10, 0, 2, 9>>,
           options |-> << <<51, 4, 0, 1, 81, 128>>, <<12, 0>>, <<53, 1, 2>> >>]
Stray == [ip |-> <<10, 0, 2, 30>>, server |-> <<10, 0, 2, 2>>, options |-> << <<53, 1, 5>>, <<3, 4, 10, 0, 2, 7>> >>]

\* Every name of up to four letters and dots.  A reply has address records and
\* others before, between and after them, and names that are not compressed.
Names == UNION {[1..n -> {97, 46}] : n \in 0..4}
Rr(pointer, type, data) == [pointer |-> pointer, type |-> type, class |-> 1, data |-> data]
RecordLists ==
    {<<>>, <<Rr(TRUE, 5, <<1, 97, 0>>), Rr(TRUE, 1, <<10, 0, 0, 1>>)>>,
     <<Rr(FALSE, 1, <<10, 0, 0, 2>>)>>, <<Rr(TRUE, 5, <<192, 12>>)>>,
     <<Rr(TRUE, 28, <<0, 1, 0, 1, 0, 1, 0, 4, 0, 1, 0, 1, 192, 12, 192, 12>>),
       Rr(TRUE, 1, <<10, 0, 0, 3>>), Rr(TRUE, 1, <<10, 0, 0, 4>>)>>}
Udps == INSTANCE Udp WITH
    Users <- {"u", "v"}, Memory <- 1..2, MaxBinds <- 3, MaxDatagrams <- 1, ServerPort <- 7,
    Offers <- {Offer1, Offer2}, Strays <- {Stray}, MaxPackets <- 2,
    Domains <- Names, Replies <- RecordLists, Retries <- 1..2, TimeoutMs <- 2,
    waiting <- udp_waiting, packets <- dhcp_packets, net <- dhcp_net, pc <- dns_pc

\* Messages of up to five bytes, with sums that carry twice.
Bytes == UNION {[1..n -> {0, 1, 255}] : n \in 1..5}
Stack == INSTANCE Layers WITH
    Sizes <- {0, 3}, Messages <- Bytes, Askers <- {"p"}, Rx <- "rx", Ms <- 2, TimeValues <- 16, MaxCache <- 3

\* A ring that the packets go round more than twice.
Card == INSTANCE Rtl8139 WITH
    Proc <- {"tx"}, idle <- "idle", SizeValues <- 16, tx_buffers <- 4, MaxPackets <- 10

-----------------------------------------------------------------------------

arpVars == <<cache, thread, outcome, heard>>
tcpVars == <<conn, net, call, sent, acked, got, deaf, losses, early, notices>>
sockVars == <<objects, kernel>>
udpVars == <<connections, sockets, local_port, answers, rx, udp_waiting>>
dhcpVars == <<task, dhcp_packets, listening, dhcp_net, dhcp_rx, conf, interface, asked>>
dnsVars == <<domain, retries, dns_pc, tries, elapsed, requests, inbox, result>>
netifVars == <<interfaces, sender, tx_lock, tx_sem, tx_queue, tx, rx_sem, rx_queue, rx_thread, sentlog,
               decodedlog>>
layersVars == <<packet, message, stage>>
ringVars == <<state, current, pc, value, waiting, pid, cur_tx, dirty_tx, entry, tx_status, sending, isr,
              stale>>
vars == <<focus, arpVars, tcpVars, sockVars, udpVars, dhcpVars, dnsVars, netifVars, layersVars, ringVars>>

NoArp == cache = 0 /\ thread = 0 /\ outcome = 0 /\ heard = 0
NoTcp ==
    /\ conn = 0 /\ net = 0 /\ call = 0 /\ sent = 0 /\ acked = 0 /\ got = 0 /\ deaf = 0 /\ losses = 0
    /\ early = 0 /\ notices = 0
NoSock == objects = 0 /\ kernel = 0
NoUdp == connections = 0 /\ sockets = 0 /\ local_port = 0 /\ answers = 0 /\ rx = 0 /\ udp_waiting = 0
NoDhcp ==
    /\ task = 0 /\ dhcp_packets = 0 /\ listening = 0 /\ dhcp_net = 0 /\ dhcp_rx = 0 /\ conf = 0
    /\ interface = 0 /\ asked = 0
NoDns ==
    /\ domain = 0 /\ retries = 0 /\ dns_pc = 0 /\ tries = 0 /\ elapsed = 0 /\ requests = 0
    /\ inbox = 0 /\ result = 0
NoNetif ==
    /\ interfaces = 0 /\ sender = 0 /\ tx_lock = 0 /\ tx_sem = 0 /\ tx_queue = 0 /\ tx = 0
    /\ rx_sem = 0 /\ rx_queue = 0 /\ rx_thread = 0 /\ sentlog = 0 /\ decodedlog = 0
NoLayers == packet = 0 /\ message = 0 /\ stage = 0
NoRing ==
    /\ state = 0 /\ current = 0 /\ pc = 0 /\ value = 0 /\ waiting = 0 /\ pid = 0 /\ cur_tx = 0
    /\ dirty_tx = 0 /\ entry = 0 /\ tx_status = 0 /\ sending = 0 /\ isr = 0 /\ stale = 0

Init ==
    /\ focus \in Foci
    /\ IF focus = "arp" THEN Stack!ArpInit ELSE NoArp
    /\ CASE focus = "tcp" -> TwoSends!TcpInit
         [] focus = "tcp_one" -> OneSend!TcpInit
         [] focus = "tcp_early" -> EarlyTimeout!TcpInit
         [] OTHER -> NoTcp
    /\ CASE focus = "stream" -> Streams!SockInit
         [] focus = "datagram" -> Datagrams!SockInit
         [] OTHER -> NoSock
    /\ IF focus = "udp" THEN Udps!UdpInit ELSE NoUdp
    /\ IF focus = "dhcp" THEN Udps!DhcpInit ELSE NoDhcp
    /\ IF focus = "dns" THEN Udps!DnsInit ELSE NoDns
    /\ IF focus = "netif" THEN Streams!NetifInit ELSE NoNetif
    /\ IF focus = "layers" THEN Stack!LayersInit ELSE NoLayers
    /\ IF focus = "rtl8139" THEN Card!Init ELSE NoRing

UseArp ==
    /\ focus = "arp" /\ Stack!ArpNext
    /\ UNCHANGED <<focus, tcpVars, sockVars, udpVars, dhcpVars, dnsVars, netifVars, layersVars, ringVars>>

UseTcp ==
    /\ \/ focus = "tcp" /\ TwoSends!TcpNext
       \/ focus = "tcp_one" /\ OneSend!TcpNext
       \/ focus = "tcp_early" /\ EarlyTimeout!TcpNext
    /\ UNCHANGED <<focus, arpVars, sockVars, udpVars, dhcpVars, dnsVars, netifVars, layersVars, ringVars>>

UseStream ==
    /\ \/ focus = "stream" /\ Streams!SockNext
       \/ focus = "datagram" /\ Datagrams!SockNext
    /\ UNCHANGED <<focus, arpVars, tcpVars, udpVars, dhcpVars, dnsVars, netifVars, layersVars, ringVars>>

UseUdp ==
    /\ focus = "udp" /\ Udps!UdpNext
    /\ UNCHANGED <<focus, arpVars, tcpVars, sockVars, dhcpVars, dnsVars, netifVars, layersVars, ringVars>>

UseDhcp ==
    /\ focus = "dhcp" /\ Udps!DhcpNext
    /\ UNCHANGED <<focus, arpVars, tcpVars, sockVars, udpVars, dnsVars, netifVars, layersVars, ringVars>>

UseDns ==
    /\ focus = "dns" /\ Udps!DnsNext
    /\ UNCHANGED <<focus, arpVars, tcpVars, sockVars, udpVars, dhcpVars, netifVars, layersVars, ringVars>>

UseNetif ==
    /\ focus = "netif" /\ Streams!NetifNext
    /\ UNCHANGED <<focus, arpVars, tcpVars, sockVars, udpVars, dhcpVars, dnsVars, layersVars, ringVars>>

UseLayers ==
    /\ focus = "layers" /\ Stack!LayersNext
    /\ UNCHANGED <<focus, arpVars, tcpVars, sockVars, udpVars, dhcpVars, dnsVars, netifVars, ringVars>>

UseRtl8139 ==
    /\ focus = "rtl8139" /\ Card!Next
    /\ UNCHANGED <<focus, arpVars, tcpVars, sockVars, udpVars, dhcpVars, dnsVars, netifVars, layersVars>>

Next == UseArp \/ UseTcp \/ UseStream \/ UseUdp \/ UseDhcp \/ UseDns \/ UseNetif \/ UseLayers \/ UseRtl8139

Spec == Init /\ [][Next]_vars

\* The clock ticks and the threads run: the scheduler gives every ready thread
\* its turn.  The receive thread of TCP decodes what arrives, and a wait with a
\* timeout ends.
ArpFair ==
    LET Others == <<focus, tcpVars, sockVars, udpVars, dhcpVars, dnsVars, netifVars, layersVars, ringVars>>
    IN /\ WF_vars(focus = "arp" /\ Stack!Tick /\ UNCHANGED Others)
       /\ \A t \in {"p", "rx"} : WF_vars(focus = "arp" /\ Stack!Resume(t) /\ UNCHANGED Others)
TcpFair ==
    LET Others == <<focus, arpVars, sockVars, udpVars, dhcpVars, dnsVars, netifVars, layersVars, ringVars>>
    IN \A h \in {"client", "server"} :
        /\ WF_vars(focus = "tcp_one" /\ OneSend!decode(h) /\ UNCHANGED Others)
        /\ WF_vars(focus = "tcp_one" /\ OneSend!notify_one(h) /\ UNCHANGED Others)
        /\ WF_vars(focus = "tcp_one" /\ OneSend!Continue(h) /\ UNCHANGED Others)
        /\ WF_vars(focus = "tcp_one" /\ OneSend!Expire(h) /\ UNCHANGED Others)
FairSpec == Spec /\ ArpFair /\ TcpFair

-----------------------------------------------------------------------------
(* Properties, each under the name it has in the module of its component.   *)

\* ARP: after a packet from an address, looking the address up gives its MAC address and
\* back, whatever entries were there before; and a thread sends only to a MAC address that
\* its next hop has announced, or that of this host, although one reply wakes up every
\* thread that waits.
AddressesLearned ==
    /\ [](focus = "arp" => Stack!GetsAnnounced)
    /\ [][focus = "arp" => Stack!HeardLast]_vars

\* ARP: every request for a hardware address ends, answered or timed out,
\* whatever answers are lost.
RequestsEnd == \A t \in {"p", "rx"} : (focus = "arp" /\ Stack!Waits(t)) ~> (focus = "arp" /\ Stack!IsIdle(t))

\* TCP: messages are received in the order in which they were sent, however often a segment
\* was lost and sent again; and as long as nothing was lost, a send that has succeeded is
\* delivered, or on its way, to a socket that listens.
SentIsReceived ==
    /\ focus = "tcp" => TwoSends!InOrder /\ TwoSends!AckedIsDelivered
    /\ focus = "tcp_early" => EarlyTimeout!InOrder /\ EarlyTimeout!AckedIsDelivered

\* TCP: connect, send and disconnect return, although segments are lost.
CallsReturn == \A h \in {"client", "server"} : (focus = "tcp_one" /\ OneSend!Waits(h)) ~> (focus = "tcp_one" /\ ~OneSend!Waits(h))

\* Sockets: what a socket object says to be bound or connected to is the connection of its
\* own socket, also when the memory of a connection is used again; a file descriptor
\* belongs to one object, moved or not; the connection data of a socket is read as the type
\* it was made as; and a connection only comes up for a socket whose owner records it.
ReachesOwnConnection ==
    /\ [](focus = "stream" => Streams!ReachesOwnConnection /\ Streams!OneOwner /\ Streams!DataOfItsKind)
    /\ [](focus = "datagram" => Datagrams!ReachesOwnConnection /\ Datagrams!OneOwner /\ Datagrams!DataOfItsKind)
    /\ [][(focus = "stream" => Streams!OwnerKnows) /\ (focus = "datagram" => Datagrams!OwnerKnows)]_vars

\* UDP: a process only receives answers to its own datagrams, however late, except
\* through a connection that was removed while decode held a pointer to it.
AnswersReachAsker == focus = "udp" => Udps!AnswersReachAsker

\* DHCP: only an answer to the request gives the interface an address, and it is
\* the one that was offered and requested.
EndsWithAnswer == [][focus = "dhcp" => Udps!EndsWithAnswer]_vars

\* DNS: resolve returns the first address of a reply that has come, after at most retries
\* requests.
FirstAddress ==
    /\ [](focus = "dns" => Udps!RequestsBounded)
    /\ [][focus = "dns" => Udps!FirstAddress]_vars

\* Interfaces: every packet that is sent is decoded once, in order; the permits of the
\* semaphores are the packets of the queues; and every address has an enabled interface,
\* the loopback its own.
PacketsInOrder ==
    focus = "netif" => Streams!PacketsInOrder /\ Streams!PermitsArePackets /\ Streams!InterfaceSelected

\* Layers, DHCP, DNS: what is written into a packet is what the other side reads.  A packet
\* has exactly the room for its headers and payload, is decoded by the layers that have
\* prepared it, and its checksum covers the transport header and all after it and adds up
\* to all ones; the options of a DHCP answer are read whatever is around them; and a DNS
\* query fits its packet and reads back as the name.
BytesReadBack ==
    /\ focus = "layers" =>
        /\ Stack!RoomForPayload /\ Stack!ChecksumCoversTransport
        /\ Stack!DecodedAsPrepared /\ Stack!ChecksumVerifies
    /\ focus = "dhcp" => Udps!OptionsRead
    /\ focus = "dns" => Udps!QueryReadsBack

\* rtl8139: the buffer that send_packet claims is not one that the card still sends, the
\* permits of tx_sem are the buffers that are free, and the handler never releases no permit
\* at all, which would wrap around; all this unless the handler has once counted a buffer
\* while it was being filled.
EntryIsFree ==
    focus = "rtl8139" => Card!EntryIsFree /\ Card!PermitsAreFreeEntries /\ Card!NotifyNeverWraps
=============================================================================
