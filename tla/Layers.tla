-------------------------------- MODULE Layers --------------------------------
(***************************************************************************)
(* ARP (net/arp_layer.cpp, net/arp_cache.cpp, ip::layer::get_target_mac):  *)
(* the threads that need the MAC address of an IP address ask for it and   *)
(* wait for a reply with a timeout, and the receive thread fills the cache *)
(* with what it hears.  The receive thread is one of those that ask: it    *)
(* answers echo requests and TCP segments.  A time is counted in           *)
(* milliseconds from the request, up to Ms + 1, after which nothing that   *)
(* looks at it changes.                                                    *)
(***************************************************************************)
EXTENDS Naturals, Integers, SequencesExt, Sequences, Bitwise

CONSTANTS
    Askers,     \* the processes that send
    Rx,         \* the receive thread
    Ms,         \* ARP_TIMEOUT
    TimeValues, \* the number of values of a size_t
    MaxCache    \* a bound on the length of the cache

VARIABLES
    cache,      \* mac_cache, a sequence of [mac, ip]
    thread,     \* what a thread does: [state, ip, left, elapsed]
    outcome,    \* how a request ended in this step
    heard       \* what the hosts have announced

arpVars == <<cache, thread, outcome, heard>>

\* Addresses are [net, host]; there is one other host here, one beyond the gateway.
Self == [net |-> 1, host |-> 1]
Gateway == [net |-> 1, host |-> 2]
Neighbour == [net |-> 1, host |-> 3]
Far == [net |-> 2, host |-> 1]
NoAddress == [net |-> 0, host |-> 0]
Broadcast == [net |-> 255, host |-> 255]
Local == [net |-> 127, host |-> 1]
\* The interface, before and after it has its address, and the loopback.
Address == [unconfigured |-> NoAddress, lan |-> Self, loopback |-> Local]
SelfMac == "self"
Macs == {"a", "b"}
Heard == {Gateway, Neighbour, NoAddress}
Threads == Askers \cup {Rx}
Nothing == [mac |-> "none", ip |-> NoAddress]
Idle == [state |-> "idle", ip |-> NoAddress, left |-> 0, elapsed |-> 0]

\* What is sent: from which interface, to which address.
Requests ==
    ({"lan"} \X {Self, Neighbour, Far, Broadcast}) \cup {<<"unconfigured", Neighbour>>, <<"loopback", Local>>}

ArpInit ==
    /\ cache = <<>>
    /\ thread = [t \in Threads |-> Idle]
    /\ outcome = Nothing
    /\ heard = {}

-----------------------------------------------------------------------------
\* cache

is_ip_cached(ip) == \E i \in DOMAIN cache : cache[i].ip = ip

\* Mutant: the entry that came last.
get_mac_Last(ip) == cache[Len(cache)].mac

get_mac(ip) == cache[SelectInSeq(cache, LAMBDA e : e.ip = ip)].mac
get_ip(mac) == cache[SelectInSeq(cache, LAMBDA e : e.mac = mac)].ip

\* Mutant: an entry is found by its MAC address only.
Related_Mac(e, mac, ip) == e.mac = mac

Related(e, mac, ip) == e.mac = mac \/ e.ip = ip

update_cache(mac, ip) ==
    LET i == SelectInSeq(cache, LAMBDA e : Related(e, mac, ip))
    IN IF i = 0 THEN Append(cache, [mac |-> mac, ip |-> ip])
       ELSE [cache EXCEPT ![i] = [mac |-> mac, ip |-> ip]]

-----------------------------------------------------------------------------
\* Threads that ask

same_network(ip, test) == ip.net = test.net

\* The address whose MAC address is needed to send to target.
NextHop(interface, target) ==
    IF interface # "lan" \/ same_network(Self, target) THEN target ELSE Gateway

End(t, mac, ip) ==
    /\ thread' = [thread EXCEPT ![t] = Idle]
    /\ outcome' = [mac |-> mac, ip |-> ip]

\* get_mac_force: from the cache, or a request and a wait.
get_mac_force(t, interface, ip) ==
    IF is_ip_cached(ip) THEN End(t, get_mac(ip), ip)
    ELSE IF ip = Address[interface] THEN End(t, SelfMac, ip)
    ELSE /\ thread' = [thread EXCEPT ![t] = [state |-> "waiting", ip |-> ip, left |-> Ms, elapsed |-> 0]]
         /\ outcome' = Nothing

get_target_mac(t, interface, target) ==
    /\ thread[t].state = "idle"
    /\ IF target = Broadcast THEN End(t, "all", target) ELSE get_mac_force(t, interface, NextHop(interface, target))
    /\ UNCHANGED <<cache, heard>>

\* Mutant: the time that passed is not looked at.
TimedOut_Never(elapsed) == FALSE

\* start - end > ms, on unsigned numbers.
TimedOut(elapsed) == (0 - elapsed) % TimeValues > Ms

\* The loop around the wait, after a notification or the end of the sleep.
Resume(t) ==
    /\ thread[t].state = "ready"
    /\ IF is_ip_cached(thread[t].ip) THEN End(t, get_mac(thread[t].ip), thread[t].ip)
       ELSE IF TimedOut(thread[t].elapsed) THEN End(t, "timeout", thread[t].ip)
       ELSE /\ thread' = [thread EXCEPT ![t].state = "waiting", ![t].left = Ms]
            /\ outcome' = Nothing
    /\ UNCHANGED <<cache, heard>>

-----------------------------------------------------------------------------
\* The receive thread

Notified(th) == IF th.state = "waiting" THEN [th EXCEPT !.state = "ready"] ELSE th

Known(ip) == ip # NoAddress

\* A request or a reply from a host; a request for this host is answered
\* directly to the MAC address in it.
decode(operation, mac, ip) ==
    /\ thread[Rx].state = "idle"
    /\ cache' = IF Known(ip) THEN update_cache(mac, ip) ELSE cache
    /\ Len(cache') <= MaxCache
    /\ thread' = IF operation = 2 THEN [t \in Threads |-> Notified(thread[t])] ELSE thread
    /\ heard' = IF Known(ip) THEN heard \cup {[mac |-> mac, ip |-> ip]} ELSE heard
    /\ outcome' = Nothing

\* A millisecond passes; a sleep that is over ends.
Tick ==
    /\ \E t \in Threads : thread[t].state # "idle"
    /\ thread' = [t \in Threads |->
           LET th == thread[t]
               later == IF th.elapsed <= Ms THEN th.elapsed + 1 ELSE th.elapsed
           IN CASE th.state = "idle" -> th
                [] th.state = "ready" -> [th EXCEPT !.elapsed = later]
                [] th.state = "waiting" /\ th.left > 1 -> [th EXCEPT !.elapsed = later, !.left = @ - 1]
                [] OTHER -> [th EXCEPT !.elapsed = later, !.left = 0, !.state = "ready"]]
    /\ outcome' = Nothing
    /\ UNCHANGED <<cache, heard>>

ArpNext ==
    \/ \E t \in Threads, r \in Requests : get_target_mac(t, r[1], r[2])
    \/ \E t \in Threads : Resume(t)
    \/ \E operation \in 1..2, mac \in Macs, ip \in Heard : decode(operation, mac, ip)
    \/ Tick

-----------------------------------------------------------------------------
\* What was heard last counts: after a packet from an address, looking up that
\* address gives its MAC address and back, whatever entries were there before
\* (update_cache keeps several entries with the same address, and the lookups
\* take the first).
HeardLast ==
    \A operation \in 1..2, mac \in Macs, ip \in Heard \ {NoAddress} :
        decode(operation, mac, ip) => get_mac(ip)' = mac /\ get_ip(mac)' = ip

\* A thread sends only to a MAC address that its next hop has itself announced,
\* or that of this host: several threads wait for different addresses on one
\* queue, and every reply wakes all of them up.
GetsAnnounced ==
    outcome.mac \in Macs => [mac |-> outcome.mac, ip |-> outcome.ip] \in heard

\* RequestsEnd: a request ends, also when nobody replies, and also when the receive thread,
\* which alone could take the reply, is the one that waits.
Waits(t) == thread[t].state = "waiting"
IsIdle(t) == thread[t].state = "idle"

-------------------------------------------------------------------------------
(***************************************************************************)
(* The headers of a packet: how the layers of the network (src/net) prepare *)
(* it from the outside to the inside, finalize it from the inside to the    *)
(* outside, and decode it when it comes back through the loopback.  A packet*)
(* is the index inside its payload, the tags of its layers, its sizes and   *)
(* the fields that the next layer looks at.  The checksum is computed from  *)
(* bytes that are chosen with the packet.                                   *)
(***************************************************************************)

CONSTANTS
    Sizes,        \* the payload sizes that a caller asks for
    Messages      \* the bytes over which a checksum is computed

VARIABLES
    packet,       \* the packet, or NoPacket
    message,      \* the bytes under the checksum
    stage         \* "none", "prepared", "sent", "failed", "decoded"

layersVars == <<packet, message, stage>>

NoPacket == [path |-> "none"]

\* A path is the protocol of the caller; ICMP is only asked for without payload.
Paths == {"ICMP", "UDP", "TCP", "DNS", "DHCP", "ARP"}
Asks == {<<path, size>> : path \in Paths \ {"ICMP"}, size \in Sizes} \cup {<<"ICMP", 0>>}
KernelPaths == {"DHCP", "ARP"}

Ethernet == 14
IpHeader == 20
IcmpHeader == 8
IcmpIndex == 4      \* what prepare_packet advances: the header without its last word
UdpHeader == 8
TcpHeader == 20
DnsHeader == 12
DhcpHeader == 236

LayersInit == packet = NoPacket /\ message \in Messages /\ stage = "none"

-----------------------------------------------------------------------------
\* The packet

\* Mutant: a tag replaces the ones of the other layers.
tag_Replaces(p, layer, index) == [p EXCEPT !.tags = [l \in 0..3 |-> IF l = layer THEN index ELSE 0]]

\* tag: the index is or-ed into the 16 bits of the layer.
tag(p, layer, index) ==
    [p EXCEPT !.tags[layer] = @ | index]

Advance(p, n) == [p EXCEPT !.index = @ + n]
Tagged(p, layer) == tag(p, layer, p.index)

NewPacket(path, size, total) ==
    [path |-> path, size |-> size, payload_size |-> total, index |-> 0, tags |-> [l \in 0..3 |-> 0],
     user |-> path \notin KernelPaths, type |-> 0, protocol |-> 0, ports |-> <<0, 0>>,
     total_len |-> 0, udp_len |-> 0, sum |-> <<0, 0>>, finalized |-> 0]

\* kernel_prepare_packet and user_prepare_packet of the ethernet layer.
ethernet_prepare(path, size, inner, type) ==
    [Advance(tag(NewPacket(path, size, inner + Ethernet), 0, 0), Ethernet) EXCEPT !.type = type]

\* prepare_packet of the IP layer, for inner bytes.
ip_prepare(path, size, inner, protocol) ==
    LET p == ethernet_prepare(path, size, inner + IpHeader, 2048)
    IN [Advance(Tagged(p, 1), IpHeader) EXCEPT !.protocol = protocol, !.total_len = inner + IpHeader]

\* Mutant: the last word of the header is skipped too.
icmp_prepare_Full(path, size) == Advance(Tagged(ip_prepare(path, size, IcmpHeader + size, 1), 2), IcmpHeader)

icmp_prepare(path, size) == Advance(Tagged(ip_prepare(path, size, IcmpHeader + size, 1), 2), IcmpIndex)

udp_prepare(path, size, inner, ports) ==
    LET p == ip_prepare(path, size, UdpHeader + inner, 17)
    IN [Advance(Tagged(p, 2), UdpHeader) EXCEPT !.ports = ports, !.udp_len = UdpHeader + inner]

tcp_prepare(path, size) == Advance(Tagged(ip_prepare(path, size, size + TcpHeader, 6), 2), TcpHeader)

\* user_prepare_packet of the DNS layer, and prepare_packet_query.
dns_prepare(path, size) == Advance(Tagged(udp_prepare(path, size, DnsHeader + size, <<1024, 53>>), 3), DnsHeader)

dhcp_prepare(path, size) == Advance(Tagged(udp_prepare(path, size, DhcpHeader + size, <<68, 67>>), 3), DhcpHeader)

\* prepare_packet of the network: the protocol of the socket selects the layer.
Prepared(path, size) ==
    CASE path = "ICMP" -> icmp_prepare(path, size)
      [] path = "UDP" -> udp_prepare(path, size, size, <<1024, 7>>)
      [] path = "TCP" -> tcp_prepare(path, size)
      [] path = "DNS" -> dns_prepare(path, size)
      [] path = "DHCP" -> dhcp_prepare(path, size)
      [] path = "ARP" -> ethernet_prepare(path, size, size, 2054)

prepare_packet ==
    /\ stage = "none"
    /\ \E ask \in Asks : packet' = Prepared(ask[1], ask[2])
    /\ stage' = "prepared"
    /\ UNCHANGED message

-----------------------------------------------------------------------------
\* finalize: the index goes back; sum is where the checksum starts and its bytes

\* Mutant: the checksum is computed before the index is back at the header.
tcp_finalize_Early(p) == Advance([p EXCEPT !.sum = <<p.index, p.total_len - IpHeader>>], -TcpHeader)

tcp_finalize(p) ==
    LET back == Advance(p, -TcpHeader) IN [back EXCEPT !.sum = <<back.index, p.total_len - IpHeader>>]

udp_finalize(p) == [Advance(p, -UdpHeader) EXCEPT !.sum = <<p.tags[2], p.udp_len>>]

\* The sum is over the header: its size with a payload of 0.
icmp_finalize(p) ==
    LET back == Advance(p, -IcmpIndex) IN [back EXCEPT !.sum = <<back.index, IcmpHeader>>]

dns_finalize(p) == udp_finalize(Advance(p, -DnsHeader))

dhcp_finalize(p) == udp_finalize(Advance(p, -DhcpHeader))

Finalized(p) ==
    CASE p.path = "ICMP" -> icmp_finalize(p)
      [] p.path = "UDP" -> udp_finalize(p)
      [] p.path = "TCP" -> tcp_finalize(p)
      [] p.path = "DNS" -> dns_finalize(p)
      [] p.path = "DHCP" -> dhcp_finalize(p)
      [] p.path = "ARP" -> p

\* finalize_packet of the ethernet layer: what is sent of a user packet is a
\* copy in kernel memory, with its index and its tags at zero; a kernel packet
\* is sent as it is.
Copied(p) == [p EXCEPT !.user = FALSE, !.index = 0, !.tags = [l \in 0..3 |-> 0]]

\* The packet goes out; or the acknowledgement of a TCP packet does not come, and
\* the packet stays registered for the caller as it is, sent before.
finalize_packet ==
    /\ stage \in {"prepared", "failed"} /\ packet.finalized < 2
    /\ LET p == [Finalized(packet) EXCEPT !.finalized = @ + 1]
       IN \/ stage' = "sent" /\ packet' = IF p.user THEN Copied(p) ELSE p
          \/ packet.path = "TCP" /\ stage' = "failed" /\ packet' = p
    /\ UNCHANGED message

-----------------------------------------------------------------------------
\* decode, on the way back

dns_decode(p) == Tagged(p, 3)

dhcp_decode(p) == Tagged(p, 3)

\* The source port tells the layer above.
udp_decode(p) ==
    LET inner == Advance(Tagged(p, 2), UdpHeader)
    IN CASE p.ports[1] = 53 -> dns_decode(inner)
         [] p.ports[1] = 67 -> dhcp_decode(inner)
         [] OTHER -> inner

tcp_decode(p) == Tagged(p, 2)

icmp_decode(p) == Tagged(p, 2)

arp_decode(p) == Tagged(p, 1)

ip_decode(p) ==
    LET inner == Advance(Tagged(p, 1), IpHeader)
    IN CASE p.protocol = 1 -> icmp_decode(inner)
         [] p.protocol = 6 -> tcp_decode(inner)
         [] p.protocol = 17 -> udp_decode(inner)

\* decode of the ethernet layer, for a packet from the loopback; a server's
\* answer to DNS and DHCP has the ports the other way.
Arrived(p) == IF p.path \in {"DNS", "DHCP"} THEN [p EXCEPT !.ports = <<@[2], @[1]>>] ELSE p

ethernet_decode ==
    /\ stage = "sent"
    /\ LET p == [tag(Arrived(packet), 0, 0) EXCEPT !.index = Ethernet]
       IN packet' = CASE p.type = 2048 -> ip_decode(p)
                      [] p.type = 2054 -> arp_decode(p)
    /\ stage' = "decoded"
    /\ UNCHANGED message

LayersNext == prepare_packet \/ finalize_packet \/ ethernet_decode

-----------------------------------------------------------------------------
\* The checksums

Word16 == 65536

\* Mutant: the last byte of an odd number of bytes is its low byte.
High_Even(n, i) == i % 2 = 1 /\ i < n

\* Byte i of n is the high byte of its word.
High(n, i) == i % 2 = 1

checksum_add_bytes(values) ==
    FoldLeft(LAMBDA sum, i : sum + values[i] * (IF High(Len(values), i) THEN 256 ELSE 1),
             0, [i \in DOMAIN values |-> i])

RECURSIVE Folded(_)
Folded(sum) == IF sum < Word16 THEN sum ELSE Folded((sum % Word16) + (sum \div Word16))

checksum_finalize(sum) == Word16 - 1 - Folded(sum)

checksum_finalize_nz(sum) == IF checksum_finalize(sum) = 0 THEN Word16 - 1 ELSE checksum_finalize(sum)

\* The loop of the IP layer, which carries until nothing is left.
RECURSIVE Carried(_, _)
Carried(value, carry) ==
    IF carry = 0 THEN value ELSE Carried((value + carry) % Word16, (value + carry) \div Word16)

Swap(word) == (word % 256) * 256 + (word \div 256)

\* compute_checksum of the IP and ICMP layers: the words as the processor reads
\* them, and the result stored as it is.
compute_checksum(values) ==
    LET WordAt(i) == values[2 * i - 1] + 256 * values[2 * i]
        sum == FoldLeft(LAMBDA s, i : s + WordAt(i), 0, [i \in 1..(Len(values) \div 2) |-> i])
    IN Word16 - 1 - Carried(sum % Word16, sum \div Word16)

-----------------------------------------------------------------------------
(* Properties.                                                              *)

Outer(path) == IF path = "ARP" THEN Ethernet ELSE Ethernet + IpHeader
Inner(path) ==
    CASE path = "ICMP" -> IcmpHeader [] path = "UDP" -> UdpHeader [] path = "TCP" -> TcpHeader
      [] path = "DNS" -> UdpHeader + DnsHeader [] path = "DHCP" -> UdpHeader + DhcpHeader [] path = "ARP" -> 0

\* A prepared packet has room for exactly the headers of its layers and the
\* payload that was asked for, and the index of the caller is at the payload
\* (for ICMP at the last word of the header, which the caller fills).
RoomForPayload ==
    stage = "prepared" =>
        /\ packet.payload_size = Outer(packet.path) + Inner(packet.path) + packet.size
        /\ packet.index = packet.payload_size - packet.size - (IF packet.path = "ICMP" THEN IcmpHeader - IcmpIndex ELSE 0)

\* The checksum of a packet that is finalized once starts at the header of its
\* transport layer and covers everything to the end, although each layer takes
\* the place from another field (the index, the tag, the length of the header).
ChecksumCoversTransport ==
    stage \in {"sent", "failed"} /\ packet.finalized = 1 /\ packet.path # "ARP" =>
        packet.sum = <<Ethernet + IpHeader, packet.payload_size - Ethernet - IpHeader>>

\* A packet that comes back is decoded by the layers that have prepared it, with
\* their headers at the same places: a kernel packet still has its tags when it
\* is decoded, a user packet has lost them with the copy.
DecodedAsPrepared ==
    stage = "decoded" =>
        packet.tags = [l \in 0..3 |->
            CASE l = 0 -> 0
              [] l = 1 -> Ethernet
              [] l = 2 -> IF packet.path = "ARP" THEN 0 ELSE Ethernet + IpHeader
              [] l = 3 -> IF packet.path \in {"DNS", "DHCP"} THEN Ethernet + IpHeader + UdpHeader ELSE 0]

Even(values) == IF Len(values) % 2 = 0 THEN values ELSE Append(values, 0)

\* A receiver that adds the words of a message and its checksum gets all ones,
\* for messages of odd length too and for sums that carry more than once; the
\* byte-wise and the word-wise computation agree; and the UDP and TCP checksum
\* is never zero, which would mean that there is none.
ChecksumVerifies ==
    LET check == checksum_finalize_nz(checksum_add_bytes(message))
    IN /\ Folded(checksum_add_bytes(Even(message)) + check) = Word16 - 1
       /\ check # 0
       /\ Swap(compute_checksum(Even(message))) \in {check, checksum_finalize(checksum_add_bytes(message))}
===============================================================================
