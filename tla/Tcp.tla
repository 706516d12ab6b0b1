-------------------------------- MODULE Tcp ----------------------------------
(***************************************************************************)
(* TCP (net/tcp_layer.cpp with net/connection_handler.hpp) between a client *)
(* and a server that both run this kernel.  A process in a system call is   *)
(* atomic up to the points where it sleeps; the receive thread of its host  *)
(* decodes segments in between.  Segments travel in order and may be lost;  *)
(* a payload is the number of the message, one byte long.                   *)
(***************************************************************************)
EXTENDS Naturals, SequencesExt, FiniteSets

CONSTANTS
    max_tries,
    MaxMessages,  \* the messages that each host sends, at most
    MaxLosses,    \* the segments that the network loses, at most
    MaxEarly,     \* the timeouts that end before the answer is there, at most
    Prepared      \* whether the layers below have a packet to give: ARP may fail

VARIABLES
    conn,    \* the connections, with what their sockets hold
    net,     \* the segments on their way to each host
    call,    \* the system call that each process is in
    sent,    \* the number of messages that each host has sent
    acked,   \* the messages of each host whose send has succeeded
    got,     \* what receive returned on a connection
    deaf,    \* the messages that arrived before their socket listened
    losses, early,
    notices  \* what the receive thread of each host has queued and not yet notified

tcpVars == <<conn, net, call, sent, acked, got, deaf, losses, early, notices>>

Hosts == {"client", "server"}
Peer(h) == IF h = "client" THEN "server" ELSE "client"
Conns == {"cli", "srv", "child"}
Host(c) == IF c = "cli" THEN "client" ELSE "server"
\* The connection on which a process sends and receives.
Mine(h) == IF h = "client" THEN "cli" ELSE "child"

NoSegment == [flags |-> {}, seq |-> 0, ack |-> 0, data |-> 0]
Segment(flags, k, data) == [flags |-> flags, seq |-> k.seq, ack |-> k.ack, data |-> data]
tcp_payload_len(s) == IF s.data = 0 THEN 0 ELSE 1

NoConnection ==
    [live |-> "new", connected |-> FALSE, listening |-> FALSE, packets |-> <<>>,
     seq |-> 0, ack |-> 0, listen |-> FALSE, inbox |-> <<>>, closing |-> FALSE]
NoCall == [pc |-> "idle", on |-> "cli", op |-> "none", seg |-> NoSegment, tries |-> 0, blocked |-> FALSE]

\* The server has called server_start.
TcpInit ==
    /\ conn = [c \in Conns |-> IF c = "srv" THEN [NoConnection EXCEPT !.live = "live", !.connected = TRUE] ELSE NoConnection]
    /\ net = [h \in Hosts |-> <<>>]
    /\ call = [h \in Hosts |-> NoCall]
    /\ sent = [h \in Hosts |-> 0]
    /\ acked = [h \in Hosts |-> {}]
    /\ got = [c \in Conns |-> <<>>]
    /\ deaf = {}
    /\ losses = 0 /\ early = 0
    /\ notices = [h \in Hosts |-> {}]

-----------------------------------------------------------------------------
\* The receive thread

Receives(h, c) == conn[c].live = "live" /\ Host(c) = h
Ends(c, s) == c = "child" /\ "fin" \in s.flags

\* Mutant: only when the process is in receive.
Queued_Waited(c, s) == "psh" \in s.flags /\ conn[c].listen /\ call[Host(c)].pc = "receive"

Queued(c, s) == "psh" \in s.flags /\ conn[c].listen

\* Mutant: a stack.
push_Stack(q, x) == <<x>> \o q

push(q, x) == Append(q, x)

StillConnected(k, c, s) == k.connected /\ ~Ends(c, s)

\* A connection that the segment is for: its numbers, the queue of the kernel,
\* the end of the connection and the queue of the socket.
Updated(k, c, s) ==
    [k EXCEPT !.seq = s.ack, !.ack = s.seq + tcp_payload_len(s),
              !.packets = IF k.listening THEN push(@, s) ELSE @,
              !.connected = StillConnected(k, c, s),
              !.inbox = IF Queued(c, s) THEN push(@, s.data) ELSE @]

\* The condition variables to notify: that of the kernel and that of the socket.
Notices(c, s) ==
    (IF conn[c].listening \/ Ends(c, s) THEN {<<c, "kernel">>} ELSE {}) \cup
    (IF Queued(c, s) \/ Ends(c, s) THEN {<<c, "socket">>} ELSE {})
WaitsOn(h) == <<call[h].on, IF call[h].pc = "receive" THEN "socket" ELSE "kernel">>

\* The answers: FIN/ACK for a child that ends, ACK for data.
Answers(h, s) ==
    (IF Receives(h, "child") /\ Ends("child", s)
     THEN <<Segment({"fin", "ack"}, Updated(conn["child"], "child", s), 0)>> ELSE <<>>) \o
    (IF "psh" \in s.flags
     THEN <<[flags |-> {"ack"}, seq |-> s.ack, ack |-> s.seq + tcp_payload_len(s), data |-> 0]>> ELSE <<>>)

\* The thread can be preempted after it has queued a segment.
decode(h) ==
    /\ net[h] # <<>> /\ notices[h] = {}
    /\ LET s == Head(net[h])
       IN /\ conn' = [c \in Conns |-> IF Receives(h, c) THEN Updated(conn[c], c, s) ELSE conn[c]]
          /\ net' = [net EXCEPT ![h] = Tail(@), ![Peer(h)] = @ \o Answers(h, s)]
          /\ notices' = [notices EXCEPT ![h] = UNION {Notices(c, s) : c \in {d \in Conns : Receives(h, d)}}]
          /\ deaf' = IF s.data # 0 /\ ~conn[Mine(h)].listen THEN deaf \cup {<<Mine(h), s.data>>} ELSE deaf
    /\ UNCHANGED <<call, sent, acked, got, losses, early>>

notify_one(h) ==
    /\ notices[h] # {}
    /\ notices' = [notices EXCEPT ![h] = {}]
    /\ call' = [call EXCEPT ![h].blocked = @ /\ WaitsOn(h) \notin notices[h]]
    /\ UNCHANGED <<conn, net, sent, acked, got, deaf, losses, early>>

Lose(h) ==
    /\ net[h] # <<>> /\ losses < MaxLosses
    /\ losses' = losses + 1
    /\ net' = [net EXCEPT ![h] = Tail(@)]
    /\ UNCHANGED <<sent, conn, call, acked, got, deaf, early, notices>>

-----------------------------------------------------------------------------
\* Sending and waiting for the answer

Transmit(h, s) == net' = [net EXCEPT ![Peer(h)] = Append(@, s)]
Return(h) == call' = [call EXCEPT ![h] = NoCall]
Idle(h) == call[h].pc = "idle"

\* finalize_packet, up to its first wait.
finalize_packet(h, c, k, op, s) ==
    /\ conn' = [conn EXCEPT ![c] = [k EXCEPT !.listening = TRUE]]
    /\ Transmit(h, s)
    /\ call' = [call EXCEPT ![h] = [pc |-> "finalize", on |-> c, op |-> op, seg |-> s, tries |-> 1,
                                    blocked |-> k.packets = <<>>]]

correct_ack(p, s) ==
    IF "syn" \in p.flags /\ "ack" \notin p.flags THEN {"syn", "ack"} \subseteq s.flags
    ELSE "ack" \in s.flags

\* What the caller of finalize_packet does when it succeeds.
Finish(h, c, k, s) ==
    CASE call[h].op = "connect" ->
           LET e == [k EXCEPT !.seq = s.ack, !.ack = s.seq + 1, !.connected = TRUE]
           IN /\ conn' = [conn EXCEPT ![c] = e]
              /\ Transmit(h, Segment({"ack"}, e, 0))
              /\ UNCHANGED acked
      [] call[h].op = "accept" -> conn' = [conn EXCEPT ![c] = k] /\ UNCHANGED <<net, acked>>
      [] call[h].op = "send" ->
           /\ conn' = [conn EXCEPT ![c] = k]
           /\ acked' = [acked EXCEPT ![h] = @ \cup {call[h].seg.data}]
           /\ UNCHANGED net

\* The next packet of the queue: the answer, or unrelated.
Answered(h) ==
    /\ call[h].pc = "finalize" /\ ~call[h].blocked /\ conn[call[h].on].packets # <<>>
    /\ LET c == call[h].on
           s == Head(conn[c].packets)
           k == [conn[c] EXCEPT !.packets = Tail(@)]
       IN IF correct_ack(call[h].seg, s)
          THEN Finish(h, c, [k EXCEPT !.listening = FALSE], s) /\ Return(h)
          ELSE /\ conn' = [conn EXCEPT ![c] = k]
               /\ call' = [call EXCEPT ![h].blocked = k.packets = <<>>]
               /\ UNCHANGED <<net, acked>>
    /\ UNCHANGED <<sent, got, deaf, losses, early, notices>>

InFlight == \E h \in Hosts : net[h] # <<>> \/ notices[h] # {} \/ (~Idle(h) /\ ~call[h].blocked)

\* Mutant: the tries are not counted.
Tried_Not(n) == 1

Tried(n) == n + 1

\* wait_for returns false: again, or the call fails.  disconnect and the first
\* phase of accept leave the connection listening.
Expire(h) ==
    /\ call[h].blocked /\ call[h].pc \in {"finalize", "fin", "fin2", "accept", "receive"}
    /\ early' = IF InFlight THEN early + 1 ELSE early
    /\ early' <= MaxEarly
    /\ IF call[h].pc \in {"finalize", "fin"} /\ call[h].tries < max_tries
       THEN /\ Transmit(h, call[h].seg)
            /\ call' = [call EXCEPT ![h].tries = Tried(@)]
            /\ UNCHANGED conn
       ELSE /\ conn' = [conn EXCEPT ![call[h].on].listening = @ /\ call[h].pc # "finalize"]
            /\ Return(h)
            /\ UNCHANGED net
    /\ UNCHANGED <<sent, acked, got, deaf, losses, notices>>

-----------------------------------------------------------------------------
\* The system calls

connect ==
    /\ Idle("client") /\ conn["cli"].live = "new"
    /\ LET k == [NoConnection EXCEPT !.live = "live"]
       IN \E ok \in Prepared :
              IF ok THEN finalize_packet("client", "cli", k, "connect", Segment({"syn"}, k, 0))
              ELSE conn' = [conn EXCEPT !["cli"] = k] /\ UNCHANGED <<net, call>>
    /\ UNCHANGED <<sent, acked, got, deaf, losses, early, notices>>

accept ==
    /\ Idle("server") /\ conn["child"].live = "new"
    /\ conn' = [conn EXCEPT !["srv"].listening = TRUE]
    /\ call' = [call EXCEPT !["server"] = [NoCall EXCEPT !.pc = "accept", !.on = "srv", !.blocked = conn["srv"].packets = <<>>]]
    /\ UNCHANGED <<sent, net, acked, got, deaf, losses, early, notices>>

\* A packet of the queue while accept waits for a SYN, which makes the child.
Accepted ==
    /\ call["server"].pc = "accept" /\ ~call["server"].blocked /\ conn["srv"].packets # <<>>
    /\ LET s == Head(conn["srv"].packets)
           k == [conn["srv"] EXCEPT !.packets = Tail(@)]
           e == [k EXCEPT !.listening = FALSE, !.seq = s.ack, !.ack = s.seq + 1]
           child == [NoConnection EXCEPT !.live = "live", !.connected = TRUE, !.listening = TRUE, !.seq = e.seq, !.ack = e.ack]
           seg == Segment({"syn", "ack"}, child, 0)
       IN IF "syn" \notin s.flags
          THEN /\ conn' = [conn EXCEPT !["srv"] = k]
               /\ call' = [call EXCEPT !["server"].blocked = k.packets = <<>>]
               /\ UNCHANGED net
          ELSE \E ok \in Prepared :
                 IF ok
                 THEN /\ conn' = [conn EXCEPT !["srv"] = e, !["child"] = child]
                      /\ Transmit("server", seg)
                      /\ call' = [call EXCEPT !["server"] = [pc |-> "finalize", on |-> "child", op |-> "accept",
                                                             seg |-> seg, tries |-> 1, blocked |-> TRUE]]
                 ELSE /\ conn' = [conn EXCEPT !["srv"] = e, !["child"] = [child EXCEPT !.listening = FALSE]]
                      /\ Return("server") /\ UNCHANGED net
    /\ UNCHANGED <<sent, acked, got, deaf, losses, early, notices>>

listen(h) ==
    /\ Idle(h) /\ conn[Mine(h)].connected /\ ~conn[Mine(h)].listen
    /\ conn' = [conn EXCEPT ![Mine(h)].listen = TRUE]
    /\ UNCHANGED <<sent, net, call, acked, got, deaf, losses, early, notices>>

send(h) ==
    /\ Idle(h) /\ sent[h] < MaxMessages[h] /\ conn[Mine(h)].connected
    /\ finalize_packet(h, Mine(h), conn[Mine(h)], "send", Segment({"psh", "ack"}, conn[Mine(h)], sent[h] + 1))
    /\ sent' = [sent EXCEPT ![h] = @ + 1]
    /\ UNCHANGED <<acked, got, deaf, losses, early, notices>>

Take(h, c) ==
    /\ got' = [got EXCEPT ![c] = Append(@, Head(conn[c].inbox))]
    /\ conn' = [conn EXCEPT ![c].inbox = Tail(@)]

receive(h) ==
    /\ Idle(h) /\ conn[Mine(h)].connected /\ conn[Mine(h)].listen
    /\ IF conn[Mine(h)].inbox # <<>> THEN Take(h, Mine(h)) /\ UNCHANGED call
       ELSE /\ call' = [call EXCEPT ![h] = [NoCall EXCEPT !.pc = "receive", !.on = Mine(h), !.blocked = TRUE]]
            /\ UNCHANGED <<conn, got>>
    /\ UNCHANGED <<sent, net, acked, deaf, losses, early, notices>>

\* receive wakes up; it looks at the queue only while it is connected.
Received(h) ==
    /\ call[h].pc = "receive" /\ ~call[h].blocked
    /\ conn[call[h].on].connected => conn[call[h].on].inbox # <<>>
    /\ IF conn[call[h].on].connected THEN Take(h, call[h].on) ELSE UNCHANGED <<conn, got>>
    /\ Return(h)
    /\ UNCHANGED <<sent, net, acked, deaf, losses, early, notices>>

\* disconnect, up to its first wait, which does not look at the queue; a
\* program calls it once.
disconnect(h) ==
    /\ Idle(h) /\ conn[Mine(h)].connected /\ ~conn[Mine(h)].closing
    /\ LET c == Mine(h)
           s == Segment({"fin", "ack"}, conn[c], 0)
       IN /\ conn' = [conn EXCEPT ![c].listening = TRUE, ![c].closing = TRUE]
          /\ Transmit(h, s)
          /\ call' = [call EXCEPT ![h] = [pc |-> "fin", on |-> c, op |-> "disconnect", seg |-> s, tries |-> 1, blocked |-> TRUE]]
    /\ UNCHANGED <<sent, acked, got, deaf, losses, early, notices>>

\* The last ACK, and the connection is gone.
Closed(h, c, k) ==
    /\ Transmit(h, Segment({"ack"}, k, 0))
    /\ conn' = [conn EXCEPT ![c] = [NoConnection EXCEPT !.live = "removed"]]
    /\ Return(h)

Disconnected(h) ==
    /\ call[h].pc \in {"fin", "fin2"} /\ ~call[h].blocked /\ conn[call[h].on].packets # <<>>
    /\ LET c == call[h].on
           s == Head(conn[c].packets)
           k == [conn[c] EXCEPT !.packets = Tail(@)]
           e == [k EXCEPT !.seq = s.ack, !.ack = s.seq + 1]
       IN CASE {"fin", "ack"} \subseteq s.flags -> Closed(h, c, e)
            [] {"fin", "ack"} \cap s.flags = {"ack"} /\ call[h].pc = "fin" ->
                 /\ conn' = [conn EXCEPT ![c] = e]
                 /\ call' = [call EXCEPT ![h].pc = "fin2", ![h].blocked = k.packets = <<>>]
                 /\ UNCHANGED net
            [] OTHER ->
                 /\ conn' = [conn EXCEPT ![c] = k]
                 /\ call' = [call EXCEPT ![h].blocked = call[h].pc = "fin" \/ k.packets = <<>>]
                 /\ UNCHANGED net
    /\ UNCHANGED <<sent, acked, got, deaf, losses, early, notices>>

-----------------------------------------------------------------------------

\* What a process finds when it runs on from a wait.
Queue(h) == IF call[h].pc = "receive" THEN conn[call[h].on].inbox ELSE conn[call[h].on].packets
TakesFromEmpty(h) ==
    /\ ~Idle(h) /\ ~call[h].blocked /\ Queue(h) = <<>>
    /\ call[h].pc = "receive" => conn[call[h].on].connected

\* The first element of an empty queue: the assertion of finalize_packet stops
\* the host; what the others read is not known, and the host is not followed further.
Stop(h) ==
    /\ TakesFromEmpty(h)
    /\ call' = [call EXCEPT ![h] = [NoCall EXCEPT !.pc = "stopped", !.blocked = TRUE]]
    /\ UNCHANGED <<conn, net, sent, acked, got, deaf, losses, early, notices>>

\* A process runs on from a wait.
Continue(h) == Answered(h) \/ Received(h) \/ Disconnected(h) \/ (h = "server" /\ Accepted) \/ Stop(h)

TcpNext ==
    \/ connect \/ accept
    \/ \E h \in Hosts :
           \/ decode(h) \/ notify_one(h) \/ Lose(h) \/ Continue(h) \/ Expire(h)
           \/ listen(h) \/ send(h) \/ receive(h) \/ disconnect(h)

-----------------------------------------------------------------------------
Ascending(q) == \A i, j \in DOMAIN q : i < j => q[i] <= q[j]

\* Messages are received in the order in which they were sent, however often a
\* segment was lost and sent again; the same one may come twice, because decode
\* does not compare the sequence number with the one it expects.
InOrder == \A c \in Conns : Ascending(got[c] \o conn[c].inbox)

\* As long as nothing was lost, a send that has succeeded is delivered, or on
\* its way, although finalize_packet takes any ACK for that of its packet and
\* may give up waiting too early.  A socket that did not listen yet does not
\* count, nor one whose connection is gone.
AckedIsDelivered ==
    losses = 0 => \A h \in Hosts : \A d \in 1..MaxMessages[h] :
        d \in acked[h] =>
            LET c == Mine(Peer(h))
            IN conn[c].live = "live" => d \in ToSet(got[c] \o conn[c].inbox) \/ <<c, d>> \in deaf
                              \/ \E i \in DOMAIN net[Peer(h)] : net[Peer(h)][i].data = d

\* CallsReturn: nobody waits for an answer for ever, connect, send and disconnect return.
Waits(h) == call[h].pc \in {"finalize", "fin", "fin2"}
=============================================================================
