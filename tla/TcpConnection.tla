--------------------------- MODULE TcpConnection ---------------------------
(***************************************************************************)
(* MicroTcp against a peer that follows TCP, over a network that loses and *)
(* reorders packets; what the peer sends twice arrives twice.              *)
(*                                                                         *)
(* The peer sends the bytes 1, 2, ..., Total.  It cuts them into segments  *)
(* as it likes, also anew when it retransmits, never beyond its window.    *)
(***************************************************************************)
EXTENDS MicroTcp

CONSTANTS
  IRS,        \* the peer's initial sequence number
  Total,      \* how many bytes the peer sends
  Window,     \* how many bytes the peer sends ahead of the acknowledged ones
  PeerFins,   \* the peer closes when it is done: "never", after everything
              \* was acknowledged ("acked"), or after it was sent ("sent")
  Strays,     \* packets of others that reach the client
  MaxSends,   \* bound: how often the client sends a byte
  MaxLosses,  \* bound: how many packets the network loses
  MaxFlight   \* bound: the peer sends nothing while so many packets are under
              \* way to the client

ASSUME TcpConnectionAssumption ==
  /\ IRS \in 0..(SeqMod - 1)
  /\ Total \in Nat /\ Window \in Nat \ {0}
  /\ PeerFins \in {"never", "acked", "sent"}
  /\ \A p \in Strays : p.path # "ok"
  /\ MaxSends \in Nat /\ MaxLosses \in Nat /\ MaxFlight \in Nat \ {0}

VARIABLES
  peer,     \* the peer's state
  hi,       \* the last byte the peer has sent; Total + 1 is its FIN
  acked,    \* the last byte the peer knows the client to have received
  got,      \* how many bytes of the client the peer has received
  sends,    \* how often the client has sent
  losses    \* how many packets were lost

peerVars == <<peer, hi, acked, got, sends, losses>>
vars == <<tcpVars, toPeer, toUs, peerVars>>

Received == taken \o rx_buffer

\* The sequence number of the peer's i-th byte, and what it acknowledges.
SeqOf(i) == Plus(IRS, i)
AckOf == Plus(ISS, 1 + got)

FromPeer(p) == toUs' = toUs \cup {p}

SynAck == Packet({"SYN", "ACK"}, IRS, Plus(ISS, 1), <<>>)
Segment(i, j) == Packet({"ACK"}, SeqOf(i), AckOf, [k \in 1..(j - i + 1) |-> i + k - 1])
Fin == Packet({"FIN", "ACK"}, SeqOf(Total + 1), AckOf, <<>>)

-----------------------------------------------------------------------------
\* The peer receives a SYN, or sends its answer again.
PeerSyn ==
  /\ \/ peer = "LISTEN" /\ SynPacket \in toPeer /\ toPeer' = toPeer \ {SynPacket}
     \/ peer = "SYN_RCVD" /\ SynAck \notin toUs /\ UNCHANGED toPeer
  /\ peer' = "SYN_RCVD"
  /\ FromPeer(SynAck)
  /\ UNCHANGED <<tcpVars, hi, acked, got, sends, losses>>

\* The peer sends bytes i to j, for the first time or again.
PeerSends(i, j) ==
  /\ peer = "ESTAB"
  /\ acked < i /\ i <= hi + 1 /\ i <= j
  /\ j <= Total /\ j <= acked + Window
  /\ Segment(i, j) \notin toUs /\ Cardinality(toUs) < MaxFlight
  /\ FromPeer(Segment(i, j))
  /\ hi' = IF j > hi THEN j ELSE hi
  /\ UNCHANGED <<tcpVars, toPeer, peer, acked, got, sends, losses>>

\* The peer closes its direction, or says so again.
PeerSendsFin ==
  /\ peer = "ESTAB" /\ hi >= Total /\ acked <= Total
  /\ \/ PeerFins = "sent"
     \/ PeerFins = "acked" /\ acked = Total
  /\ Fin \notin toUs /\ Cardinality(toUs) < MaxFlight
  /\ FromPeer(Fin)
  /\ hi' = Total + 1
  /\ UNCHANGED <<tcpVars, toPeer, peer, acked, got, sends, losses>>

\* The peer receives an acknowledgment, with or without a byte of the
\* client.  It believes what lies between what is acknowledged and what it
\* has sent, and waits for bytes in order.
PeerReceives(p) ==
  /\ p \in toPeer /\ "ACK" \in p.flags
  /\ peer \in {"SYN_RCVD", "ESTAB"}
  /\ p.data # <<>> => p.seq = AckOf
  /\ toPeer' = toPeer \ {p}
  /\ peer' = "ESTAB"
  /\ LET K == {k \in acked..hi : SeqOf(k + 1) = p.ack}
     IN  acked' = IF K = {} THEN acked ELSE CHOOSE k \in K : TRUE
  /\ got' = got + Len(p.data)
  /\ IF p.data = <<>> THEN UNCHANGED toUs
     ELSE FromPeer(Packet({"ACK"}, SeqOf(hi + 1), Plus(AckOf, Len(p.data)), <<>>))
  /\ UNCHANGED <<tcpVars, hi, sends, losses>>

\* The network loses a packet.  The client's SYN and its data must arrive:
\* it never sends them again.
Lose(p) ==
  /\ losses < MaxLosses /\ losses' = losses + 1
  /\ \/ p \in toUs /\ toUs' = toUs \ {p} /\ UNCHANGED toPeer
     \/ p \in toPeer /\ p.flags = {"ACK"} /\ toPeer' = toPeer \ {p} /\ UNCHANGED toUs
  /\ UNCHANGED <<tcpVars, peer, hi, acked, got, sends>>

-----------------------------------------------------------------------------
(* The client's operations in this setting.                                *)
ClientConnects == Connect /\ UNCHANGED peerVars
ClientSends ==
  /\ sends < MaxSends /\ sends' = sends + 1
  /\ SendData(<<0>>)
  /\ UNCHANGED <<peer, hi, acked, got, losses>>
\* WebSocketClient::process_rx hands over a packet and takes the bytes out
\* before it comes with the next one.
ClientReceives(p) == rx_buffer = <<>> /\ ProcessRx(p) /\ UNCHANGED peerVars
ClientExtracts == ExtractRxData /\ UNCHANGED peerVars

Init ==
  /\ TcpInit
  /\ toPeer = {} /\ toUs = Strays
  /\ peer = "LISTEN" /\ hi = 0 /\ acked = 0 /\ got = 0
  /\ sends = 0 /\ losses = 0

Next ==
  \/ ClientConnects \/ ClientSends \/ ClientExtracts
  \/ \E p \in toUs : ClientReceives(p)
  \/ PeerSyn \/ PeerSendsFin
  \/ \E i, j \in 1..Total : PeerSends(i, j)
  \/ \E p \in toPeer : PeerReceives(p)
  \/ \E p \in toUs \cup toPeer : Lose(p)

Spec == Init /\ [][Next]_vars

\* The client polls; the network delivers what it does not lose; the peer
\* retransmits from the first byte that is not acknowledged.
FairSpec ==
  /\ Spec
  /\ WF_vars(ClientConnects) /\ WF_vars(ClientSends) /\ WF_vars(ClientExtracts)
  /\ WF_vars(PeerSyn)
  /\ WF_vars(\E j \in 1..Total : PeerSends(acked + 1, j))
  /\ \A s \in 0..(SeqMod - 1) :
       /\ WF_vars(\E p \in {q \in toUs : q.seq = s} : ClientReceives(p))
       /\ WF_vars(\E p \in {q \in toPeer : q.ack = s} : PeerReceives(p))

-----------------------------------------------------------------------------
\* Numbers are sequence numbers, the buffer respects its limit, and the
\* connection is in a state the code enters.
TypeOK ==
  /\ state_ \in States
  /\ {snd_una, snd_nxt, rcv_nxt} \subseteq 0..(SeqMod - 1)
  /\ Len(rx_buffer) <= MaxRx
  /\ peer \in {"LISTEN", "SYN_RCVD", "ESTAB"}
  /\ acked \in 0..hi /\ hi \in 0..(Total + 1)

\* What the client hands out and holds is the beginning of what the peer
\* sent, without holes, repetitions or bytes of others, however the network
\* and the peer cut, repeat and reorder it.
StreamIntact == Received = [i \in 1..Len(Received) |-> i]

\* The peer never believes that a byte was received that the client has not
\* taken (micro_tcp.cpp, line 312: "ACK previous received data").
NoFalseAck == acked <= Total => acked <= Len(Received)

\* The connection is a reliable stream: what process_rx() stores only grows,
\* by the peer's next bytes; extract_rx_data() hands each of them out once;
\* and no packet of the network, however old, takes back or brings forward
\* what the peer knows to have arrived.
Reliable ==
  INSTANCE ReliableStream WITH sent <- hi, received <- Received, handed <- taken
ReliablyDelivers == Reliable!SSpec

\* Everything the peer sends is received and acknowledged in the end,
\* although packets and acknowledgments are lost: what comes again is
\* acknowledged again (micro_tcp.cpp, line 206: "Duplicate packet, re-ACK").
AllDelivered == <>(acked >= Total /\ Len(taken) = Total)
=============================================================================
