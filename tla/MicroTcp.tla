------------------------------ MODULE MicroTcp ------------------------------
(***************************************************************************)
(* The user-space TCP client (modules/network/micro_tcp.cpp).  It answers  *)
(* every packet at once and keeps no timer: nothing is ever retransmitted. *)
(*                                                                         *)
(* Sequence numbers are uint32_t in the code; they wrap at SeqMod here and *)
(* are compared as the code compares them, as plain numbers.  A packet is  *)
(* a record of the header fields process_rx() looks at; "path" says        *)
(* whether parse_tcp_packet() and the filters let it through.              *)
(***************************************************************************)
EXTENDS Naturals, Sequences, FiniteSets

CONSTANTS
  SeqMod,      \* 2^32
  ISS,         \* iss_, drawn at random by the constructor
  MaxRx,       \* MAX_RX_BUFFER_SIZE
  MaxNoMbuf    \* bound: how often rte_pktmbuf_alloc fails

ASSUME MicroTcpAssumption ==
  /\ SeqMod \in Nat \ {0} /\ ISS \in 0..(SeqMod - 1)
  /\ MaxRx \in Nat /\ MaxNoMbuf \in Nat

VARIABLES
  state_,     \* the state of the connection
  snd_una,    \* the oldest byte not acknowledged, so far as the client knows
  snd_nxt,    \* the next byte to send
  rcv_nxt,    \* the next byte expected
  rx_buffer,  \* bytes received and not extracted
  taken,      \* bytes extract_rx_data() has handed out
  noMbuf,     \* how often the pool was empty
  toPeer,     \* packets on their way to the peer
  toUs        \* packets on their way to the client

tcpVars == <<state_, snd_una, snd_nxt, rcv_nxt, rx_buffer, taken, noMbuf>>

States == {"CLOSED", "SYN_SENT", "ESTABLISHED", "FIN_WAIT_2", "TIME_WAIT"}

\* uint32_t addition, as in update_snd_nxt.
\* Mutant: sequence numbers do not wrap.
Plus_NoWrap(a, n) == a + n
Plus(a, n) == (a + n) % SeqMod

\* create_tcp_packet: a SYN carries iss_ and no acknowledgment, everything
\* else what snd_nxt_ and rcv_nxt_ are at that moment.
Packet(flags, seq, ack, data) ==
  [flags |-> flags, seq |-> seq, ack |-> ack, data |-> data, path |-> "ok"]
SynPacket == Packet({"SYN"}, ISS, 0, <<>>)
AckPacket(ack) == Packet({"ACK"}, snd_nxt, ack, <<>>)

\* The packets of S are handed to the port, except those for which the pool
\* has no mbuf: a null pointer takes their place.
Transmit(S) ==
  \E lost \in SUBSET S :
    /\ noMbuf + Cardinality(lost) <= MaxNoMbuf
    /\ noMbuf' = noMbuf + Cardinality(lost)
    /\ toPeer' = toPeer \cup (S \ lost)

-----------------------------------------------------------------------------
\* connect(): the state changes first; without an mbuf there is no SYN.
Connect ==
  /\ state_ = "CLOSED"
  /\ state_' = "SYN_SENT"
  /\ Transmit({SynPacket})
  /\ snd_nxt' = IF noMbuf' = noMbuf THEN Plus(snd_nxt, 1) ELSE snd_nxt
  /\ UNCHANGED <<snd_una, rcv_nxt, rx_buffer, taken, toUs>>

\* send_data(): sequence numbers are used up when the packet is made.
SendData(data) ==
  /\ state_ = "ESTABLISHED"
  /\ Transmit({Packet({"PSH", "ACK"}, snd_nxt, rcv_nxt, data)})
  /\ snd_nxt' = IF noMbuf' = noMbuf THEN Plus(snd_nxt, Len(data)) ELSE snd_nxt
  /\ UNCHANGED <<state_, snd_una, rcv_nxt, rx_buffer, taken, toUs>>

\* extract_rx_data()
\* Mutant: the buffer is cleared before it is copied.
ExtractRxData_ClearsFirst ==
  /\ rx_buffer # <<>>
  /\ rx_buffer' = <<>>
  /\ UNCHANGED <<state_, snd_una, snd_nxt, rcv_nxt, taken, noMbuf, toPeer, toUs>>
ExtractRxData ==
  /\ rx_buffer # <<>>
  /\ taken' = taken \o rx_buffer
  /\ rx_buffer' = <<>>
  /\ UNCHANGED <<state_, snd_una, snd_nxt, rcv_nxt, noMbuf, toPeer, toUs>>

-----------------------------------------------------------------------------
(* process_rx(p), state by state.                                          *)

\* SYN_SENT: the SYN-ACK that confirms our SYN; payload is not looked at.
SynAckOk(p) == {"SYN", "ACK"} \subseteq p.flags /\ p.ack = Plus(ISS, 1)
RxSynSent(p) ==
  /\ state_ = "SYN_SENT" /\ SynAckOk(p)
  /\ rcv_nxt' = Plus(p.seq, 1)
  /\ snd_una' = p.ack
  /\ state_' = "ESTABLISHED"
  /\ Transmit({AckPacket(rcv_nxt')})
  /\ UNCHANGED <<snd_nxt, rx_buffer, taken>>

\* ESTABLISHED: take data in order, acknowledge old data again, drop the
\* rest; then the acknowledgment; then FIN, whatever its sequence number.
\* Mutant: old data is dropped without an answer.
RxEstablished_NoReAck(p) ==
  /\ state_ = "ESTABLISHED"
  /\ LET inOrder == p.data # <<>> /\ p.seq = rcv_nxt
     IN  /\ rx_buffer' = IF inOrder THEN rx_buffer \o p.data ELSE rx_buffer
         /\ rcv_nxt' = IF inOrder THEN Plus(rcv_nxt, Len(p.data)) ELSE rcv_nxt
         /\ Transmit(IF inOrder THEN {AckPacket(rcv_nxt')} ELSE {})
  /\ UNCHANGED <<state_, snd_una, snd_nxt, taken>>
\* Mutant: out-of-order data is dropped but acknowledged.
RxEstablished_AcksGap(p) ==
  /\ state_ = "ESTABLISHED"
  /\ LET inOrder == p.data # <<>> /\ p.seq = rcv_nxt
     IN  /\ rx_buffer' = IF inOrder THEN rx_buffer \o p.data ELSE rx_buffer
         /\ rcv_nxt' = IF inOrder THEN Plus(rcv_nxt, Len(p.data)) ELSE rcv_nxt
         /\ Transmit({AckPacket(Plus(p.seq, Len(p.data)))})
  /\ UNCHANGED <<state_, snd_una, snd_nxt, taken>>
RxEstablished(p) ==
  LET n       == Len(p.data)
      inOrder == n > 0 /\ p.seq = rcv_nxt
      old     == n > 0 /\ p.seq < rcv_nxt
      fin     == "FIN" \in p.flags
      fits    == Len(rx_buffer) + n <= MaxRx
      after   == IF inOrder THEN Plus(rcv_nxt, n) ELSE rcv_nxt
  IN  /\ state_ = "ESTABLISHED"
      /\ rx_buffer' = IF inOrder /\ fits THEN rx_buffer \o p.data ELSE rx_buffer
      /\ rcv_nxt' = IF fin THEN Plus(after, 1) ELSE after
      /\ snd_una' = IF p.ack > snd_una THEN p.ack ELSE snd_una
      /\ state_' = IF fin THEN "FIN_WAIT_2" ELSE state_
      /\ Transmit({AckPacket(after) : x \in IF inOrder \/ old THEN {1} ELSE {}}
                  \cup {AckPacket(rcv_nxt') : x \in IF fin THEN {1} ELSE {}})
      /\ UNCHANGED <<snd_nxt, taken>>

\* FIN_WAIT_2: one more FIN is counted and acknowledged.
RxFinWait2(p) ==
  /\ state_ = "FIN_WAIT_2" /\ "FIN" \in p.flags
  /\ rcv_nxt' = Plus(rcv_nxt, 1)
  /\ state_' = "TIME_WAIT"
  /\ Transmit({AckPacket(rcv_nxt')})
  /\ UNCHANGED <<snd_una, snd_nxt, rx_buffer, taken>>

\* Packets the state machine has no use for.
RxIgnored(p) ==
  /\ \/ state_ = "SYN_SENT" /\ ~SynAckOk(p)
     \/ state_ = "FIN_WAIT_2" /\ "FIN" \notin p.flags
     \/ state_ \in {"CLOSED", "TIME_WAIT"}
  /\ UNCHANGED <<tcpVars, toPeer>>

\* Not TCP over IPv4, cut short, not to our address and port, not from the
\* peer's, or longer than its IP length.
\* Mutant: the source of a packet is not compared with the peer.
Accepts_AnySource(p) == p.path \in {"ok", "other source"}
Accepts(p) == p.path = "ok"

ProcessRx(p) ==
  /\ p \in toUs
  /\ toUs' = toUs \ {p}
  /\ IF Accepts(p)
     THEN RxSynSent(p) \/ RxEstablished(p) \/ RxFinWait2(p) \/ RxIgnored(p)
     ELSE UNCHANGED <<tcpVars, toPeer>>

\* The constructor.
TcpInit ==
  /\ state_ = "CLOSED"
  /\ snd_una = 0 /\ snd_nxt = ISS /\ rcv_nxt = 0
  /\ rx_buffer = <<>> /\ taken = <<>>
  /\ noMbuf = 0
=============================================================================
