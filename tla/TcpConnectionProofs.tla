------------------------- MODULE TcpConnectionProofs -------------------------
(***************************************************************************)
(* MicroTcp hands out what the peer sent, for every stream, every way to   *)
(* cut it into segments and every network that loses, repeats and reorders *)
(* packets.                                                                *)
(*                                                                         *)
(* Three layers, each resting on the one before it: types (TypeInv), the   *)
(* stream and what may be under way to the client (StreamInv), and what    *)
(* the acknowledgments under way stand for (AckInv).                       *)
(***************************************************************************)
EXTENDS TcpConnection, Integers, SequenceTheorems, TLAPS

SeqNums == 0..(SeqMod - 1)

-----------------------------------------------------------------------------
(* Arithmetic of sequence numbers.                                         *)

\* A number is SeqMod times its quotient, and its remainder.
LEMMA DivMod ==
  ASSUME NEW x \in Int, NEW m \in Int, m > 0
  PROVE  x = m * (x \div m) + (x % m) /\ x \div m \in Int /\ x % m \in 0..(m - 1)
<1>1. x = m * (x \div m) + (x % m)
  BY Z3
<1>2. x \div m \in Int /\ x % m \in 0..(m - 1)
  OBVIOUS
<1> QED BY <1>1, <1>2

\* A multiple of m that lies between -m and m is 0.
LEMMA SmallMultiple ==
  ASSUME NEW m \in Int, m > 0, NEW d \in Int, m * d < m, m * d > -m
  PROVE  d = 0
<1>1. CASE d >= 1
  <2>1. m * d >= m
    BY <1>1
  <2> QED BY <2>1
<1>2. CASE d <= -1
  <2>1. m * d <= -m
    BY <1>2
  <2> QED BY <2>1
<1> QED BY <1>1, <1>2

\* Equal remainders, or none, of two numbers less than m apart.
LEMMA ModUnique ==
  ASSUME NEW m \in Int, m > 0, NEW c \in Int, NEW d \in Int,
         NEW r \in Int, NEW s \in Int,
         r - s < m, r - s > -m, m * c + r = m * d + s
  PROVE  r = s
<1>1. m * (d - c) = m * d - m * c /\ m * d \in Int /\ m * c \in Int /\ m * (d - c) \in Int
  OBVIOUS
<1>2. r - s = m * (d - c)
  BY <1>1
<1>3. d - c = 0
  BY <1>2, SmallMultiple
<1>4. m * (d - c) = 0
  BY <1>3
<1> QED BY <1>2, <1>4

\* A sum of sequence numbers is a sequence number.
LEMMA PlusType ==
  ASSUME NEW a \in Nat, NEW n \in Nat
  PROVE  Plus(a, n) \in SeqNums
BY MicroTcpAssumption DEF Plus, SeqNums

\* Numbers less than SeqMod apart keep apart when they wrap.
LEMMA PlusInjective ==
  ASSUME NEW a \in Nat, NEW i \in Nat, NEW j \in Nat,
         i - j < SeqMod, j - i < SeqMod, Plus(a, i) = Plus(a, j)
  PROVE  i = j
<1> DEFINE x == a + i
           y == a + j
           M == SeqMod
<1>1. x \in Int /\ y \in Int /\ M \in Int /\ M > 0 /\ x - y = i - j
  BY MicroTcpAssumption
<1>2. x % M = y % M
  BY DEF Plus
<1> HIDE DEF x, y, M
<1>3. x = M * (x \div M) + (x % M) /\ x \div M \in Int /\ x % M \in Int
  BY <1>1, DivMod
<1>4. y = M * (y \div M) + (x % M) /\ y \div M \in Int
  BY <1>1, <1>2, DivMod
<1> DEFINE c == x \div M
           d == y \div M
<1>5. M * (c - d) = M * c - M * d /\ M * c \in Int /\ M * d \in Int /\ M * (c - d) \in Int
  BY <1>1, <1>3, <1>4
<1>6. x - y = M * (c - d)
  BY <1>1, <1>3, <1>4, <1>5
<1>7. x - y < M /\ x - y > -M
  BY <1>1, MicroTcpAssumption DEF M
<1> HIDE DEF c, d
<1>8. c \in Int /\ d \in Int
  BY <1>3, <1>4 DEF c, d
<1>9. c - d = 0
  BY <1>1, <1>6, <1>7, <1>8, SmallMultiple
<1>10. M * (c - d) = 0
  BY <1>1, <1>9
<1> QED BY <1>1, <1>6, <1>10

\* Steps add up although each of them wraps.
LEMMA PlusPlus ==
  ASSUME NEW a \in Nat, NEW m \in Nat, NEW n \in Nat
  PROVE  Plus(Plus(a, m), n) = Plus(a, m + n)
<1> DEFINE M == SeqMod
           x == a + m
           y == a + (m + n)
           z == (x % M) + n
<1>1. x \in Int /\ y \in Int /\ M \in Int /\ M > 0 /\ y = x + n
  BY MicroTcpAssumption
<1>2. x = M * (x \div M) + (x % M) /\ x \div M \in Int /\ x % M \in Int
  BY <1>1, DivMod
<1>3. z \in Int
  BY <1>2
<1>4. z % M = y % M
  <2> HIDE DEF x, y, z, M
  <2>1. z = M * (z \div M) + (z % M) /\ z \div M \in Int /\ z % M \in 0..(M - 1)
    BY <1>1, <1>3, DivMod
  <2>2. y = M * (y \div M) + (y % M) /\ y \div M \in Int /\ y % M \in 0..(M - 1)
    BY <1>1, DivMod
  <2> DEFINE b == x \div M
             c == z \div M
             d == y \div M
             r == z % M
             s == y % M
  <2>3. b \in Int /\ c \in Int /\ d \in Int /\ r \in 0..(M - 1) /\ s \in 0..(M - 1)
    BY <1>2, <2>1, <2>2
  <2>4. y = M * b + z
    BY <1>1, <1>2 DEF z
  <2>5. y = M * d + s /\ z = M * c + r
    BY <2>1, <2>2
  <2> HIDE DEF b, c, d, r, s
  <2>6. M * (b + c) = M * b + M * c /\ M * b \in Int /\ M * c \in Int /\ M * d \in Int
    BY <1>1, <2>3
  <2>7. M * (b + c) + r = M * d + s
    BY <1>1, <1>3, <2>3, <2>4, <2>5, <2>6
  <2>8. r - s < M /\ r - s > -M
    BY <1>1, <2>3
  <2>9. r = s
    BY <1>1, <2>3, <2>7, <2>8, ModUnique
  <2> QED BY <2>9 DEF r, s
<1> QED BY <1>4 DEF Plus

-----------------------------------------------------------------------------
(* Types.                                                                  *)

PacketsOK ==
  /\ \A p \in toUs : Accepts(p) =>
       p.seq \in SeqNums /\ p.ack \in SeqNums /\ p.data \in Seq(Nat)
  /\ \A p \in toPeer :
       p.seq \in SeqNums /\ p.ack \in SeqNums /\ p.data \in Seq(Nat)

TypeInv ==
  /\ TypeOK
  /\ rx_buffer \in Seq(Nat) /\ taken \in Seq(Nat)
  /\ got \in Nat /\ snd_nxt \in SeqNums /\ snd_una \in SeqNums /\ rcv_nxt \in SeqNums
  /\ PacketsOK

LEMMA SeqOfType ==
  ASSUME NEW i \in Nat
  PROVE  SeqOf(i) \in SeqNums
BY PlusType, TcpConnectionAssumption, MicroTcpAssumption DEF SeqOf

LEMMA AckOfType ==
  ASSUME got \in Nat
  PROVE  AckOf \in SeqNums
BY PlusType, MicroTcpAssumption DEF AckOf

LEMMA SeqNumsNat == SeqNums \subseteq Nat /\ 0 \in SeqNums /\ ISS \in SeqNums /\ IRS \in SeqNums
BY MicroTcpAssumption, TcpConnectionAssumption DEF SeqNums

LEMMA InitType == Init => TypeInv
<1> SUFFICES ASSUME Init PROVE TypeInv
  OBVIOUS
<1> USE DEF Init, TcpInit
<1>1. TypeOK
  BY MicroTcpAssumption, TcpConnectionAssumption DEF TypeOK, States
<1>2. PacketsOK
  BY TcpConnectionAssumption DEF PacketsOK, Accepts
<1> QED BY <1>1, <1>2, SeqNumsNat DEF TypeInv

LEMMA ConnectType ==
  ASSUME TypeInv, ClientConnects
  PROVE  TypeInv'
<1> USE DEF TypeInv, TypeOK, ClientConnects, Connect, peerVars
<1>1. Plus(snd_nxt, 1) \in SeqNums
  BY PlusType, SeqNumsNat
<1>2. SynPacket.seq \in SeqNums /\ SynPacket.ack \in SeqNums /\ SynPacket.data \in Seq(Nat)
  BY SeqNumsNat DEF SynPacket, Packet
<1>3. PacketsOK'
  BY <1>2 DEF PacketsOK, Transmit, Accepts
<1>4. snd_nxt' \in SeqNums
  BY <1>1
<1> QED BY <1>3, <1>4 DEF States, SeqNums

LEMMA SendsType ==
  ASSUME TypeInv, ClientSends
  PROVE  TypeInv'
<1> USE DEF TypeInv, TypeOK, ClientSends, SendData
<1> DEFINE q == Packet({"PSH", "ACK"}, snd_nxt, rcv_nxt, <<0>>)
<1>1. Plus(snd_nxt, Len(<<0>>)) \in SeqNums
  BY PlusType, SeqNumsNat
<1>2. q.seq \in SeqNums /\ q.ack \in SeqNums /\ q.data \in Seq(Nat)
  BY DEF Packet
<1>3. PacketsOK'
  BY <1>2 DEF PacketsOK, Transmit, Accepts
<1>4. snd_nxt' \in SeqNums
  BY <1>1
<1> QED BY <1>3, <1>4 DEF SeqNums

LEMMA ExtractsType ==
  ASSUME TypeInv, ClientExtracts
  PROVE  TypeInv'
<1> USE DEF TypeInv, TypeOK, ClientExtracts, ExtractRxData, peerVars
<1>1. PacketsOK'
  BY DEF PacketsOK, Accepts
<1>2. rx_buffer' \in Seq(Nat) /\ taken' \in Seq(Nat) /\ Len(rx_buffer') <= MaxRx
  BY MicroTcpAssumption
<1> QED BY <1>1, <1>2 DEF SeqNums

LEMMA ReceivesType ==
  ASSUME TypeInv, NEW p \in toUs, ClientReceives(p)
  PROVE  TypeInv'
<1> USE DEF TypeInv, TypeOK, peerVars
<1>0. UNCHANGED peerVars /\ toUs' = toUs \ {p}
  BY DEF ClientReceives, ProcessRx
<1>1. CASE UNCHANGED <<tcpVars, toPeer>>
  BY <1>0, <1>1 DEF tcpVars, PacketsOK, Accepts
<1>2. CASE Accepts(p) /\ RxSynSent(p)
  <2>1. p.seq \in SeqNums /\ p.ack \in SeqNums
    BY <1>2 DEF PacketsOK
  <2>2. rcv_nxt' \in SeqNums /\ snd_una' \in SeqNums
    BY <1>2, <2>1, PlusType, SeqNumsNat DEF RxSynSent
  <2> DEFINE q == AckPacket(rcv_nxt')
  <2>3. toPeer' \subseteq toPeer \cup {q}
    BY <1>2 DEF RxSynSent, Transmit
  <2>4. q.seq \in SeqNums /\ q.ack \in SeqNums /\ q.data \in Seq(Nat)
    BY <2>2 DEF AckPacket, Packet
  <2> HIDE DEF q
  <2>5. PacketsOK'
    BY <1>0, <2>3, <2>4 DEF PacketsOK, Accepts
  <2> QED BY <1>0, <1>2, <2>2, <2>5 DEF RxSynSent, States, SeqNums
<1>3. CASE Accepts(p) /\ RxEstablished(p)
  <2> DEFINE n == Len(p.data)
             inOrder == n > 0 /\ p.seq = rcv_nxt
             after == IF inOrder THEN Plus(rcv_nxt, n) ELSE rcv_nxt
  <2>1. p.seq \in SeqNums /\ p.ack \in SeqNums /\ p.data \in Seq(Nat)
    BY <1>3 DEF PacketsOK
  <2>2. after \in SeqNums /\ Plus(after, 1) \in SeqNums
    <3>1. Plus(rcv_nxt, n) \in SeqNums
      BY <2>1, PlusType, SeqNumsNat
    <3>2. after \in SeqNums
      BY <3>1
    <3> HIDE DEF after
    <3> QED BY <3>2, PlusType, SeqNumsNat
  <2>3. rcv_nxt' \in SeqNums
    BY <1>3, <2>2 DEF RxEstablished
  <2>4. snd_una' \in SeqNums /\ state_' \in States /\ UNCHANGED <<snd_nxt, taken>>
    BY <1>3, <2>1 DEF RxEstablished, States
  <2>5. rx_buffer' \in Seq(Nat) /\ Len(rx_buffer') <= MaxRx
    <3>1. CASE rx_buffer' = rx_buffer
      BY <3>1
    <3>2. CASE rx_buffer' = rx_buffer \o p.data /\ Len(rx_buffer) + n <= MaxRx
      BY <2>1, <3>2
    <3> QED BY <1>3, <3>1, <3>2 DEF RxEstablished
  <2> DEFINE q == AckPacket(after)
             r == AckPacket(rcv_nxt')
  <2>6. toPeer' \subseteq toPeer \cup {q, r}
    BY <1>3 DEF RxEstablished, Transmit
  <2> HIDE DEF after
  <2>7. /\ q.seq \in SeqNums /\ q.ack \in SeqNums /\ q.data \in Seq(Nat)
        /\ r.seq \in SeqNums /\ r.ack \in SeqNums /\ r.data \in Seq(Nat)
    BY <2>2, <2>3 DEF AckPacket, Packet
  <2> HIDE DEF q, r
  <2>8. PacketsOK'
    BY <1>0, <2>6, <2>7 DEF PacketsOK, Accepts
  <2> QED BY <1>0, <2>3, <2>4, <2>5, <2>8 DEF SeqNums
<1>4. CASE RxFinWait2(p)
  <2>1. rcv_nxt' \in SeqNums
    BY <1>4, PlusType, SeqNumsNat DEF RxFinWait2
  <2> DEFINE q == AckPacket(rcv_nxt')
  <2>2. toPeer' \subseteq toPeer \cup {q}
    BY <1>4 DEF RxFinWait2, Transmit
  <2>3. q.seq \in SeqNums /\ q.ack \in SeqNums /\ q.data \in Seq(Nat)
    BY <2>1 DEF AckPacket, Packet
  <2> HIDE DEF q
  <2>4. PacketsOK'
    BY <1>0, <2>2, <2>3 DEF PacketsOK, Accepts
  <2> QED BY <1>0, <1>4, <2>1, <2>4 DEF RxFinWait2, States, SeqNums
<1> QED
  BY <1>1, <1>2, <1>3, <1>4 DEF ClientReceives, ProcessRx, RxIgnored

LEMMA PeerType ==
  ASSUME TypeInv,
         \/ PeerSyn \/ PeerSendsFin
         \/ \E i, j \in 1..Total : PeerSends(i, j)
         \/ \E p \in toPeer : PeerReceives(p)
         \/ \E p \in toUs \cup toPeer : Lose(p)
  PROVE  TypeInv'
<1> USE DEF TypeInv, TypeOK
<1> USE TcpConnectionAssumption
<1>1. CASE PeerSyn
  <2>1. SynAck.seq \in SeqNums /\ SynAck.ack \in SeqNums /\ SynAck.data \in Seq(Nat)
    BY SeqNumsNat, PlusType DEF SynAck, Packet
  <2>2. PacketsOK'
    BY <1>1, <2>1 DEF PeerSyn, FromPeer, PacketsOK, Accepts
  <2> QED BY <1>1, <2>2 DEF PeerSyn, tcpVars
<1>2. CASE PeerSendsFin
  <2>1. Fin.seq \in SeqNums /\ Fin.ack \in SeqNums /\ Fin.data \in Seq(Nat)
    BY SeqOfType, AckOfType DEF Fin, Packet
  <2>2. PacketsOK'
    BY <1>2, <2>1 DEF PeerSendsFin, FromPeer, PacketsOK, Accepts
  <2> QED BY <1>2, <2>2 DEF PeerSendsFin, tcpVars
<1>3. ASSUME NEW i \in 1..Total, NEW j \in 1..Total, PeerSends(i, j) PROVE TypeInv'
  <2> DEFINE q == Segment(i, j)
  <2>0. i <= j /\ j <= Total
    BY <1>3 DEF PeerSends
  <2>1. q.seq \in SeqNums /\ q.ack \in SeqNums
    BY SeqOfType, AckOfType DEF Segment, Packet
  <2>2. q.data \in Seq(Nat)
    <3>1. j - i + 1 \in Nat
      BY <2>0
    <3>2. [k \in 1..(j - i + 1) |-> i + k - 1] \in Seq(Nat)
      BY <3>1
    <3> QED BY <3>2 DEF Segment, Packet
  <2>3. PacketsOK'
    <3> HIDE DEF q
    <3> QED BY <1>3, <2>1, <2>2 DEF PeerSends, FromPeer, PacketsOK, Accepts, q
  <2> QED BY <1>3, <2>0, <2>3 DEF PeerSends, tcpVars
<1>4. ASSUME NEW p \in toPeer, PeerReceives(p) PROVE TypeInv'
  <2> DEFINE K == {k \in acked..hi : SeqOf(k + 1) = p.ack}
             q == Packet({"ACK"}, SeqOf(hi + 1), Plus(AckOf, Len(p.data)), <<>>)
  <2>1. acked' \in acked..hi /\ UNCHANGED hi
    <3>1. acked' = (IF K = {} THEN acked ELSE CHOOSE k \in K : TRUE) /\ UNCHANGED hi
      BY <1>4 DEF PeerReceives
    <3>2. K \subseteq acked..hi
      OBVIOUS
    <3> HIDE DEF K
    <3>3. CASE K = {}
      BY <3>1, <3>3
    <3>4. CASE K # {}
      BY <3>1, <3>2, <3>4
    <3> QED BY <3>3, <3>4
  <2>2. Len(p.data) \in Nat
    BY DEF PacketsOK
  <2>3. q.seq \in SeqNums /\ q.ack \in SeqNums /\ q.data \in Seq(Nat)
    <3>1. SeqOf(hi + 1) \in SeqNums
      BY SeqOfType
    <3>2. Plus(AckOf, Len(p.data)) \in SeqNums
      BY <2>2, AckOfType, PlusType, SeqNumsNat
    <3> QED BY <3>1, <3>2 DEF Packet
  <2>4. toUs' \subseteq toUs \cup {q} /\ toPeer' \subseteq toPeer
    BY <1>4 DEF PeerReceives, FromPeer
  <2> HIDE DEF q
  <2>5. PacketsOK'
    BY <2>3, <2>4 DEF PacketsOK, Accepts
  <2>6. got' \in Nat /\ peer' = "ESTAB" /\ UNCHANGED tcpVars
    BY <1>4, <2>2 DEF PeerReceives
  <2> QED BY <2>1, <2>5, <2>6 DEF tcpVars
<1>5. ASSUME NEW p \in toUs \cup toPeer, Lose(p) PROVE TypeInv'
  <2>1. PacketsOK'
    BY <1>5 DEF Lose, PacketsOK, Accepts
  <2> QED BY <1>5, <2>1 DEF Lose, tcpVars
<1> QED BY <1>1, <1>2, <1>3, <1>4, <1>5

LEMMA NextType ==
  ASSUME TypeInv, [Next]_vars
  PROVE  TypeInv'
<1>1. CASE UNCHANGED vars
  BY <1>1 DEF vars, tcpVars, peerVars, TypeInv, TypeOK, PacketsOK, Accepts
<1> QED
  BY <1>1, ConnectType, SendsType, ExtractsType, ReceivesType, PeerType DEF Next

\* Whatever the network does, the client's numbers are sequence numbers, it
\* never holds more than MAX_RX_BUFFER_SIZE bytes, and the peer never
\* believes an acknowledgment of something it has not sent.
THEOREM TypeCorrect == Spec => []TypeOK
<1>1. TypeInv => TypeOK
  BY DEF TypeInv
<1> QED BY <1>1, InitType, NextType, PTL DEF Spec

-----------------------------------------------------------------------------
(* The stream.                                                             *)

\* What the client may find under way to it: packets the filters stop, the
\* peer's answer to the SYN, bytes of the stream the peer has sent and that
\* fit its window, its FIN, and acknowledgments without data.
IsSegment(p, i, j) ==
  /\ p.flags = {"ACK"} /\ p.seq = SeqOf(i)
  /\ j <= hi /\ j - i + 1 <= Window
  /\ p.data = [k \in 1..(j - i + 1) |-> i + k - 1]
FromPeerOK(p) ==
  \/ p.path # "ok"
  \/ p.flags = {"SYN", "ACK"} /\ p.seq = IRS /\ p.data = <<>>
  \/ p.flags = {"FIN", "ACK"} /\ p.data = <<>> /\ hi = Total + 1
  \/ p.flags = {"ACK"} /\ p.data = <<>>
  \/ \E i, j \in 1..Total : i <= j /\ IsSegment(p, i, j)

StreamInv ==
  /\ \A p \in toUs : FromPeerOK(p)
  /\ StreamIntact
  /\ Len(Received) <= hi /\ Len(Received) <= Total
  /\ state_ \in {"CLOSED", "SYN_SENT"} => Received = <<>>
  /\ state_ = "ESTABLISHED" => rcv_nxt = SeqOf(Len(Received) + 1)

\* An acknowledgment under way stands for a byte the client has, or for the
\* peer's FIN, which the client counts once or twice.
AckOK(p) ==
  \E n \in 0..(Total + 2) : p.ack = SeqOf(n + 1) /\ (n <= Total => n <= Len(Received))

AckInv ==
  /\ NoFalseAck
  /\ hi = Total + 1 => Len(Received) = Total
  /\ state_ = "FIN_WAIT_2" => rcv_nxt = SeqOf(Total + 2)
  /\ \A p \in toPeer : "ACK" \in p.flags => AckOK(p)

\* The whole stream, its SYN and its FIN have sequence numbers of their own.
NoWrapAround == Total + 3 <= SeqMod
\* The peer's window fits the client's buffer.
WindowFits == Window <= MaxRx

LEMMA SeqOfInjective ==
  ASSUME NoWrapAround, NEW i \in 1..(Total + 3), NEW j \in 1..(Total + 3), SeqOf(i) = SeqOf(j)
  PROVE  i = j
<1>1. i \in Nat /\ j \in Nat /\ i - j < SeqMod /\ j - i < SeqMod /\ IRS \in Nat
  BY TcpConnectionAssumption, MicroTcpAssumption DEF NoWrapAround
<1> QED BY <1>1, PlusInjective DEF SeqOf

LEMMA SeqOfPlus ==
  ASSUME NEW i \in Nat, NEW n \in Nat
  PROVE  Plus(SeqOf(i), n) = SeqOf(i + n)
BY PlusPlus, TcpConnectionAssumption, MicroTcpAssumption DEF SeqOf

\* The next bytes make a longer beginning of the stream.
LEMMA Extend ==
  ASSUME NEW s \in Seq(Nat), s = [k \in 1..Len(s) |-> k],
         NEW i \in Nat, NEW j \in Nat, i = Len(s) + 1, i <= j
  PROVE  LET d == [k \in 1..(j - i + 1) |-> i + k - 1]
         IN  /\ Len(s \o d) = j
             /\ s \o d = [k \in 1..Len(s \o d) |-> k]
<1> DEFINE d == [k \in 1..(j - i + 1) |-> i + k - 1]
<1>1. d \in Seq(Nat) /\ Len(d) = j - i + 1
  OBVIOUS
<1>2. Len(s \o d) = j /\ s \o d \in Seq(Nat)
  BY <1>1
<1>3. ASSUME NEW k \in 1..j PROVE (s \o d)[k] = k
  <2>1. CASE k <= Len(s)
    <3>1. (s \o d)[k] = s[k]
      BY <1>1, <2>1
    <3> QED BY <2>1, <3>1
  <2>2. CASE k > Len(s)
    <3>1. (s \o d)[k] = d[k - Len(s)]
      BY <1>1, <1>2, <2>2
    <3>2. k - Len(s) \in 1..(j - i + 1)
      BY <2>2
    <3>3. d[k - Len(s)] = i + (k - Len(s)) - 1
      BY <3>2
    <3> QED BY <3>1, <3>3
  <2> QED BY <2>1, <2>2
<1> HIDE DEF d
<1>4. s \o d = [k \in 1..j |-> (s \o d)[k]]
  <2> DEFINE e == s \o d
  <2>1. e \in [1..j -> Nat]
    BY <1>2, LenProperties
  <2> HIDE DEF e
  <2>2. e = [k \in 1..j |-> e[k]]
    BY <2>1
  <2> QED BY <2>2 DEF e
<1>5. s \o d = [k \in 1..j |-> k]
  BY <1>3, <1>4
<1> QED BY <1>2, <1>5 DEF d

LEMMA ReceivedType ==
  ASSUME TypeInv
  PROVE  /\ Received \in Seq(Nat) /\ Len(Received) \in Nat
         /\ rx_buffer = <<>> => Received = taken
BY DEF TypeInv, Received

LEMMA InitStream == Init => StreamInv
<1> SUFFICES ASSUME Init PROVE StreamInv
  OBVIOUS
<1>1. Received = <<>>
  BY DEF Init, TcpInit, Received
<1>2. StreamIntact /\ Len(Received) = 0
  BY <1>1 DEF StreamIntact
<1>3. \A p \in toUs : FromPeerOK(p)
  BY TcpConnectionAssumption DEF Init, FromPeerOK
<1> QED BY <1>1, <1>2, <1>3, TcpConnectionAssumption DEF StreamInv, Init, TcpInit

\* What the peer has sent remains what it may have sent.
LEMMA PacketStaysOK ==
  ASSUME hi \in 0..(Total + 1), hi' \in 0..(Total + 1), hi' >= hi, NEW p, FromPeerOK(p)
  PROVE  FromPeerOK(p)'
<1> USE TcpConnectionAssumption
<1>1. CASE p.flags = {"FIN", "ACK"} /\ p.data = <<>> /\ hi = Total + 1
  BY <1>1 DEF FromPeerOK
<1>2. ASSUME NEW i \in 1..Total, NEW j \in 1..Total, i <= j, IsSegment(p, i, j)
      PROVE  IsSegment(p, i, j)'
  BY <1>2 DEF IsSegment
<1> QED BY <1>1, <1>2 DEF FromPeerOK

\* A step by which the client receives no data.
LEMMA StreamFrame ==
  ASSUME TypeInv, TypeInv', StreamInv,
         UNCHANGED Received,
         state_' \in {"CLOSED", "SYN_SENT"} => state_ \in {"CLOSED", "SYN_SENT"},
         state_' = "ESTABLISHED" => UNCHANGED <<state_, rcv_nxt>>,
         hi' >= hi, \A p \in toUs' : p \in toUs \/ FromPeerOK(p)'
  PROVE  StreamInv'
<1> USE TcpConnectionAssumption
<1>0. hi \in 0..(Total + 1) /\ hi' \in 0..(Total + 1) /\ Len(Received) \in Nat
  BY ReceivedType DEF TypeInv, TypeOK
<1>1. StreamIntact'
  BY DEF StreamInv, StreamIntact
<1>2. ASSUME NEW p \in toUs PROVE FromPeerOK(p)'
  BY <1>0, <1>2, PacketStaysOK DEF StreamInv
<1> QED BY <1>0, <1>1, <1>2 DEF StreamInv

LEMMA ClientStream ==
  ASSUME TypeInv, TypeInv', StreamInv, ClientConnects \/ ClientSends \/ ClientExtracts
  PROVE  StreamInv'
<1>1. UNCHANGED <<hi, toUs, rcv_nxt>>
  BY DEF ClientConnects, ClientSends, ClientExtracts, Connect, SendData, ExtractRxData, peerVars
<1>2. hi \in Int
  BY TcpConnectionAssumption DEF TypeInv, TypeOK
<1>3. UNCHANGED Received
  <2>1. CASE UNCHANGED <<rx_buffer, taken>>
    BY <2>1 DEF Received
  <2>2. CASE ClientExtracts
    <3>1. taken \o rx_buffer \in Seq(Nat) /\ (taken \o rx_buffer) \o <<>> = taken \o rx_buffer
      BY DEF TypeInv
    <3> QED BY <2>2, <3>1 DEF ClientExtracts, ExtractRxData, Received
  <2> QED BY <2>1, <2>2 DEF ClientConnects, ClientSends, Connect, SendData
<1>4. CASE ClientConnects
  BY <1>1, <1>2, <1>3, <1>4, StreamFrame DEF ClientConnects, Connect
<1>5. CASE UNCHANGED state_
  BY <1>1, <1>2, <1>3, <1>5, StreamFrame
<1> QED
  BY <1>4, <1>5 DEF ClientSends, ClientExtracts, SendData, ExtractRxData

LEMMA ReceivesStream ==
  ASSUME TypeInv, TypeInv', StreamInv, NoWrapAround, WindowFits,
         NEW p \in toUs, ClientReceives(p)
  PROVE  StreamInv'
<1> USE TcpConnectionAssumption
<1>0. UNCHANGED <<hi, acked, peer>> /\ toUs' = toUs \ {p} /\ rx_buffer = <<>>
      /\ hi \in Int /\ hi \in 0..(Total + 1)
  BY DEF ClientReceives, ProcessRx, peerVars, TypeInv, TypeOK
<1>5. \A q \in toUs' : FromPeerOK(q)'
  BY <1>0, PacketStaysOK DEF StreamInv
<1>1. CASE UNCHANGED tcpVars
  BY <1>0, <1>1, StreamFrame DEF tcpVars, Received
<1>2. CASE Accepts(p) /\ RxFinWait2(p)
  BY <1>0, <1>2, StreamFrame DEF RxFinWait2, Received
<1>3. CASE Accepts(p) /\ RxSynSent(p)
  <2>1. p.seq = IRS
    <3>1. FromPeerOK(p) /\ p.path = "ok" /\ "SYN" \in p.flags
      BY <1>3 DEF StreamInv, Accepts, RxSynSent, SynAckOk
    <3>2. \A i, j \in 1..Total : IsSegment(p, i, j) => p.flags = {"ACK"}
      BY DEF IsSegment
    <3>3. p.flags # {"ACK"} /\ p.flags # {"FIN", "ACK"}
      BY <3>1
    <3> QED BY <3>1, <3>2, <3>3, Zenon DEF FromPeerOK
  <2>2. Received = <<>> /\ UNCHANGED Received
    BY <1>3 DEF StreamInv, RxSynSent, Received
  <2>3. rcv_nxt' = SeqOf(Len(Received') + 1)
    BY <1>3, <2>1, <2>2 DEF RxSynSent, SeqOf
  <2> QED BY <1>0, <1>3, <1>5, <2>2, <2>3 DEF StreamInv, StreamIntact, RxSynSent
<1>4. CASE Accepts(p) /\ RxEstablished(p)
  <2>1. CASE p.data = <<>>
    <3>1. UNCHANGED Received
      BY <1>4, <2>1 DEF RxEstablished, Received
    <3>2. CASE "FIN" \in p.flags
      BY <1>0, <1>4, <3>1, <3>2, StreamFrame DEF RxEstablished
    <3>3. CASE "FIN" \notin p.flags
      BY <1>0, <1>4, <2>1, <3>1, <3>3, StreamFrame DEF RxEstablished
    <3> QED BY <3>2, <3>3
  <2>2. ASSUME NEW i \in 1..Total, NEW j \in 1..Total, i <= j, IsSegment(p, i, j)
        PROVE  StreamInv'
    <3>1. /\ p.flags = {"ACK"} /\ p.seq = SeqOf(i) /\ j <= hi
          /\ p.data = [k \in 1..(j - i + 1) |-> i + k - 1]
          /\ j - i + 1 <= MaxRx
      BY <2>2, MicroTcpAssumption DEF IsSegment, WindowFits
    <3>2. Len(p.data) = j - i + 1 /\ p.data \in Seq(Nat) /\ Len(p.data) > 0
      BY <2>2, <3>1
    <3>3. UNCHANGED state_
      BY <1>4, <3>1 DEF RxEstablished
    <3>4. CASE p.seq # rcv_nxt
      <4>1. UNCHANGED <<rx_buffer, rcv_nxt, taken>>
        BY <1>4, <3>1, <3>4 DEF RxEstablished
      <4> QED BY <1>0, <3>3, <4>1, StreamFrame DEF Received
    <3>5. CASE p.seq = rcv_nxt
      <4>1. /\ Received \in Seq(Nat) /\ Len(Received) \in 0..Total
            /\ Received = taken /\ rcv_nxt = SeqOf(Len(Received) + 1)
            /\ Received = [k \in 1..Len(Received) |-> k]
        BY <1>0, <1>4, ReceivedType DEF StreamInv, StreamIntact, RxEstablished
      <4>2. i = Len(Received) + 1
        <5>1. SeqOf(i) = SeqOf(Len(Received) + 1)
          BY <3>1, <3>5, <4>1
        <5>2. i \in 1..(Total + 3) /\ Len(Received) + 1 \in 1..(Total + 3)
          BY <4>1
        <5> QED BY <5>1, <5>2, SeqOfInjective
      <4>3. rx_buffer' = p.data /\ rcv_nxt' = Plus(rcv_nxt, Len(p.data)) /\ taken' = taken
        <5>1. Len(rx_buffer) + Len(p.data) <= MaxRx /\ rx_buffer \o p.data = p.data
          <6>1. Len(rx_buffer) = 0 /\ rx_buffer \o p.data = p.data
            BY <1>0, <3>2
          <6>2. Len(p.data) <= MaxRx /\ Len(p.data) \in Nat
            BY <2>2, <3>1, <3>2
          <6> QED BY <6>1, <6>2
        <5> QED BY <1>4, <3>1, <3>2, <3>5, <5>1 DEF RxEstablished
      <4>4. Received' = Received \o p.data
        BY <4>1, <4>3 DEF Received
      <4>5. Len(Received') = j /\ Received' = [k \in 1..Len(Received') |-> k]
        BY <2>2, <3>1, <4>1, <4>2, <4>4, Extend
      <4>6. rcv_nxt' = SeqOf(j + 1)
        <5>1. rcv_nxt' = Plus(SeqOf(i), j - i + 1)
          BY <3>1, <3>2, <3>5, <4>3
        <5>2. i \in Nat /\ j - i + 1 \in Nat /\ i + (j - i + 1) = j + 1
          BY <2>2
        <5> QED BY <5>1, <5>2, SeqOfPlus
      <4>7. StreamIntact' /\ Len(Received') <= hi' /\ Len(Received') <= Total
        BY <1>0, <3>1, <4>5 DEF StreamIntact
      <4>8. state_' = "ESTABLISHED" /\ rcv_nxt' = SeqOf(Len(Received') + 1)
        BY <1>4, <3>3, <4>5, <4>6 DEF RxEstablished
      <4> QED BY <1>5, <4>7, <4>8 DEF StreamInv
    <3> QED BY <3>4, <3>5
  <2> QED BY <1>4, <2>1, <2>2 DEF StreamInv, FromPeerOK, Accepts
<1> QED
  BY <1>1, <1>2, <1>3, <1>4 DEF ClientReceives, ProcessRx, RxIgnored

LEMMA PeerStream ==
  ASSUME TypeInv, TypeInv', StreamInv,
         \/ PeerSyn \/ PeerSendsFin
         \/ \E i, j \in 1..Total : PeerSends(i, j)
         \/ \E p \in toPeer : PeerReceives(p)
         \/ \E p \in toUs \cup toPeer : Lose(p)
  PROVE  StreamInv'
<1> USE TcpConnectionAssumption
<1>0. /\ UNCHANGED <<state_, rcv_nxt, Received>>
      /\ hi \in 0..(Total + 1) /\ hi' \in 0..(Total + 1) /\ acked \in 0..hi
  BY DEF PeerSyn, PeerSendsFin, PeerSends, PeerReceives, Lose, tcpVars, Received, TypeInv, TypeOK
<1>1. CASE PeerSyn
  <2>1. FromPeerOK(SynAck)'
    BY DEF FromPeerOK, SynAck, Packet
  <2> QED BY <1>0, <1>1, <2>1, StreamFrame DEF PeerSyn, FromPeer
<1>2. CASE PeerSendsFin
  <2>1. hi' = Total + 1 /\ toUs' = toUs \cup {Fin}
    BY <1>2 DEF PeerSendsFin, FromPeer
  <2> DEFINE q == Fin
  <2>2. q.flags = {"FIN", "ACK"} /\ q.data = <<>>
    BY DEF Fin, Packet
  <2> HIDE DEF q
  <2>3. \A r \in toUs' : r \in toUs \/ FromPeerOK(r)'
    BY <2>1, <2>2 DEF FromPeerOK, q
  <2> QED BY <1>0, <2>1, <2>3, StreamFrame
<1>3. ASSUME NEW i \in 1..Total, NEW j \in 1..Total, PeerSends(i, j) PROVE StreamInv'
  <2> DEFINE q == Segment(i, j)
  <2>1. /\ i <= j /\ j <= hi' /\ hi' >= hi /\ j - i + 1 <= Window
        /\ toUs' = toUs \cup {q}
    BY <1>0, <1>3 DEF PeerSends, FromPeer
  <2>2. /\ q.flags = {"ACK"} /\ q.seq = SeqOf(i)
        /\ q.data = [k \in 1..(j - i + 1) |-> i + k - 1]
    BY DEF Segment, Packet
  <2> HIDE DEF q
  <2>3. \A r \in toUs' : r \in toUs \/ FromPeerOK(r)'
    BY <2>1, <2>2 DEF FromPeerOK, IsSegment
  <2> QED BY <1>0, <2>1, <2>3, StreamFrame
<1>4. ASSUME NEW p \in toPeer, PeerReceives(p) PROVE StreamInv'
  <2> DEFINE q == Packet({"ACK"}, SeqOf(hi + 1), Plus(AckOf, Len(p.data)), <<>>)
  <2>1. toUs' \subseteq toUs \cup {q} /\ UNCHANGED hi
    BY <1>4 DEF PeerReceives, FromPeer
  <2>2. q.flags = {"ACK"} /\ q.data = <<>>
    BY DEF Packet
  <2> HIDE DEF q
  <2>3. \A r \in toUs' : r \in toUs \/ FromPeerOK(r)'
    BY <2>1, <2>2 DEF FromPeerOK
  <2> QED BY <1>0, <2>1, <2>3, StreamFrame
<1>5. ASSUME NEW p \in toUs \cup toPeer, Lose(p) PROVE StreamInv'
  BY <1>0, <1>5, StreamFrame DEF Lose
<1> QED BY <1>1, <1>2, <1>3, <1>4, <1>5

LEMMA NextStream ==
  ASSUME NoWrapAround, WindowFits, TypeInv, StreamInv, [Next]_vars
  PROVE  StreamInv'
<1>0. TypeInv'
  BY NextType
<1>1. CASE UNCHANGED vars
  <2>1. UNCHANGED <<Received, state_, rcv_nxt, hi, toUs>> /\ hi \in Int
    BY <1>1, TcpConnectionAssumption DEF vars, tcpVars, peerVars, Received, TypeInv, TypeOK
  <2> QED BY <1>0, <2>1, StreamFrame
<1> QED
  BY <1>0, <1>1, ClientStream, ReceivesStream, PeerStream DEF Next

\* However the network loses and reorders packets and the peer cuts and
\* repeats its bytes, what process_rx() stores and extract_rx_data() hands
\* out is the beginning of the peer's stream, when the peer's window fits
\* MAX_RX_BUFFER_SIZE and the stream does not use a sequence number twice.
THEOREM StreamCorrect ==
  ASSUME NoWrapAround, WindowFits
  PROVE  Spec => []StreamIntact
<1> DEFINE I == TypeInv /\ StreamInv
<1>1. Init => I
  BY InitType, InitStream
<1>2. I /\ [Next]_vars => I'
  BY NextType, NextStream
<1>3. I => StreamIntact
  BY DEF StreamInv
<1> QED BY <1>1, <1>2, <1>3, PTL DEF Spec

-----------------------------------------------------------------------------
(* Acknowledgments, of a peer that sends its FIN when its data was         *)
(* acknowledged.                                                           *)

LEMMA InitAck == Init => AckInv
<1> SUFFICES ASSUME Init PROVE AckInv
  OBVIOUS
<1>1. Received = <<>> /\ Len(Received) = 0
  BY DEF Init, TcpInit, Received
<1> QED BY <1>1, TcpConnectionAssumption DEF AckInv, NoFalseAck, Init, TcpInit

\* The client only ever receives more.
LEMMA ReceivedGrows ==
  ASSUME TypeInv, TypeInv', StreamInv, [Next]_vars
  PROVE  Len(Received') >= Len(Received)
<1> USE DEF Received
<1>1. CASE UNCHANGED <<rx_buffer, taken>>
  BY <1>1 DEF TypeInv
<1>2. CASE ClientExtracts
  <2>1. taken \o rx_buffer \in Seq(Nat) /\ (taken \o rx_buffer) \o <<>> = taken \o rx_buffer
    BY DEF TypeInv
  <2> QED BY <1>2, <2>1 DEF ClientExtracts, ExtractRxData
<1>3. ASSUME NEW p \in toUs, ClientReceives(p), Accepts(p), RxEstablished(p)
      PROVE  Len(Received') >= Len(Received)
  <2>1. rx_buffer = <<>> /\ taken' = taken /\ taken \in Seq(Nat) /\ rx_buffer' \in Seq(Nat)
    BY <1>3 DEF ClientReceives, RxEstablished, TypeInv
  <2>2. Len(taken \o rx_buffer') = Len(taken) + Len(rx_buffer') /\ Len(rx_buffer') \in Nat
    BY <2>1
  <2>3. Len(taken \o rx_buffer) = Len(taken)
    BY <2>1
  <2> QED BY <2>1, <2>2, <2>3
<1>4. ASSUME NEW p \in toUs, ClientReceives(p)
      PROVE  UNCHANGED <<rx_buffer, taken>> \/ (Accepts(p) /\ RxEstablished(p))
  BY <1>4 DEF ClientReceives, ProcessRx, RxSynSent, RxFinWait2, RxIgnored, tcpVars
<1>5. CASE Next
  <2>1. \/ UNCHANGED <<rx_buffer, taken>> \/ ClientExtracts
        \/ \E p \in toUs : ClientReceives(p)
    BY <1>5 DEF Next, ClientConnects, ClientSends, Connect, SendData, tcpVars,
       PeerSyn, PeerSendsFin, PeerSends, PeerReceives, Lose
  <2> QED BY <1>1, <1>2, <1>3, <1>4, <2>1
<1> QED BY <1>1, <1>5 DEF vars, tcpVars

\* A step after which the peer believes and has sent what it had before.
LEMMA AckFrame ==
  ASSUME TypeInv, TypeInv', StreamInv', AckInv, Len(Received') >= Len(Received),
         UNCHANGED <<acked, hi>>,
         state_' = "FIN_WAIT_2" => rcv_nxt' = SeqOf(Total + 2),
         \A p \in toPeer' : p \in toPeer \/ "ACK" \notin p.flags \/ AckOK(p)'
  PROVE  AckInv'
<1> USE TcpConnectionAssumption
<1>1. Len(Received) \in Nat /\ Len(Received') \in Nat /\ Len(Received') <= Total /\ acked \in Int
  BY ReceivedType DEF TypeInv, TypeOK, StreamInv, Received
<1>2. NoFalseAck' /\ (hi' = Total + 1 => Len(Received') = Total)
  BY <1>1 DEF AckInv, NoFalseAck
<1>3. ASSUME NEW p \in toPeer, "ACK" \in p.flags PROVE AckOK(p)'
  <2>1. PICK n \in 0..(Total + 2) : p.ack = SeqOf(n + 1) /\ (n <= Total => n <= Len(Received))
    BY <1>3 DEF AckInv, AckOK
  <2>2. n <= Total => n <= Len(Received')
    BY <1>1, <2>1
  <2> QED BY <2>1, <2>2 DEF AckOK
<1> QED BY <1>2, <1>3 DEF AckInv

LEMMA ClientAck ==
  ASSUME TypeInv, TypeInv', StreamInv, StreamInv', AckInv, Len(Received') >= Len(Received),
         ClientConnects \/ ClientSends \/ ClientExtracts
  PROVE  AckInv'
<1> USE TcpConnectionAssumption
<1>1. UNCHANGED <<acked, hi, rcv_nxt>> /\ (state_' # "FIN_WAIT_2" \/ UNCHANGED state_)
  BY DEF ClientConnects, ClientSends, ClientExtracts, Connect, SendData, ExtractRxData, peerVars
<1>2. state_' = "FIN_WAIT_2" => rcv_nxt' = SeqOf(Total + 2)
  BY <1>1 DEF AckInv
<1>3. CASE ClientConnects
  <2>1. toPeer' \subseteq toPeer \cup {SynPacket} /\ "ACK" \notin SynPacket.flags
    BY <1>3 DEF ClientConnects, Connect, Transmit, SynPacket, Packet
  <2> QED BY <1>1, <1>2, <2>1, AckFrame
<1>4. CASE ClientSends
  <2> DEFINE q == Packet({"PSH", "ACK"}, snd_nxt, rcv_nxt, <<0>>)
  <2>1. toPeer' \subseteq toPeer \cup {q} /\ q.ack = rcv_nxt
    BY <1>4 DEF ClientSends, SendData, Transmit, Packet
  <2>2. rcv_nxt = SeqOf(Len(Received') + 1) /\ Len(Received') \in 0..Total
    BY <1>1, <1>4, ReceivedType DEF ClientSends, SendData, StreamInv, TypeInv, Received
  <2> HIDE DEF q
  <2>3. \A p \in toPeer' : p \in toPeer \/ AckOK(p)'
    BY <2>1, <2>2 DEF AckOK
  <2> QED BY <1>1, <1>2, <2>3, AckFrame
<1>5. CASE ClientExtracts
  <2>1. UNCHANGED toPeer
    BY <1>5 DEF ClientExtracts, ExtractRxData
  <2> QED BY <1>1, <1>2, <2>1, AckFrame
<1> QED BY <1>3, <1>4, <1>5

LEMMA ReceivesAck ==
  ASSUME TypeInv, TypeInv', StreamInv, StreamInv', AckInv, Len(Received') >= Len(Received),
         NEW p \in toUs, ClientReceives(p)
  PROVE  AckInv'
<1> USE TcpConnectionAssumption
<1>0. UNCHANGED <<hi, acked>> /\ Len(Received) \in Nat /\ Len(Received') \in 0..Total
  BY ReceivedType DEF ClientReceives, peerVars, StreamInv, TypeInv, Received
<1> DEFINE q == AckPacket(rcv_nxt')
<1>1. q.ack = rcv_nxt'
  BY DEF AckPacket, Packet
<1> HIDE DEF q
<1>2. CASE UNCHANGED <<tcpVars, toPeer>>
  BY <1>0, <1>2, AckFrame DEF AckInv, tcpVars
<1>3. CASE state_' = "ESTABLISHED" /\ toPeer' \subseteq toPeer \cup {q}
  <2>1. rcv_nxt' = SeqOf(Len(Received') + 1)
    BY <1>3 DEF StreamInv
  <2>2. \A r \in toPeer' : r \in toPeer \/ AckOK(r)'
    BY <1>0, <1>1, <1>3, <2>1 DEF AckOK
  <2> QED BY <1>0, <1>3, <2>2, AckFrame
<1>4. CASE RxSynSent(p)
  BY <1>3, <1>4 DEF RxSynSent, Transmit, q
<1>5. CASE RxFinWait2(p)
  <2>1. rcv_nxt' = SeqOf(Total + 3)
    BY <1>5, SeqOfPlus DEF RxFinWait2, AckInv
  <2>2. toPeer' \subseteq toPeer \cup {q} /\ state_' = "TIME_WAIT"
    BY <1>5 DEF RxFinWait2, Transmit, q
  <2>3. \A r \in toPeer' : r \in toPeer \/ AckOK(r)'
    <3>1. Total + 2 \in 0..(Total + 2) /\ ~(Total + 2 <= Total) /\ (Total + 2) + 1 = Total + 3
      OBVIOUS
    <3> QED BY <1>1, <2>1, <2>2, <3>1 DEF AckOK
  <2> QED BY <1>0, <2>2, <2>3, AckFrame
<1>6. CASE Accepts(p) /\ RxEstablished(p)
  <2>1. CASE "FIN" \notin p.flags
    <3>1. state_' = "ESTABLISHED"
      BY <1>6, <2>1 DEF RxEstablished
    <3>2. toPeer' \subseteq toPeer \cup {q}
      BY <1>6, <2>1 DEF RxEstablished, Transmit, q
    <3> QED BY <1>3, <3>1, <3>2
  <2>2. CASE "FIN" \in p.flags
    <3>1. p.data = <<>> /\ hi = Total + 1
      <4>1. FromPeerOK(p) /\ p.path = "ok"
        BY <1>6 DEF StreamInv, Accepts
      <4>2. \A i, j \in 1..Total : IsSegment(p, i, j) => p.flags = {"ACK"}
        BY DEF IsSegment
      <4>3. p.flags # {"ACK"} /\ p.flags # {"SYN", "ACK"}
        BY <2>2
      <4> QED BY <4>1, <4>2, <4>3, Zenon DEF FromPeerOK
    <3>2. rcv_nxt = SeqOf(Total + 1)
      BY <1>6, <3>1 DEF StreamInv, AckInv, RxEstablished
    <3>3. rcv_nxt' = Plus(rcv_nxt, 1) /\ state_' = "FIN_WAIT_2"
      BY <1>6, <2>2, <3>1 DEF RxEstablished
    <3>4. rcv_nxt' = SeqOf(Total + 2)
      BY <3>2, <3>3, SeqOfPlus
    <3>5. toPeer' \subseteq toPeer \cup {q}
      BY <1>6, <2>2, <3>1 DEF RxEstablished, Transmit, q
    <3>6. \A r \in toPeer' : r \in toPeer \/ AckOK(r)'
      <4>1. Total + 1 \in 0..(Total + 2) /\ ~(Total + 1 <= Total) /\ (Total + 1) + 1 = Total + 2
        OBVIOUS
      <4> QED BY <1>1, <3>4, <3>5, <4>1 DEF AckOK
    <3> QED BY <1>0, <3>4, <3>6, AckFrame
  <2> QED BY <2>1, <2>2
<1> QED
  BY <1>2, <1>4, <1>5, <1>6 DEF ClientReceives, ProcessRx, RxIgnored

LEMMA PeerAck ==
  ASSUME PeerFins # "sent", NoWrapAround,
         TypeInv, TypeInv', StreamInv, StreamInv', AckInv,
         \/ PeerSyn \/ PeerSendsFin
         \/ \E i, j \in 1..Total : PeerSends(i, j)
         \/ \E p \in toPeer : PeerReceives(p)
         \/ \E p \in toUs \cup toPeer : Lose(p)
  PROVE  AckInv'
<1> USE TcpConnectionAssumption
<1>0. /\ UNCHANGED <<state_, rcv_nxt, Received>>
      /\ hi \in 0..(Total + 1) /\ hi' \in 0..(Total + 1) /\ acked \in 0..hi
      /\ Len(Received) \in 0..Total
  <2>1. UNCHANGED tcpVars
    BY DEF PeerSyn, PeerSendsFin, PeerSends, PeerReceives, Lose
  <2>2. hi \in 0..(Total + 1) /\ hi' \in 0..(Total + 1) /\ acked \in 0..hi
    BY DEF TypeInv, TypeOK
  <2>3. Len(Received) \in 0..Total
    BY ReceivedType DEF StreamInv
  <2> QED BY <2>1, <2>2, <2>3 DEF tcpVars, Received
<1>1. state_' = "FIN_WAIT_2" => rcv_nxt' = SeqOf(Total + 2)
  BY <1>0 DEF AckInv
<1>2. \A p \in toPeer' : p \in toPeer
  BY DEF PeerSyn, PeerSendsFin, PeerSends, PeerReceives, Lose
<1>3. \A p \in toPeer' : "ACK" \in p.flags => AckOK(p)'
  BY <1>0, <1>2 DEF AckInv, AckOK
<1>4. CASE UNCHANGED <<hi, acked>>
  BY <1>0, <1>1, <1>2, <1>4, AckFrame
<1>5. CASE PeerSendsFin
  <2>1. acked = Total /\ UNCHANGED acked
    BY <1>5 DEF PeerSendsFin
  <2>2. Len(Received') = Total
    BY <1>0, <2>1 DEF AckInv, NoFalseAck
  <2> QED BY <1>0, <1>1, <1>3, <2>1, <2>2 DEF AckInv, NoFalseAck
<1>6. ASSUME NEW i \in 1..Total, NEW j \in 1..Total, PeerSends(i, j) PROVE AckInv'
  <2>1. (hi' = Total + 1 => hi = Total + 1) /\ UNCHANGED acked
    BY <1>0, <1>6 DEF PeerSends
  <2> QED BY <1>0, <1>1, <1>3, <2>1 DEF AckInv, NoFalseAck
<1>7. ASSUME NEW p \in toPeer, PeerReceives(p) PROVE AckInv'
  <2> DEFINE K == {k \in acked..hi : SeqOf(k + 1) = p.ack}
  <2>1. acked' = (IF K = {} THEN acked ELSE CHOOSE k \in K : TRUE) /\ UNCHANGED hi /\ "ACK" \in p.flags
    BY <1>7 DEF PeerReceives
  <2>2. acked' = acked \/ acked' \in K
    <3> HIDE DEF K
    <3> QED BY <2>1
  <2>3. CASE acked' = acked
    BY <1>4, <2>1, <2>3
  <2>4. CASE acked' \in K
    <3>1. PICK n \in 0..(Total + 2) : p.ack = SeqOf(n + 1) /\ (n <= Total => n <= Len(Received))
      BY <2>1 DEF AckInv, AckOK
    <3>2. acked' \in 0..(Total + 1) /\ SeqOf(acked' + 1) = SeqOf(n + 1)
      BY <1>0, <2>4, <3>1
    <3> DEFINE a == acked'
    <3>3. a + 1 \in 1..(Total + 3) /\ n + 1 \in 1..(Total + 3) /\ SeqOf(a + 1) = SeqOf(n + 1)
      <4> HIDE DEF a
      <4>1. a \in 0..(Total + 1) /\ SeqOf(a + 1) = SeqOf(n + 1)
        BY <3>2 DEF a
      <4> QED BY <4>1
    <3>4. acked' = n
      <4> HIDE DEF a
      <4>1. a + 1 = n + 1
        BY <3>3, SeqOfInjective
      <4>2. a \in Int
        BY <3>2 DEF a
      <4>3. a = n
        BY <4>1, <4>2
      <4> QED BY <4>3 DEF a
    <3>5. NoFalseAck'
      BY <1>0, <3>1, <3>4 DEF NoFalseAck
    <3> QED BY <1>0, <1>1, <1>3, <2>1, <3>5 DEF AckInv
  <2> QED BY <2>2, <2>3, <2>4
<1> QED BY <1>4, <1>5, <1>6, <1>7 DEF PeerSyn, Lose

LEMMA NextAck ==
  ASSUME PeerFins # "sent", NoWrapAround, WindowFits,
         TypeInv, StreamInv, AckInv, [Next]_vars
  PROVE  AckInv'
<1>0. TypeInv' /\ StreamInv'
  BY NextType, NextStream
<1>1. Len(Received') >= Len(Received)
  BY <1>0, ReceivedGrows
<1>2. CASE UNCHANGED vars
  BY <1>0, <1>1, <1>2, AckFrame DEF vars, tcpVars, peerVars, AckInv
<1> QED
  BY <1>0, <1>1, <1>2, ClientAck, ReceivesAck, PeerAck DEF Next

\* A peer that sends its FIN only when its data was acknowledged never
\* takes a byte for received that the client has not stored, however old
\* the acknowledgments are that reach it (create_tcp_packet puts rcv_nxt_ in
\* each of them).
THEOREM AcksTruthful ==
  ASSUME PeerFins # "sent", NoWrapAround, WindowFits
  PROVE  Spec => []NoFalseAck
<1> DEFINE I == TypeInv /\ StreamInv /\ AckInv
<1>1. Init => I
  BY InitType, InitStream, InitAck
<1>2. I /\ [Next]_vars => I'
  BY NextType, NextStream, NextAck
<1>3. I => NoFalseAck
  BY DEF AckInv
<1> QED BY <1>1, <1>2, <1>3, PTL DEF Spec
-----------------------------------------------------------------------------
(* The reliable stream.                                                    *)

\* What a packet brings makes a longer beginning of the stream, or nothing.
LEMMA ReceivesOrNot ==
  ASSUME TypeInv, TypeInv', StreamInv, StreamInv', NEW p \in toUs, ClientReceives(p)
  PROVE  UNCHANGED <<Received, taken>> \/ (Reliable!SReceive /\ UNCHANGED taken)
<1> USE TcpConnectionAssumption
<1>1. UNCHANGED <<hi, acked, taken>>
  BY DEF ClientReceives, ProcessRx, peerVars, RxSynSent, RxEstablished, RxFinWait2,
     RxIgnored, tcpVars
<1>2. /\ Received = [i \in 1..Len(Received) |-> i] /\ Len(Received) \in 0..Total
      /\ Received' = [i \in 1..Len(Received') |-> i] /\ Len(Received') \in 0..Total
      /\ Len(Received') <= hi
  BY <1>1, ReceivedType DEF StreamInv, StreamIntact, TypeInv, Received
<1>3. Len(Received') >= Len(Received)
  BY ReceivedGrows DEF Next
<1>4. CASE Len(Received') = Len(Received)
  BY <1>1, <1>2, <1>4
<1>5. CASE Len(Received') > Len(Received)
  <2> DEFINE n == Len(Received')
  <2>1. n \in 1..Total /\ Len(Received) < n /\ n <= hi /\ Received' = [i \in 1..n |-> i]
    BY <1>2, <1>5
  <2> QED BY <1>1, <2>1 DEF Reliable!SReceive
<1>6. Len(Received) \in Int /\ Len(Received') \in Int
  BY <1>2
<1>7. Len(Received') = Len(Received) \/ Len(Received') > Len(Received)
  BY <1>3, <1>6
<1> QED BY <1>4, <1>5, <1>7

LEMMA StepReliable ==
  ASSUME PeerFins # "sent", NoWrapAround, WindowFits,
         TypeInv, StreamInv, AckInv, [Next]_vars
  PROVE  [Reliable!SNext]_(Reliable!svars)
<1> USE TcpConnectionAssumption DEF Reliable!svars, Reliable!SNext
<1>0. TypeInv' /\ StreamInv' /\ AckInv'
  BY NextType, NextStream, NextAck
<1>1. CASE UNCHANGED <<tcpVars, hi, acked>>
  BY <1>1 DEF tcpVars, Received
<1>2. CASE ClientConnects \/ ClientSends
  BY <1>2 DEF ClientConnects, ClientSends, Connect, SendData, peerVars, Received
<1>3. CASE ClientExtracts
  <2>1. taken \o rx_buffer \in Seq(Nat) /\ (taken \o rx_buffer) \o <<>> = taken \o rx_buffer
    BY DEF TypeInv
  <2>2. taken' = Received /\ UNCHANGED <<Received, hi, acked>>
    BY <1>3, <2>1 DEF ClientExtracts, ExtractRxData, Received, peerVars
  <2> QED BY <2>2 DEF Reliable!SHandOut
<1>4. ASSUME NEW p \in toUs, ClientReceives(p)
      PROVE  [Reliable!SNext]_(Reliable!svars)
  <2>1. UNCHANGED <<hi, acked>>
    BY <1>4 DEF ClientReceives, peerVars
  <2> QED BY <1>0, <1>4, <2>1, ReceivesOrNot
<1>5. CASE PeerSendsFin
  <2>1. hi \in {Total, Total + 1} /\ hi' = Total + 1 /\ UNCHANGED <<tcpVars, acked>>
    BY <1>5 DEF PeerSendsFin, TypeInv, TypeOK
  <2> QED BY <2>1 DEF Reliable!SFinish, tcpVars, Received
<1>6. ASSUME NEW i \in 1..Total, NEW j \in 1..Total, PeerSends(i, j)
      PROVE  [Reliable!SNext]_(Reliable!svars)
  <2>1. hi \in Int /\ (hi' = hi \/ hi' \in (hi + 1)..Total) /\ UNCHANGED <<tcpVars, acked>>
    BY <1>6 DEF PeerSends, TypeInv, TypeOK
  <2> QED BY <2>1 DEF Reliable!SSend, tcpVars, Received
<1>7. ASSUME NEW p \in toPeer, PeerReceives(p)
      PROVE  [Reliable!SNext]_(Reliable!svars)
  <2> DEFINE K == {k \in acked..hi : SeqOf(k + 1) = p.ack}
  <2>1. acked' = (IF K = {} THEN acked ELSE CHOOSE k \in K : TRUE) /\ UNCHANGED <<hi, tcpVars>>
    BY <1>7 DEF PeerReceives
  <2>2. acked' = acked \/ acked' \in K
    <3> HIDE DEF K
    <3> QED BY <2>1
  <2>3. acked \in 0..hi /\ hi \in 0..(Total + 1) /\ acked' \in acked..hi
    BY <2>2 DEF TypeInv, TypeOK
  <2>4. UNCHANGED <<Received, taken>> /\ Len(Received) \in 0..Total
    BY <2>1, ReceivedType DEF tcpVars, Received, StreamInv
  <2>5. acked' <= Len(Received) \/ (acked' = Total + 1 /\ Len(Received) = Total)
    BY <1>0, <2>1, <2>3, <2>4 DEF AckInv, NoFalseAck
  <2>6. acked' = acked \/ acked' \in (acked + 1)..hi
    BY <2>3
  <2> QED BY <2>1, <2>4, <2>5, <2>6 DEF Reliable!SAcknowledge
<1>8. CASE PeerSyn \/ \E p \in toUs \cup toPeer : Lose(p)
  BY <1>1, <1>8 DEF PeerSyn, Lose
<1> QED
  BY <1>1, <1>2, <1>3, <1>4, <1>5, <1>6, <1>7, <1>8 DEF Next, vars, peerVars

\* The client, the network and a peer that closes when its data was
\* acknowledged implement the reliable stream: process_rx() and
\* extract_rx_data() turn packets that are lost, delayed, repeated and cut
\* anew into bytes in order, for every stream shorter than the sequence space.
THEOREM TcpIsReliable ==
  ASSUME PeerFins # "sent", NoWrapAround, WindowFits
  PROVE  Spec => ReliablyDelivers
<1> DEFINE I == TypeInv /\ StreamInv /\ AckInv
<1>1. Init => I
  BY InitType, InitStream, InitAck
<1>2. I /\ [Next]_vars => I'
  BY NextType, NextStream, NextAck
<1>3. Init => Reliable!SInit
  BY DEF Init, TcpInit, Received, Reliable!SInit
<1>4. I /\ [Next]_vars => [Reliable!SNext]_(Reliable!svars)
  BY StepReliable
<1> QED BY <1>1, <1>2, <1>3, <1>4, PTL DEF Spec, ReliablyDelivers, Reliable!SSpec
=============================================================================
