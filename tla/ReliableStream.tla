--------------------------- MODULE ReliableStream ---------------------------
(***************************************************************************)
(* What a TCP connection promises to the two programs at its ends, for the *)
(* direction from the peer to the client: the bytes 1, 2, ..., Total are   *)
(* received and handed out in order, once, and stay so; and what the       *)
(* sender takes for received was received.                                 *)
(***************************************************************************)
EXTENDS Naturals, Sequences

CONSTANT Total   \* how many bytes the sender has; Total + 1 is the end

VARIABLES
  sent,      \* the last byte that was sent
  received,  \* the bytes received
  handed,    \* the bytes handed out to the program
  acked      \* the last byte the sender takes for received

svars == <<sent, received, handed, acked>>

SInit == sent = 0 /\ received = <<>> /\ handed = <<>> /\ acked = 0

SSend ==
  /\ sent' \in (sent + 1)..Total
  /\ UNCHANGED <<received, handed, acked>>

SFinish ==
  /\ sent = Total /\ sent' = Total + 1
  /\ UNCHANGED <<received, handed, acked>>

SReceive ==
  /\ \E n \in 1..Total :
       /\ Len(received) < n /\ n <= sent
       /\ received' = [i \in 1..n |-> i]
  /\ UNCHANGED <<sent, handed, acked>>

SHandOut ==
  /\ handed' = received
  /\ UNCHANGED <<sent, received, acked>>

\* The end is acknowledged when all bytes were received.
SAcknowledge ==
  /\ acked' \in (acked + 1)..sent
  /\ acked' <= Len(received) \/ (acked' = Total + 1 /\ Len(received) = Total)
  /\ UNCHANGED <<sent, received, handed>>

SNext == SSend \/ SFinish \/ SReceive \/ SHandOut \/ SAcknowledge
SSpec == SInit /\ [][SNext]_svars
=============================================================================
