--------------------------- MODULE MCTcpConnection ---------------------------
(* TcpConnection for TLC: packets of a stranger that look like the start of *)
(* the peer's stream, and one cut short.                                    *)
EXTENDS TcpConnection
MCStrays ==
  { [flags |-> {"ACK"}, seq |-> SeqOf(1), ack |-> 0, data |-> <<9>>, path |-> "other source"],
    [flags |-> {"FIN", "ACK"}, seq |-> SeqOf(1), ack |-> 0, data |-> <<>>, path |-> "malformed"] }
MCNoStrays == {}
=============================================================================
