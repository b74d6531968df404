--------------------------- MODULE WebSocketClient ---------------------------
(***************************************************************************)
(* The WebSocket client over the user-space TCP stack                      *)
(* (modules/network/websocket_client.cpp, tls_socket.cpp), with its three  *)
(* static variables, which all clients share.                              *)
(*                                                                         *)
(* TLS bytes are named by what they carry.  Encrypting puts bytes into     *)
(* wbio_ and leaves the caller's vector empty, so the packet the caller    *)
(* then builds carries nothing; the bytes leave when process_rx() next     *)
(* drains wbio_.  The server's handshake flight is Flight units long, in   *)
(* records of RecordLen units, and arrives in order, cut anywhere.         *)
(*                                                                         *)
(* Not here: initiate_reconnect, restore_subscriptions, handle_tcp_data    *)
(* and what only they call; no public operation reaches them.              *)
(***************************************************************************)
EXTENDS Naturals, Functions, SequencesExt

CONSTANTS
  Clients,      \* the WebSocketClient objects
  Keys,         \* exchange, instrument and channel of a subscription
  Flight,       \* length of the server's handshake flight
  RecordLen,    \* length of its TLS records
  PeerCloses,   \* the server may close the connection
  MaxConnects,  \* bound: how often connect() is called, on all clients together
  MaxPending    \* bound: messages in wbio_ when the application sends more

ASSUME WebSocketAssumption ==
  /\ Flight \in Nat \ {0} /\ RecordLen \in 1..Flight /\ Flight % RecordLen = 0
  /\ PeerCloses \in BOOLEAN
  /\ MaxConnects \in Nat /\ MaxPending \in Nat

VARIABLES
  ws,          \* state_
  tcp,         \* the state of tcp_client_
  sni,         \* set_hostname() was called on tls_socket_
  tls,         \* how far the TLS handshake is
  got,         \* units of the server's flight that TCP has delivered
  fed,         \* units given to tls_socket_
  wbio,        \* bytes in wbio_, named
  out,         \* what was handed out in mbufs, named
  lost,        \* some bytes were taken from wbio_, or a SYN made, and not sent
  owes,        \* the server has yet to answer the last packet it was sent
  subs,        \* keys of subscriptions_
  connects,    \* how often connect() was called
  statics      \* sni_set, client_hello_sent, error_with_data_count

vars == <<ws, tcp, sni, tls, got, fed, wbio, out, lost, owes, subs, connects, statics>>

Set(f, c, v) == [f EXCEPT ![c] = v]

\* What becomes of bytes that read_encrypted() took out of wbio_: send_data()
\* puts them into one packet, or returns null, because TCP is not established or
\* no mbuf is left, and they are gone.
Sendings(t, bytes) == IF t = "ESTABLISHED" THEN {bytes, <<>>} ELSE {<<>>}

\* The reads of wbio_ in one turn: before a record is fed, after the handshake
\* was pumped, after the loop.
HandOut(c, t, flushed, pumped, rest) ==
  \E x \in Sendings(t, flushed), y \in Sendings(t, pumped), z \in Sendings(t, rest) :
    /\ out' = Set(out, c, out[c] \o x \o y \o z)
    /\ lost' = Set(lost, c, lost[c] \/ x # flushed \/ y # pumped \/ z # rest)

-----------------------------------------------------------------------------
\* connect(): MicroTcp makes a SYN the first time only, and is in SYN_SENT even
\* if there is no mbuf for it.
Connect(c) ==
  /\ ws[c] = "DISCONNECTED" /\ SumFunction(connects) < MaxConnects
  /\ connects' = Set(connects, c, connects[c] + 1)
  /\ ws' = Set(ws, c, "CONNECTING_TCP")
  /\ \/ /\ tcp[c] = "CLOSED"
        /\ tcp' = Set(tcp, c, "SYN_SENT")
        /\ \/ out' = Set(out, c, Append(out[c], "SYN")) /\ UNCHANGED lost
           \/ lost' = Set(lost, c, TRUE) /\ UNCHANGED out
     \/ tcp[c] # "CLOSED" /\ UNCHANGED <<tcp, out, lost>>
  /\ UNCHANGED <<sni, tls, got, fed, wbio, owes, subs, statics>>

\* What an arriving packet does to the TCP connection: the SYN-ACK, data or
\* an acknowledgment, the server's FIN.
TcpAfter(c, kind) ==
  CASE kind = "synack" /\ tcp[c] = "SYN_SENT" -> "ESTABLISHED"
    [] kind = "fin" /\ tcp[c] = "ESTABLISHED" -> "FIN_WAIT_2"
    [] kind = "fin" /\ tcp[c] = "FIN_WAIT_2" -> "TIME_WAIT"
    [] OTHER -> tcp[c]

\* The parse loop feeds the complete records of a packet, k units of the
\* flight having arrived.
WholeRecords(k) == (k \div RecordLen) * RecordLen

\* What the last read of wbio_ finds when the handshake finishes: the upgrade
\* request generated inside the parse loop.
\* Mutant: only the loop drains wbio_.
Drained_InLoop(finishes) == <<>>
Drained(finishes) == IF finishes THEN <<"GET">> ELSE <<>>

\* The third failure with data counts as fatal and starts the count again.
\* Mutant: the count is not reset.
CountAfter_NoReset(errors) == errors
CountAfter(errors) == IF errors >= 3 THEN 0 ELSE errors

\* The part of process_rx() that talks TLS, with n units of the flight in
\* the packet.  The first turn of all only sends the ClientHello.
TlsTurn(c, n, t) ==
  LET first    == ~statics.client_hello_sent
      hello    == IF tls[c] = "start" THEN <<"HELLO">> ELSE <<>>
      intact   == got[c] = fed[c]
      fed1     == IF first \/ ~intact \/ tls[c] = "start" THEN fed[c]
                  ELSE WholeRecords(got[c] + n)
      finishes == tls[c] = "hello" /\ fed1 = Flight
      finished == IF finishes THEN <<"FINISHED">> ELSE <<>>
      \* cut records that reach OpenSSL as records make it fail for good
      fails    == tls[c] = "hello" /\ ~intact /\ n > 0
  IN  /\ sni' = IF statics.sni_set THEN sni ELSE Set(sni, c, TRUE)
      /\ got' = Set(got, c, got[c] + n)
      /\ fed' = Set(fed, c, fed1)
      /\ tls' \in { Set(tls, c, IF finishes THEN "finished"
                                ELSE IF tls[c] = "start" THEN "hello" ELSE f)
                    : f \in {tls[c]} \cup (IF fails THEN {"failed"} ELSE {}) }
      /\ LET hs == ~first /\ tls'[c] = "finished"
             errors == IF ~first /\ tls'[c] = "failed" /\ n > 0
                       THEN statics.errors + 1 ELSE statics.errors
         IN  /\ wbio' = Set(wbio, c, IF hs THEN <<"GET">> ELSE <<>>)
             /\ HandOut(c, t, wbio[c] \o hello, finished, Drained(finishes))
             /\ ws' = Set(ws, c, IF hs THEN "HANDSHAKE_SENT"
                                 ELSE IF errors >= 3 THEN "DISCONNECTED"
                                 ELSE "CONNECTING_TLS")
             /\ statics' = [sni_set |-> TRUE, client_hello_sent |-> TRUE,
                            errors |-> CountAfter(errors)]

\* process_rx() while the connection is made.
\* Mutant: after the first ClientHello of all, TLS is only driven by data.
RxConnecting_NeedsData(c, kind, n) ==
  LET t == TcpAfter(c, kind)
  IN  /\ ws[c] \in {"CONNECTING_TCP", "CONNECTING_TLS"}
      /\ tcp' = Set(tcp, c, t)
      /\ IF t = "ESTABLISHED" /\ (n > 0 \/ ~statics.client_hello_sent)
         THEN TlsTurn(c, n, t)
         ELSE UNCHANGED <<ws, sni, tls, got, fed, wbio, out, lost, statics>>
      /\ UNCHANGED <<subs, connects>>
RxConnecting(c, kind, n) ==
  LET t == TcpAfter(c, kind)
  IN  /\ ws[c] \in {"CONNECTING_TCP", "CONNECTING_TLS"}
      /\ tcp' = Set(tcp, c, t)
      /\ IF ws[c] = "CONNECTING_TLS" \/ t = "ESTABLISHED"
         THEN TlsTurn(c, n, t)
         ELSE UNCHANGED <<ws, sni, tls, got, fed, wbio, out, lost, statics>>
      /\ UNCHANGED <<subs, connects>>

\* After the upgrade request every packet counts as the server's consent.
RxUpgrade(c, kind) ==
  /\ ws[c] = "HANDSHAKE_SENT"
  /\ ws' = Set(ws, c, "CONNECTED")
  /\ tcp' = Set(tcp, c, TcpAfter(c, kind))
  /\ UNCHANGED <<sni, tls, got, fed, wbio, out, lost, subs, connects, statics>>

\* Else the packet only reaches TCP, and a disconnected client loses what it
\* carries; what a connected client decrypts is printed.
RxOther(c, kind, n) ==
  /\ ws[c] \in {"DISCONNECTED", "CONNECTED"}
  /\ tcp' = Set(tcp, c, TcpAfter(c, kind))
  /\ got' = Set(got, c, got[c] + n)
  /\ UNCHANGED <<ws, sni, tls, fed, wbio, out, lost, subs, connects, statics>>

\* TlsSocket::encrypt(): once the handshake is finished the ciphertext goes to
\* wbio_; the caller's vector stays empty.
Encrypt(c, msg) == IF tls[c] = "finished" THEN Append(wbio[c], msg) ELSE wbio[c]

\* generate_websocket_frame(): the packet it makes has no payload.
GenerateFrame(c, msg) == wbio' = Set(wbio, c, Encrypt(c, msg))

\* send_text_message(), for which the caller is connected; no mbuf is returned.
SendTextMessage(c, msg) == GenerateFrame(c, msg) /\ UNCHANGED <<out, lost, owes>>

Subscribe(c, k) ==
  /\ ws[c] = "CONNECTED" /\ k \notin subs[c] /\ Len(wbio[c]) < MaxPending
  /\ subs' = Set(subs, c, subs[c] \cup {k})
  /\ SendTextMessage(c, k)
  /\ UNCHANGED <<ws, tcp, sni, tls, got, fed, connects, statics>>

Unsubscribe(c, k) ==
  /\ ws[c] = "CONNECTED" /\ k \in subs[c] /\ Len(wbio[c]) < MaxPending
  /\ subs' = Set(subs, c, subs[c] \ {k})
  /\ SendTextMessage(c, "UNSUBSCRIBE")
  /\ UNCHANGED <<ws, tcp, sni, tls, got, fed, connects, statics>>

\* disconnect(): the close frame stays in wbio_ as well.
Disconnect(c) ==
  /\ ws[c] # "DISCONNECTED"
  /\ GenerateFrame(c, "CLOSE")
  /\ subs' = Set(subs, c, {})
  /\ ws' = Set(ws, c, "DISCONNECTED")
  /\ UNCHANGED <<tcp, sni, tls, got, fed, out, lost, owes, connects, statics>>

-----------------------------------------------------------------------------
Init ==
  /\ ws = [c \in Clients |-> "DISCONNECTED"]
  /\ tcp = [c \in Clients |-> "CLOSED"]
  /\ sni = [c \in Clients |-> FALSE]
  /\ tls = [c \in Clients |-> "start"]
  /\ got = [c \in Clients |-> 0] /\ fed = [c \in Clients |-> 0]
  /\ wbio = [c \in Clients |-> <<>>] /\ out = [c \in Clients |-> <<>>]
  /\ lost = [c \in Clients |-> FALSE] /\ owes = [c \in Clients |-> FALSE]
  /\ subs = [c \in Clients |-> {}]
  /\ connects = [c \in Clients |-> 0]
  /\ statics = [sni_set |-> FALSE, client_hello_sent |-> FALSE, errors |-> 0]

\* The server answers a SYN, sends its flight after the ClientHello, sends
\* acknowledgments and other packets, and may close.  It owes an answer to
\* bytes that were sent when its own packet was on its way.
Arrives(c, kind, n) ==
  /\ RxConnecting(c, kind, n) \/ RxOther(c, kind, n) \/ (n = 0 /\ RxUpgrade(c, kind))
  /\ owes' = Set(owes, c, out'[c] # out[c])
SynAckArrives(c) ==
  tcp[c] = "SYN_SENT" /\ "SYN" \in ToSet(out[c]) /\ Arrives(c, "synack", 0)
FlightArrives(c) ==
  /\ tcp[c] = "ESTABLISHED" /\ "HELLO" \in ToSet(out[c])
  /\ \E n \in 1..(Flight - got[c]) : Arrives(c, "data", n)
AckArrives(c) ==
  tcp[c] \in {"ESTABLISHED", "FIN_WAIT_2", "TIME_WAIT"} /\ Arrives(c, "data", 0)
FinArrives(c) ==
  PeerCloses /\ tcp[c] \in {"ESTABLISHED", "FIN_WAIT_2"} /\ Arrives(c, "fin", 0)

Next == \E c \in Clients :
  \/ Connect(c) \/ Disconnect(c)
  \/ SynAckArrives(c) \/ FlightArrives(c) \/ AckArrives(c) \/ FinArrives(c)
  \/ \E k \in Keys : Subscribe(c, k) \/ Unsubscribe(c, k)

Spec == Init /\ [][Next]_vars

\* The server answers: a SYN, bytes it was sent, and the ClientHello of a client
\* that gave the server's name.  Of one that did not it may or may not make
\* anything, and without a reason it need send nothing.
FairSpec ==
  /\ Spec
  /\ \A c \in Clients :
       /\ WF_vars(SynAckArrives(c))
       /\ WF_vars(FlightArrives(c) /\ sni[c])
       /\ WF_vars(AckArrives(c) /\ owes[c])

-----------------------------------------------------------------------------
\* The state is well-formed, and the count of failed handshakes, which all
\* clients share, never passes its limit.
TypeOK ==
  /\ ws \in [Clients -> {"DISCONNECTED", "CONNECTING_TCP", "CONNECTING_TLS",
                         "HANDSHAKE_SENT", "CONNECTED"}]
  /\ tcp \in [Clients -> {"CLOSED", "SYN_SENT", "ESTABLISHED", "FIN_WAIT_2", "TIME_WAIT"}]
  /\ statics.errors \in 0..2
  /\ \A c \in Clients : fed[c] <= got[c] /\ subs[c] \subseteq Keys

\* A client that is connected for the first time has sent at most one upgrade
\* request, although process_rx() generates the request twice and neither call
\* returns it (websocket_client.cpp, lines 242 and 279); and exactly one, after
\* it finished TLS, unless bytes of its own were lost for want of an mbuf, which
\* process_rx() does not notice.
OneUpgrade ==
  \A c \in Clients :
    ws[c] = "CONNECTED" /\ connects[c] = 1 =>
      /\ \A i, j \in DOMAIN out[c] : out[c][i] = "GET" /\ out[c][j] = "GET" => i = j
      /\ lost[c] \/ out[c] = <<"SYN", "HELLO", "FINISHED", "GET">>

\* The first time, a client gets connected although it shares its flags with
\* others, unless it is disconnected, the server closes, bytes were lost for
\* want of an mbuf, a packet has cut a TLS record (the first part of the record
\* is thrown away), or the client sent its ClientHello without the server's
\* name because another client had set sni_set.
GetsConnected ==
  \A c \in Clients :
    (ws[c] = "CONNECTING_TCP" /\ connects[c] = 1) ~>
      \/ ws[c] \in {"CONNECTED", "DISCONNECTED"}
      \/ tcp[c] \in {"FIN_WAIT_2", "TIME_WAIT"} \/ lost[c] \/ got[c] # fed[c]
      \/ tls[c] # "start" /\ ~sni[c]
=============================================================================
