------------------------ MODULE WebSocketClientProofs ------------------------
(***************************************************************************)
(* Proofs about the WebSocket client over the user-space TCP stack, for    *)
(* any number of clients, lengths of the server's flight and of its        *)
(* records, and ways to cut it into packets.                               *)
(***************************************************************************)
EXTENDS WebSocketClient, SequenceTheorems, TLAPS

WsStates == {"DISCONNECTED", "CONNECTING_TCP", "CONNECTING_TLS", "HANDSHAKE_SENT", "CONNECTED"}
TcpStates == {"CLOSED", "SYN_SENT", "ESTABLISHED", "FIN_WAIT_2", "TIME_WAIT"}
TlsStates == {"start", "hello", "finished", "failed"}
Bytes == {"SYN", "HELLO", "FINISHED", "GET", "UNSUBSCRIBE", "CLOSE"} \cup Keys
Statics == [sni_set : BOOLEAN, client_hello_sent : BOOLEAN, errors : 0..2]

\* The types of the variables.
TypeInv ==
  /\ ws \in [Clients -> WsStates] /\ tcp \in [Clients -> TcpStates]
  /\ tls \in [Clients -> TlsStates] /\ sni \in [Clients -> BOOLEAN]
  /\ got \in [Clients -> Nat] /\ fed \in [Clients -> Nat]
  /\ wbio \in [Clients -> Seq(Bytes)] /\ out \in [Clients -> Seq(Bytes)]
  /\ lost \in [Clients -> BOOLEAN] /\ owes \in [Clients -> BOOLEAN]
  /\ subs \in [Clients -> SUBSET Keys] /\ connects \in [Clients -> Nat]
  /\ statics \in Statics
  /\ \A c \in Clients : fed[c] <= got[c]

\* How many upgrade requests are among the bytes handed out.
NoGet(s) == \A i \in DOMAIN s : s[i] # "GET"
OneGet(s) == \A i, j \in DOMAIN s : s[i] = "GET" /\ s[j] = "GET" => i = j

\* What a client has sent at each stage of its first connection, whatever was
\* lost on the way and, if nothing was, exactly.  A client in the TLS stage has
\* had its first turn, so the shared flag client_hello_sent is set, whoever set
\* it.
FirstTry(c) ==
  /\ connects[c] = 0 =>
       /\ ws[c] = "DISCONNECTED" /\ tcp[c] = "CLOSED" /\ tls[c] = "start"
       /\ wbio[c] = <<>> /\ out[c] = <<>>
  /\ connects[c] = 1 =>
       /\ ws[c] = "CONNECTING_TCP" =>
            /\ tcp[c] = "SYN_SENT" /\ tls[c] = "start" /\ wbio[c] = <<>>
            /\ NoGet(out[c]) /\ (lost[c] \/ out[c] = <<"SYN">>)
       /\ ws[c] = "CONNECTING_TLS" =>
            /\ tls[c] \in {"hello", "failed"} /\ statics.client_hello_sent /\ wbio[c] = <<>>
            /\ NoGet(out[c]) /\ (lost[c] \/ out[c] = <<"SYN", "HELLO">>)
       /\ ws[c] \in {"HANDSHAKE_SENT", "CONNECTED"} =>
            /\ OneGet(out[c])
            /\ lost[c] \/ out[c] = <<"SYN", "HELLO", "FINISHED", "GET">>
UpgradeInv == \A c \in Clients : FirstTry(c)

-----------------------------------------------------------------------------
\* Whole records are no more than what has arrived.
LEMMA WholeRecordsFit ==
  ASSUME NEW k \in Nat
  PROVE  WholeRecords(k) \in Nat /\ WholeRecords(k) <= k
<1>1. RecordLen \in Nat \ {0}
  BY WebSocketAssumption
<1> QED BY <1>1 DEF WholeRecords

\* One more at the end.
LEMMA OneMore ==
  ASSUME NEW S, NEW s \in Seq(S), NEW b \in S
  PROVE  /\ s \o <<b>> \in Seq(S) /\ Len(s \o <<b>>) = Len(s) + 1
         /\ DOMAIN (s \o <<b>>) = 1..(Len(s) + 1) /\ (s \o <<b>>)[Len(s) + 1] = b
         /\ \A i \in 1..Len(s) : (s \o <<b>>)[i] = s[i]
OBVIOUS

\* The SYN, the ClientHello, the Finished message and the upgrade request, one
\* after the other.
LEMMA OneTwo ==
  ASSUME NEW a, NEW b
  PROVE  <<a>> \o <<b>> = <<a, b>>
<1> DEFINE S == {a, b}
           s == <<a>> \o <<b>>
           u == <<a, b>>
<1>1. <<a>> \in Seq(S) /\ <<b>> \in Seq(S)
  OBVIOUS
<1>2. s \in Seq(S) /\ Len(s) = 2
  BY <1>1
<1>3. s[1] = a /\ s[2] = b
  BY <1>1
<1>4. u \in Seq(S) /\ Len(u) = 2 /\ u[1] = a /\ u[2] = b
  OBVIOUS
<1> HIDE DEF s, u, S
<1>5. \A i \in 1..2 : s[i] = u[i]
  BY <1>3, <1>4
<1>6. s = u
  BY <1>2, <1>4, <1>5, SeqEqual
<1> QED BY <1>6 DEF s, u

LEMMA TwoThree ==
  ASSUME NEW a, NEW b, NEW c
  PROVE  <<a, b>> \o <<c>> = <<a, b, c>>
<1> DEFINE S == {a, b, c}
           s == <<a, b>> \o <<c>>
           u == <<a, b, c>>
<1>1. <<a, b>> \in Seq(S) /\ <<c>> \in Seq(S)
  OBVIOUS
<1>2. s \in Seq(S) /\ Len(s) = 3
  BY <1>1
<1>3. s[1] = a /\ s[2] = b /\ s[3] = c
  BY <1>1
<1>4. u \in Seq(S) /\ Len(u) = 3 /\ u[1] = a /\ u[2] = b /\ u[3] = c
  OBVIOUS
<1> HIDE DEF s, u, S
<1>5. \A i \in 1..3 : s[i] = u[i]
  BY <1>3, <1>4
<1>6. s = u
  BY <1>2, <1>4, <1>5, SeqEqual
<1> QED BY <1>6 DEF s, u

LEMMA ThreeFour ==
  ASSUME NEW a, NEW b, NEW c, NEW d
  PROVE  <<a, b, c>> \o <<d>> = <<a, b, c, d>>
<1> DEFINE S == {a, b, c, d}
           s == <<a, b, c>> \o <<d>>
           u == <<a, b, c, d>>
<1>1. <<a, b, c>> \in Seq(S) /\ <<d>> \in Seq(S)
  OBVIOUS
<1>2. s \in Seq(S) /\ Len(s) = 4
  BY <1>1
<1>3. s[1] = a /\ s[2] = b /\ s[3] = c /\ s[4] = d
  BY <1>1
<1>4. u \in Seq(S) /\ Len(u) = 4 /\ u[1] = a /\ u[2] = b /\ u[3] = c /\ u[4] = d
  OBVIOUS
<1> HIDE DEF s, u, S
<1>5. \A i \in 1..4 : s[i] = u[i]
  BY <1>3, <1>4
<1>6. s = u
  BY <1>2, <1>4, <1>5, SeqEqual
<1> QED BY <1>6 DEF s, u

LEMMA SynHelloFinishedGet ==
  /\ <<"SYN">> \o <<"HELLO">> = <<"SYN", "HELLO">>
  /\ <<"SYN", "HELLO">> \o <<"FINISHED">> \o <<"GET">> = <<"SYN", "HELLO", "FINISHED", "GET">>
<1>1. <<"SYN">> \o <<"HELLO">> = <<"SYN", "HELLO">>
  BY OneTwo
<1>2. <<"SYN", "HELLO">> \o <<"FINISHED">> = <<"SYN", "HELLO", "FINISHED">>
  BY TwoThree
<1>3. <<"SYN", "HELLO", "FINISHED">> \o <<"GET">> = <<"SYN", "HELLO", "FINISHED", "GET">>
  BY ThreeFour
<1> QED BY <1>1, <1>2, <1>3

\* One byte string more.
LEMMA GetsIn ==
  ASSUME NEW s \in Seq(Bytes), NoGet(s)
  PROVE  /\ \A b \in Bytes : b # "GET" => NoGet(s \o <<b>>)
         /\ \A b \in Bytes : OneGet(s \o <<b>>)
         /\ OneGet(s)
<1>1. ASSUME NEW b \in Bytes
      PROVE  /\ DOMAIN (s \o <<b>>) = 1..(Len(s) + 1) /\ (s \o <<b>>)[Len(s) + 1] = b
             /\ \A i \in 1..Len(s) : (s \o <<b>>)[i] = s[i]
  BY OneMore
<1>2. Len(s) \in Nat /\ DOMAIN s = 1..Len(s)
  OBVIOUS
<1>3. ASSUME NEW b \in Bytes, b # "GET" PROVE NoGet(s \o <<b>>)
  <2>1. \A i \in 1..(Len(s) + 1) : i = Len(s) + 1 \/ i \in 1..Len(s)
    BY <1>2
  <2> QED BY <1>1, <1>2, <1>3, <2>1 DEF NoGet
<1>4. ASSUME NEW b \in Bytes PROVE OneGet(s \o <<b>>)
  <2>1. \A i \in 1..(Len(s) + 1) : i = Len(s) + 1 \/ i \in 1..Len(s)
    BY <1>2
  <2>2. \A i \in 1..(Len(s) + 1) : (s \o <<b>>)[i] = "GET" => i = Len(s) + 1
    BY <1>1, <1>2, <2>1 DEF NoGet
  <2> QED BY <1>1, <2>2 DEF OneGet
<1>5. OneGet(s)
  BY DEF NoGet, OneGet
<1> QED BY <1>3, <1>4, <1>5

\* What is taken out of wbio_ is handed out or lost.
LEMMA HandOutDoes ==
  ASSUME TypeInv, NEW c \in Clients, NEW t, NEW f \in Seq(Bytes), NEW p \in Seq(Bytes),
         NEW r \in Seq(Bytes), HandOut(c, t, f, p, r)
  PROVE  /\ out' \in [Clients -> Seq(Bytes)] /\ lost' \in [Clients -> BOOLEAN]
         /\ \A d \in Clients \ {c} : out'[d] = out[d] /\ lost'[d] = lost[d]
         /\ \E x \in {f, <<>>}, y \in {p, <<>>}, z \in {r, <<>>} :
              /\ out'[c] = out[c] \o x \o y \o z
              /\ lost'[c] = (lost[c] \/ x # f \/ y # p \/ z # r)
<1>1. out \in [Clients -> Seq(Bytes)] /\ lost \in [Clients -> BOOLEAN]
  BY DEF TypeInv
<1>2. PICK x \in Sendings(t, f), y \in Sendings(t, p), z \in Sendings(t, r) :
        /\ out' = [out EXCEPT ![c] = out[c] \o x \o y \o z]
        /\ lost' = [lost EXCEPT ![c] = lost[c] \/ x # f \/ y # p \/ z # r]
  BY DEF HandOut, Set
<1>3. x \in {f, <<>>} /\ y \in {p, <<>>} /\ z \in {r, <<>>}
  BY DEF Sendings
<1>4. out[c] \in Seq(Bytes) /\ x \in Seq(Bytes) /\ y \in Seq(Bytes) /\ z \in Seq(Bytes)
  <2>1. <<>> \in Seq(Bytes)
    OBVIOUS
  <2> QED BY <1>1, <1>3, <2>1, Zenon
<1>5. out[c] \o x \o y \o z \in Seq(Bytes)
  BY <1>4
<1>6. /\ out' \in [Clients -> Seq(Bytes)]
      /\ out'[c] = out[c] \o x \o y \o z /\ \A d \in Clients \ {c} : out'[d] = out[d]
  BY <1>1, <1>2, <1>5
<1>7. /\ lost' \in [Clients -> BOOLEAN]
      /\ lost'[c] = (lost[c] \/ x # f \/ y # p \/ z # r)
      /\ \A d \in Clients \ {c} : lost'[d] = lost[d]
  BY <1>1, <1>2
<1> QED BY <1>3, <1>6, <1>7

\* One turn of process_rx() with TLS.
LEMMA TlsTurnDoes ==
  ASSUME TypeInv, NEW c \in Clients, NEW n \in Nat, NEW t, TlsTurn(c, n, t)
  PROVE  /\ ws' \in [Clients -> WsStates] /\ tls' \in [Clients -> TlsStates]
         /\ sni' \in [Clients -> BOOLEAN]
         /\ got' \in [Clients -> Nat] /\ fed' \in [Clients -> Nat]
         /\ wbio' \in [Clients -> Seq(Bytes)] /\ out' \in [Clients -> Seq(Bytes)]
         /\ lost' \in [Clients -> BOOLEAN]
         /\ statics' \in Statics /\ statics'.client_hello_sent
         /\ \A d \in Clients : fed'[d] <= got'[d]
         /\ \A d \in Clients \ {c} : /\ ws'[d] = ws[d] /\ tls'[d] = tls[d] /\ wbio'[d] = wbio[d]
                                     /\ out'[d] = out[d] /\ lost'[d] = lost[d]
         /\ tls[c] = "start" /\ wbio[c] = <<>> =>
              /\ tls'[c] = "hello" /\ ws'[c] = "CONNECTING_TLS" /\ wbio'[c] = <<>>
              /\ \/ out'[c] = out[c] /\ lost'[c]
                 \/ out'[c] = out[c] \o <<"HELLO">> /\ lost'[c] = lost[c]
         /\ tls[c] \in {"hello", "failed"} /\ statics.client_hello_sent /\ wbio[c] = <<>> =>
              \/ /\ ws'[c] = "HANDSHAKE_SENT"
                 /\ \/ lost'[c] /\ out'[c] \in {out[c], out[c] \o <<"FINISHED">>, out[c] \o <<"GET">>}
                    \/ lost'[c] = lost[c] /\ out'[c] = out[c] \o <<"FINISHED">> \o <<"GET">>
              \/ /\ tls'[c] \in {"hello", "failed"} /\ ws'[c] \in {"CONNECTING_TLS", "DISCONNECTED"}
                 /\ wbio'[c] = <<>> /\ out'[c] = out[c] /\ lost'[c] = lost[c]
<1> DEFINE first    == ~statics.client_hello_sent
           hello    == IF tls[c] = "start" THEN <<"HELLO">> ELSE <<>>
           intact   == got[c] = fed[c]
           fed1     == IF first \/ ~intact \/ tls[c] = "start" THEN fed[c]
                       ELSE WholeRecords(got[c] + n)
           finishes == tls[c] = "hello" /\ fed1 = Flight
           finished == IF finishes THEN <<"FINISHED">> ELSE <<>>
           fails    == tls[c] = "hello" /\ ~intact /\ n > 0
           hs       == ~first /\ tls'[c] = "finished"
           errors   == IF ~first /\ tls'[c] = "failed" /\ n > 0
                       THEN statics.errors + 1 ELSE statics.errors
           flushed  == wbio[c] \o hello
           rest     == Drained(finishes)
<1>0. /\ ws \in [Clients -> WsStates] /\ tls \in [Clients -> TlsStates]
      /\ sni \in [Clients -> BOOLEAN]
      /\ got \in [Clients -> Nat] /\ fed \in [Clients -> Nat]
      /\ wbio \in [Clients -> Seq(Bytes)] /\ out \in [Clients -> Seq(Bytes)]
      /\ statics \in Statics /\ \A d \in Clients : fed[d] <= got[d]
  BY DEF TypeInv
<1>1. /\ sni' = IF statics.sni_set THEN sni ELSE [sni EXCEPT ![c] = TRUE]
      /\ got' = [got EXCEPT ![c] = got[c] + n]
      /\ fed' = [fed EXCEPT ![c] = fed1]
      /\ \E f \in {tls[c]} \cup (IF fails THEN {"failed"} ELSE {}) :
           tls' = [tls EXCEPT ![c] = IF finishes THEN "finished"
                                     ELSE IF tls[c] = "start" THEN "hello" ELSE f]
      /\ wbio' = [wbio EXCEPT ![c] = IF hs THEN <<"GET">> ELSE <<>>]
      /\ HandOut(c, t, flushed, finished, rest)
      /\ ws' = [ws EXCEPT ![c] = IF hs THEN "HANDSHAKE_SENT"
                                 ELSE IF errors >= 3 THEN "DISCONNECTED" ELSE "CONNECTING_TLS"]
      /\ statics' = [sni_set |-> TRUE, client_hello_sent |-> TRUE, errors |-> CountAfter(errors)]
  BY Zenon DEF TlsTurn, Set
<1>2. fed1 \in Nat /\ fed1 <= got[c] + n
  <2>1. fed[c] \in Nat /\ fed[c] <= got[c] /\ got[c] \in Nat /\ got[c] + n \in Nat
    BY <1>0
  <2>2. WholeRecords(got[c] + n) \in Nat /\ WholeRecords(got[c] + n) <= got[c] + n
    BY <2>1, WholeRecordsFit
  <2> QED BY <2>1, <2>2
<1>3. errors \in 0..3 /\ CountAfter(errors) \in 0..2
  BY <1>0 DEF Statics, CountAfter
<1>4. flushed \in Seq(Bytes) /\ finished \in Seq(Bytes) /\ rest \in Seq(Bytes)
  <2>1. /\ <<>> \in Seq(Bytes) /\ <<"HELLO">> \in Seq(Bytes)
        /\ <<"FINISHED">> \in Seq(Bytes) /\ <<"GET">> \in Seq(Bytes)
    BY DEF Bytes
  <2>2. hello \in Seq(Bytes) /\ finished \in Seq(Bytes)
    BY <2>1
  <2>3. rest \in Seq(Bytes)
    BY <2>1 DEF Drained
  <2> HIDE DEF hello, finished, rest
  <2> QED BY <1>0, <2>2, <2>3
<1>5. tls' \in [Clients -> TlsStates] /\ \A d \in Clients \ {c} : tls'[d] = tls[d]
  BY <1>0, <1>1 DEF TlsStates
<1>6. /\ finishes => tls'[c] = "finished"
      /\ ~finishes /\ tls[c] = "start" => tls'[c] = "hello"
      /\ ~finishes /\ tls[c] # "start" => tls'[c] \in {tls[c], "failed"}
  BY <1>0, <1>1
<1>7. statics' \in Statics /\ statics'.client_hello_sent
  BY <1>1, <1>3 DEF Statics
<1>a. /\ wbio[c] = <<>> /\ tls[c] = "start" => flushed = <<"HELLO">>
      /\ wbio[c] = <<>> /\ tls[c] # "start" => flushed = <<>>
  <2>1. wbio[c] = <<>> => flushed = hello
    <3>1. <<"HELLO">> \in Seq(Bytes) /\ <<>> \in Seq(Bytes)
      BY DEF Bytes
    <3>2. hello \in Seq(Bytes)
      BY <3>1
    <3> HIDE DEF hello
    <3>3. <<>> \o hello = hello
      BY <3>2, ConcatEmptySeq
    <3> QED BY <3>3
  <2> QED BY <2>1
<1>b. /\ finishes => finished = <<"FINISHED">> /\ rest = <<"GET">>
      /\ ~finishes => finished = <<>> /\ rest = <<>>
  BY DEF Drained
<1> HIDE DEF errors, fed1, flushed, finished, rest
<1>8. /\ got' \in [Clients -> Nat] /\ fed' \in [Clients -> Nat]
      /\ \A d \in Clients : fed'[d] <= got'[d]
  BY <1>0, <1>1, <1>2
<1>9. wbio' \in [Clients -> Seq(Bytes)] /\ \A d \in Clients \ {c} : wbio'[d] = wbio[d]
  <2>1. <<"GET">> \in Seq(Bytes) /\ <<>> \in Seq(Bytes)
    BY DEF Bytes
  <2> HIDE DEF hs
  <2> QED BY <1>0, <1>1, <2>1
<1>10. /\ out' \in [Clients -> Seq(Bytes)] /\ lost' \in [Clients -> BOOLEAN]
       /\ \A d \in Clients \ {c} : out'[d] = out[d] /\ lost'[d] = lost[d]
       /\ \E x \in {flushed, <<>>}, y \in {finished, <<>>}, z \in {rest, <<>>} :
            /\ out'[c] = out[c] \o x \o y \o z
            /\ lost'[c] = (lost[c] \/ x # flushed \/ y # finished \/ z # rest)
  BY <1>1, <1>4, HandOutDoes
<1>11. ws' \in [Clients -> WsStates] /\ \A d \in Clients \ {c} : ws'[d] = ws[d]
  BY <1>0, <1>1 DEF WsStates
<1>12. sni' \in [Clients -> BOOLEAN]
  BY <1>0, <1>1
<1>13. /\ wbio'[c] = IF hs THEN <<"GET">> ELSE <<>>
       /\ ws'[c] = IF hs THEN "HANDSHAKE_SENT"
                   ELSE IF errors >= 3 THEN "DISCONNECTED" ELSE "CONNECTING_TLS"
  BY <1>0, <1>1
<1>c. PICK x \in {flushed, <<>>}, y \in {finished, <<>>}, z \in {rest, <<>>} :
         /\ out'[c] = out[c] \o x \o y \o z
         /\ lost'[c] = (lost[c] \/ x # flushed \/ y # finished \/ z # rest)
  BY <1>10
<1>d. out[c] \in Seq(Bytes) /\ lost[c] \in BOOLEAN
  BY DEF TypeInv
<1>e. \A u \in Seq(Bytes) : u \o <<>> = u
  BY ConcatEmptySeq
<1>14. ASSUME tls[c] = "start", wbio[c] = <<>>
       PROVE  /\ tls'[c] = "hello" /\ ws'[c] = "CONNECTING_TLS" /\ wbio'[c] = <<>>
              /\ \/ out'[c] = out[c] /\ lost'[c]
                 \/ out'[c] = out[c] \o <<"HELLO">> /\ lost'[c] = lost[c]
  <2>1. ~finishes /\ tls'[c] = "hello" /\ ~hs
    BY <1>6, <1>14
  <2>2. ~(errors >= 3)
    BY <1>0, <2>1 DEF errors, Statics
  <2>3. y = <<>> /\ z = <<>> /\ finished = <<>> /\ rest = <<>> /\ flushed = <<"HELLO">>
    BY <1>a, <1>b, <1>14, <2>1, Zenon
  <2>4. out[c] \o x \in Seq(Bytes)
    <3>1. <<>> \in Seq(Bytes)
      OBVIOUS
    <3>2. x \in Seq(Bytes)
      BY <1>4, <3>1, Zenon
    <3> QED BY <1>d, <3>2
  <2>5. out'[c] = out[c] \o x /\ lost'[c] = (lost[c] \/ x # flushed)
    BY <1>c, <1>e, <2>3, <2>4, Zenon
  <2>6. CASE x = flushed
    BY <1>13, <2>1, <2>2, <2>3, <2>5, <2>6, <1>d, Zenon
  <2>7. CASE x = <<>> /\ x # flushed
    <3>1. out'[c] = out[c] /\ lost'[c]
      BY <1>d, <1>e, <2>5, <2>7, Zenon
    <3> QED BY <1>13, <2>1, <2>2, <3>1, Zenon
  <2> QED BY <2>6, <2>7
<1>15. ASSUME tls[c] \in {"hello", "failed"}, statics.client_hello_sent, wbio[c] = <<>>
       PROVE  \/ /\ ws'[c] = "HANDSHAKE_SENT"
                 /\ \/ lost'[c] /\ out'[c] \in {out[c], out[c] \o <<"FINISHED">>, out[c] \o <<"GET">>}
                    \/ lost'[c] = lost[c] /\ out'[c] = out[c] \o <<"FINISHED">> \o <<"GET">>
              \/ /\ tls'[c] \in {"hello", "failed"} /\ ws'[c] \in {"CONNECTING_TLS", "DISCONNECTED"}
                 /\ wbio'[c] = <<>> /\ out'[c] = out[c] /\ lost'[c] = lost[c]
  <2>0. flushed = <<>> /\ x = <<>>
    BY <1>a, <1>15
  <2>e. out[c] \o x = out[c]
    BY <1>d, <1>e, <2>0
  <2>1. CASE finishes
    <3>1. hs
      BY <1>6, <1>15, <2>1
    <3>2. finished = <<"FINISHED">> /\ rest = <<"GET">>
      BY <1>b, <2>1
    <3>3. ws'[c] = "HANDSHAKE_SENT"
      BY <1>13, <3>1
    <3>4. /\ out'[c] = out[c] \o y \o z
          /\ lost'[c] = (lost[c] \/ y # finished \/ z # rest)
      BY <1>c, <2>0, <2>e, Zenon
    <3>5. CASE y = finished /\ z = rest
      BY <1>d, <3>2, <3>3, <3>4, <3>5, Zenon
    <3>6. CASE (y = <<>> /\ y # finished) \/ (z = <<>> /\ z # rest)
      <4>1. lost'[c]
        BY <3>4, <3>6, Zenon
      <4>2. /\ out[c] \o finished \in Seq(Bytes)
            /\ out[c] \o <<>> = out[c] /\ out[c] \o finished \o <<>> = out[c] \o finished
        BY <1>4, <1>d, <1>e
      <4>3. out'[c] \in {out[c], out[c] \o <<"FINISHED">>, out[c] \o <<"GET">>}
        BY <3>2, <3>4, <3>6, <4>2, Zenon
      <4> QED BY <3>3, <4>1, <4>3
    <3> QED BY <3>5, <3>6
  <2>2. CASE ~finishes
    <3>1. tls'[c] \in {"hello", "failed"} /\ ~hs
      BY <1>6, <1>15, <2>2
    <3>2. finished = <<>> /\ rest = <<>> /\ y = <<>> /\ z = <<>>
      BY <1>b, <2>2
    <3>3. out'[c] = out[c] /\ lost'[c] = lost[c]
      BY <1>c, <1>d, <1>e, <2>0, <3>2, Zenon
    <3> QED BY <1>13, <3>1, <3>3
  <2> QED BY <2>1, <2>2
<1> QED BY <1>5, <1>7, <1>8, <1>9, <1>10, <1>11, <1>12, <1>14, <1>15

\* What a packet does to TCP.
LEMMA TcpAfterIs ==
  ASSUME TypeInv, NEW c \in Clients, NEW kind, tcp' = Set(tcp, c, TcpAfter(c, kind))
  PROVE  /\ TcpAfter(c, kind) \in TcpStates /\ tcp' \in [Clients -> TcpStates]
         /\ tcp'[c] = TcpAfter(c, kind)
         /\ \A d \in Clients \ {c} : tcp'[d] = tcp[d]
         /\ tcp[c] = "SYN_SENT" => tcp'[c] \in {"SYN_SENT", "ESTABLISHED"}
<1>1. tcp \in [Clients -> TcpStates] /\ tcp' = [tcp EXCEPT ![c] = TcpAfter(c, kind)]
  BY DEF TypeInv, Set
<1>2. /\ TcpAfter(c, kind) \in {tcp[c], "ESTABLISHED", "FIN_WAIT_2", "TIME_WAIT"}
      /\ tcp[c] = "SYN_SENT" => TcpAfter(c, kind) \in {"SYN_SENT", "ESTABLISHED"}
  BY DEF TcpAfter
<1>3. TcpAfter(c, kind) \in TcpStates
  BY <1>1, <1>2 DEF TcpStates
<1> QED BY <1>1, <1>2, <1>3

\* Packets, by the state of the client.
LEMMA RxConnectingKeeps ==
  ASSUME TypeInv, UpgradeInv, NEW c \in Clients, NEW kind, NEW n \in Nat,
         RxConnecting(c, kind, n), owes' \in [Clients -> BOOLEAN]
  PROVE  TypeInv' /\ UpgradeInv'
<1> DEFINE t == TcpAfter(c, kind)
<1>1. /\ ws[c] \in {"CONNECTING_TCP", "CONNECTING_TLS"} /\ tcp' = Set(tcp, c, t)
      /\ IF ws[c] = "CONNECTING_TLS" \/ t = "ESTABLISHED" THEN TlsTurn(c, n, t)
         ELSE UNCHANGED <<ws, sni, tls, got, fed, wbio, out, lost, statics>>
      /\ UNCHANGED <<subs, connects>>
  BY DEF RxConnecting
<1>2. /\ tcp' \in [Clients -> TcpStates] /\ tcp'[c] = t
      /\ \A d \in Clients \ {c} : tcp'[d] = tcp[d]
      /\ tcp[c] = "SYN_SENT" => t \in {"SYN_SENT", "ESTABLISHED"}
  BY <1>1, TcpAfterIs
<1>3. \A d \in Clients : FirstTry(d)
  BY DEF UpgradeInv
<1> HIDE DEF t
<1>4. connects[c] # 0
  BY <1>1, <1>3 DEF FirstTry
<1>5. CASE TlsTurn(c, n, t)
  <2>1. TypeInv'
    BY <1>1, <1>2, <1>5, TlsTurnDoes DEF TypeInv
  <2>2. ASSUME NEW d \in Clients \ {c} PROVE FirstTry(d)'
    <3>1. /\ ws'[d] = ws[d] /\ tls'[d] = tls[d] /\ wbio'[d] = wbio[d]
          /\ out'[d] = out[d] /\ lost'[d] = lost[d] /\ statics'.client_hello_sent
      BY <1>5, TlsTurnDoes
    <3> QED BY <1>1, <1>2, <1>3, <3>1 DEF FirstTry
  <2>3. FirstTry(c)'
    <3> SUFFICES ASSUME connects[c] = 1
                 PROVE  FirstTry(c)'
      BY <1>1, <1>4 DEF FirstTry
    <3>0. out[c] \in Seq(Bytes) /\ {"HELLO", "FINISHED", "GET"} \subseteq Bytes
      BY DEF TypeInv, Bytes
    <3>1. CASE ws[c] = "CONNECTING_TCP"
      <4>1. /\ tls[c] = "start" /\ wbio[c] = <<>>
            /\ NoGet(out[c]) /\ (lost[c] \/ out[c] = <<"SYN">>)
        BY <1>3, <3>1 DEF FirstTry
      <4>2. /\ tls'[c] = "hello" /\ ws'[c] = "CONNECTING_TLS" /\ wbio'[c] = <<>>
            /\ statics'.client_hello_sent
            /\ \/ out'[c] = out[c] /\ lost'[c]
               \/ out'[c] = out[c] \o <<"HELLO">> /\ lost'[c] = lost[c]
        BY <1>5, <4>1, TlsTurnDoes
      <4>3. NoGet(out'[c])
        <5>1. NoGet(out[c] \o <<"HELLO">>)
          BY <3>0, <4>1, GetsIn
        <5> QED BY <4>1, <4>2, <5>1
      <4>4. lost'[c] \/ out'[c] = <<"SYN", "HELLO">>
        BY <4>1, <4>2, SynHelloFinishedGet
      <4> QED BY <1>1, <4>2, <4>3, <4>4 DEF FirstTry
    <3>2. CASE ws[c] = "CONNECTING_TLS"
      <4>1. /\ tls[c] \in {"hello", "failed"} /\ statics.client_hello_sent /\ wbio[c] = <<>>
            /\ NoGet(out[c]) /\ (lost[c] \/ out[c] = <<"SYN", "HELLO">>)
        BY <1>3, <3>2 DEF FirstTry
      <4>2. \/ /\ ws'[c] = "HANDSHAKE_SENT"
               /\ \/ lost'[c] /\ out'[c] \in {out[c], out[c] \o <<"FINISHED">>, out[c] \o <<"GET">>}
                  \/ lost'[c] = lost[c] /\ out'[c] = out[c] \o <<"FINISHED">> \o <<"GET">>
            \/ /\ tls'[c] \in {"hello", "failed"} /\ ws'[c] \in {"CONNECTING_TLS", "DISCONNECTED"}
               /\ wbio'[c] = <<>> /\ out'[c] = out[c] /\ lost'[c] = lost[c]
        BY <1>5, <4>1, TlsTurnDoes
      <4>3. statics'.client_hello_sent
        BY <1>5, TlsTurnDoes
      <4>4. CASE ws'[c] = "HANDSHAKE_SENT"
        <5>1. /\ OneGet(out[c]) /\ OneGet(out[c] \o <<"FINISHED">>) /\ OneGet(out[c] \o <<"GET">>)
              /\ OneGet(out[c] \o <<"FINISHED">> \o <<"GET">>)
          <6>1. NoGet(out[c] \o <<"FINISHED">>) /\ out[c] \o <<"FINISHED">> \in Seq(Bytes)
            BY <3>0, <4>1, GetsIn
          <6> QED BY <3>0, <4>1, <6>1, GetsIn
        <5>2. OneGet(out'[c])
          BY <4>2, <4>4, <5>1, Zenon
        <5>3. lost'[c] \/ out'[c] = <<"SYN", "HELLO", "FINISHED", "GET">>
          BY <4>1, <4>2, <4>4, SynHelloFinishedGet, Zenon
        <5> QED BY <1>1, <4>4, <5>2, <5>3 DEF FirstTry
      <4>5. CASE ws'[c] # "HANDSHAKE_SENT"
        BY <1>1, <4>1, <4>2, <4>3, <4>5 DEF FirstTry
      <4> QED BY <4>4, <4>5
    <3> QED BY <1>1, <3>1, <3>2
  <2> QED BY <2>1, <2>2, <2>3 DEF UpgradeInv
<1>6. CASE UNCHANGED <<ws, sni, tls, got, fed, wbio, out, lost, statics>>
  <2>1. TypeInv'
    BY <1>1, <1>2, <1>6 DEF TypeInv
  <2>2. ASSUME NEW d \in Clients PROVE FirstTry(d)'
    <3>1. CASE d # c
      BY <1>1, <1>2, <1>3, <1>6, <3>1 DEF FirstTry
    <3>2. CASE d = c
      <4>1. CASE ws[c] = "CONNECTING_TCP"
        <5>1. connects[c] = 1 => t = "SYN_SENT"
          <6>1. CASE TlsTurn(c, n, t) /\ connects[c] = 1
            <7>1. tls[c] = "start" /\ wbio[c] = <<>>
              BY <1>3, <4>1, <6>1 DEF FirstTry
            <7>2. ws'[c] = "CONNECTING_TLS"
              BY <6>1, <7>1, TlsTurnDoes
            <7> QED BY <1>6, <4>1, <7>2
          <6>2. CASE t # "ESTABLISHED"
            BY <1>2, <1>3, <4>1, <6>2 DEF FirstTry
          <6> QED BY <1>1, <6>1, <6>2
        <5> QED BY <1>1, <1>2, <1>3, <1>4, <1>6, <3>2, <4>1, <5>1 DEF FirstTry
      <4>2. CASE ws[c] # "CONNECTING_TCP"
        BY <1>1, <1>2, <1>3, <1>4, <1>6, <3>2, <4>2 DEF FirstTry
      <4> QED BY <4>1, <4>2
    <3> QED BY <3>1, <3>2
  <2> QED BY <2>1, <2>2 DEF UpgradeInv
<1> QED BY <1>1, <1>5, <1>6

LEMMA RxLaterKeeps ==
  ASSUME TypeInv, UpgradeInv, NEW c \in Clients, NEW kind, NEW n \in Nat,
         RxUpgrade(c, kind) \/ RxOther(c, kind, n), tcp[c] # "CLOSED",
         owes' \in [Clients -> BOOLEAN]
  PROVE  TypeInv' /\ UpgradeInv'
<1>1. /\ tcp' = Set(tcp, c, TcpAfter(c, kind))
      /\ UNCHANGED <<sni, tls, fed, wbio, out, lost, subs, connects, statics>>
  BY DEF RxUpgrade, RxOther
<1>2. /\ ws' \in [Clients -> WsStates] /\ \A d \in Clients \ {c} : ws'[d] = ws[d]
      /\ \/ ws[c] = "HANDSHAKE_SENT" /\ ws'[c] = "CONNECTED"
         \/ ws[c] \in {"DISCONNECTED", "CONNECTED"} /\ ws'[c] = ws[c]
  BY DEF RxUpgrade, RxOther, TypeInv, Set, WsStates
<1>3. got' \in [Clients -> Nat] /\ \A d \in Clients : fed[d] <= got'[d]
  <2>1. got \in [Clients -> Nat] /\ \A d \in Clients : fed[d] \in Nat /\ fed[d] <= got[d]
    BY DEF TypeInv
  <2>2. CASE RxUpgrade(c, kind)
    BY <2>1, <2>2 DEF RxUpgrade
  <2>3. CASE RxOther(c, kind, n)
    <3>1. got' = [got EXCEPT ![c] = got[c] + n]
      BY <2>3 DEF RxOther, Set
    <3> QED BY <2>1, <3>1
  <2> QED BY <2>2, <2>3
<1>4. /\ tcp' \in [Clients -> TcpStates] /\ \A d \in Clients \ {c} : tcp'[d] = tcp[d]
  BY <1>1, TcpAfterIs
<1>5. TypeInv'
  BY <1>1, <1>2, <1>3, <1>4 DEF TypeInv
<1>6. ASSUME NEW d \in Clients PROVE FirstTry(d)'
  <2>1. FirstTry(d) /\ FirstTry(c)
    BY DEF UpgradeInv
  <2>2. CASE d # c
    BY <1>1, <1>2, <1>4, <2>1, <2>2 DEF FirstTry
  <2>3. CASE d = c
    BY <1>1, <1>2, <1>4, <2>1, <2>3 DEF FirstTry
  <2> QED BY <2>2, <2>3
<1> QED BY <1>5, <1>6 DEF UpgradeInv

\* What the application does.
LEMMA AppKeeps ==
  ASSUME TypeInv, UpgradeInv, NEW c \in Clients,
         Connect(c) \/ Disconnect(c) \/ \E k \in Keys : Subscribe(c, k) \/ Unsubscribe(c, k)
  PROVE  TypeInv' /\ UpgradeInv'
<1>a. /\ ws \in [Clients -> WsStates] /\ tcp \in [Clients -> TcpStates]
      /\ connects \in [Clients -> Nat] /\ wbio \in [Clients -> Seq(Bytes)]
      /\ subs \in [Clients -> SUBSET Keys]
  BY DEF TypeInv
<1>b. \A d \in Clients : FirstTry(d)
  BY DEF UpgradeInv
<1>c. ASSUME NEW m \in Bytes, wbio' = Set(wbio, c, Encrypt(c, m))
      PROVE  wbio' \in [Clients -> Seq(Bytes)] /\ \A d \in Clients \ {c} : wbio'[d] = wbio[d]
  <2>1. Encrypt(c, m) \in Seq(Bytes)
    BY <1>a DEF Encrypt
  <2> QED BY <1>a, <1>c, <2>1 DEF Set
<1>1. CASE Connect(c)
  <2>1. /\ ws[c] = "DISCONNECTED" /\ connects' = [connects EXCEPT ![c] = connects[c] + 1]
        /\ ws' = [ws EXCEPT ![c] = "CONNECTING_TCP"]
        /\ \/ /\ tcp[c] = "CLOSED" /\ tcp' = [tcp EXCEPT ![c] = "SYN_SENT"]
              /\ \/ out' = [out EXCEPT ![c] = Append(out[c], "SYN")] /\ UNCHANGED lost
                 \/ lost' = [lost EXCEPT ![c] = TRUE] /\ UNCHANGED out
           \/ tcp[c] # "CLOSED" /\ UNCHANGED <<tcp, out, lost>>
        /\ UNCHANGED <<sni, tls, got, fed, wbio, owes, subs, statics>>
    BY <1>1 DEF Connect, Set
  <2>2. out' \in [Clients -> Seq(Bytes)] /\ lost' \in [Clients -> BOOLEAN]
    <3>1. out \in [Clients -> Seq(Bytes)] /\ lost \in [Clients -> BOOLEAN]
      BY DEF TypeInv
    <3>2. out[c] \in Seq(Bytes) /\ "SYN" \in Bytes
      BY <3>1 DEF Bytes
    <3>3. Append(out[c], "SYN") \in Seq(Bytes)
      BY <3>2
    <3> QED BY <2>1, <3>1, <3>3
  <2>3. TypeInv'
    <3>1. /\ ws' \in [Clients -> WsStates] /\ tcp' \in [Clients -> TcpStates]
          /\ connects' \in [Clients -> Nat]
      <4>1. "SYN_SENT" \in TcpStates /\ "CONNECTING_TCP" \in WsStates /\ connects[c] + 1 \in Nat
        BY <1>a DEF WsStates, TcpStates
      <4>2. tcp' = [tcp EXCEPT ![c] = "SYN_SENT"] \/ tcp' = tcp
        BY <2>1
      <4>3. tcp' \in [Clients -> TcpStates]
        BY <1>a, <4>1, <4>2
      <4> QED BY <1>a, <2>1, <4>1, <4>3
    <3> QED BY <2>1, <2>2, <3>1 DEF TypeInv
  <2>4. ASSUME NEW d \in Clients \ {c} PROVE FirstTry(d)'
    <3>1. /\ ws'[d] = ws[d] /\ tcp'[d] = tcp[d] /\ out'[d] = out[d] /\ lost'[d] = lost[d]
          /\ connects'[d] = connects[d]
      BY <1>a, <2>1 DEF TypeInv
    <3> QED BY <1>b, <2>1, <3>1 DEF FirstTry
  <2>5. FirstTry(c)'
    <3>1. connects'[c] = connects[c] + 1 /\ connects[c] \in Nat /\ ws'[c] = "CONNECTING_TCP"
      BY <1>a, <2>1
    <3>2. CASE connects[c] # 0
      BY <3>1, <3>2 DEF FirstTry
    <3>3. CASE connects[c] = 0
      <4>1. /\ tcp[c] = "CLOSED" /\ tls[c] = "start" /\ wbio[c] = <<>> /\ out[c] = <<>>
        BY <1>b, <3>3 DEF FirstTry
      <4>2. /\ tcp'[c] = "SYN_SENT" /\ tls'[c] = "start" /\ wbio'[c] = <<>>
            /\ \/ out'[c] = Append(out[c], "SYN")
               \/ lost'[c] /\ out'[c] = <<>>
        BY <1>a, <2>1, <4>1 DEF TypeInv
      <4>3. Append(out[c], "SYN") = <<"SYN">>
        BY <4>1
      <4>4. NoGet(<<>>) /\ NoGet(<<"SYN">>)
        BY DEF NoGet
      <4> QED BY <3>1, <3>3, <4>2, <4>3, <4>4 DEF FirstTry
    <3> QED BY <3>2, <3>3
  <2> QED BY <2>3, <2>4, <2>5 DEF UpgradeInv
<1>2. CASE Disconnect(c)
  <2>1. /\ ws[c] # "DISCONNECTED" /\ ws' = [ws EXCEPT ![c] = "DISCONNECTED"]
        /\ subs' = [subs EXCEPT ![c] = {}]
        /\ UNCHANGED <<tcp, sni, tls, got, fed, out, lost, owes, connects, statics>>
    BY <1>2 DEF Disconnect, Set
  <2>2. wbio' \in [Clients -> Seq(Bytes)] /\ \A d \in Clients \ {c} : wbio'[d] = wbio[d]
    BY <1>2, <1>c DEF Disconnect, GenerateFrame, Bytes
  <2>3. TypeInv'
    BY <1>a, <2>1, <2>2 DEF TypeInv, WsStates
  <2>4. ASSUME NEW d \in Clients PROVE FirstTry(d)'
    <3>1. CASE d # c
      BY <1>a, <1>b, <2>1, <2>2, <3>1 DEF FirstTry
    <3>2. CASE d = c
      BY <1>a, <1>b, <2>1, <3>2 DEF FirstTry
    <3> QED BY <3>1, <3>2
  <2> QED BY <2>3, <2>4 DEF UpgradeInv
<1>3. ASSUME NEW k \in Keys, Subscribe(c, k) \/ Unsubscribe(c, k) PROVE TypeInv' /\ UpgradeInv'
  <2>1. /\ ws[c] = "CONNECTED"
        /\ UNCHANGED <<ws, tcp, sni, tls, got, fed, out, lost, owes, connects, statics>>
    BY <1>3 DEF Subscribe, Unsubscribe, SendTextMessage
  <2>2. subs' \in [Clients -> SUBSET Keys]
    <3>1. \E S \in SUBSET Keys : subs' = [subs EXCEPT ![c] = S]
      <4>1. subs[c] \cup {k} \in SUBSET Keys /\ subs[c] \ {k} \in SUBSET Keys
        BY <1>a
      <4> QED BY <1>3, <4>1 DEF Subscribe, Unsubscribe, Set
    <3> QED BY <1>a, <3>1
  <2>3. wbio' \in [Clients -> Seq(Bytes)] /\ \A d \in Clients \ {c} : wbio'[d] = wbio[d]
    BY <1>3, <1>c DEF Subscribe, Unsubscribe, SendTextMessage, GenerateFrame, Bytes
  <2>4. TypeInv'
    BY <2>1, <2>2, <2>3 DEF TypeInv
  <2>5. ASSUME NEW d \in Clients PROVE FirstTry(d)'
    <3>1. CASE d # c
      BY <1>b, <2>1, <2>3, <3>1 DEF FirstTry
    <3>2. CASE d = c
      BY <1>b, <2>1, <3>2 DEF FirstTry
    <3> QED BY <3>1, <3>2
  <2> QED BY <2>4, <2>5 DEF UpgradeInv
<1> QED BY <1>1, <1>2, <1>3

LEMMA ClientInductive ==
  Spec => [](TypeInv /\ UpgradeInv)
<1>1. Init => TypeInv /\ UpgradeInv
  <2> SUFFICES ASSUME Init PROVE TypeInv /\ UpgradeInv
    OBVIOUS
  <2>1. TypeInv
    BY DEF Init, TypeInv, WsStates, TcpStates, TlsStates, Statics
  <2>2. UpgradeInv
    BY DEF Init, UpgradeInv, FirstTry
  <2> QED BY <2>1, <2>2
<1>2. (TypeInv /\ UpgradeInv) /\ [Next]_vars => (TypeInv /\ UpgradeInv)'
  <2> SUFFICES ASSUME TypeInv, UpgradeInv, [Next]_vars PROVE TypeInv' /\ UpgradeInv'
    OBVIOUS
  <2>a. ASSUME NEW c \in Clients, NEW kind, NEW n \in Nat, Arrives(c, kind, n), tcp[c] # "CLOSED"
        PROVE  TypeInv' /\ UpgradeInv'
    <3>1. owes' = [owes EXCEPT ![c] = out'[c] # out[c]]
      BY <2>a DEF Arrives, Set
    <3>2. owes' \in [Clients -> BOOLEAN]
      BY <3>1 DEF TypeInv
    <3>3. RxConnecting(c, kind, n) \/ RxOther(c, kind, n) \/ RxUpgrade(c, kind)
      BY <2>a DEF Arrives
    <3> QED BY <2>a, <3>2, <3>3, RxConnectingKeeps, RxLaterKeeps
  <2>1. ASSUME NEW c \in Clients, SynAckArrives(c) \/ AckArrives(c) \/ FinArrives(c)
        PROVE  TypeInv' /\ UpgradeInv'
    <3>1. tcp[c] # "CLOSED"
      BY <2>1 DEF SynAckArrives, AckArrives, FinArrives
    <3>2. \E kind : Arrives(c, kind, 0)
      BY <2>1 DEF SynAckArrives, AckArrives, FinArrives
    <3> QED BY <2>a, <3>1, <3>2
  <2>2. ASSUME NEW c \in Clients, FlightArrives(c) PROVE TypeInv' /\ UpgradeInv'
    <3>1. got[c] \in Nat /\ Flight \in Nat
      BY WebSocketAssumption DEF TypeInv
    <3>2. PICK n \in 1..(Flight - got[c]) : Arrives(c, "data", n)
      BY <2>2 DEF FlightArrives
    <3>3. n \in Nat
      BY <3>1
    <3>4. tcp[c] # "CLOSED"
      BY <2>2 DEF FlightArrives
    <3> QED BY <2>a, <3>2, <3>3, <3>4
  <2>3. ASSUME UNCHANGED vars PROVE TypeInv' /\ UpgradeInv'
    BY <2>3 DEF vars, TypeInv, UpgradeInv, FirstTry
  <2> QED BY <2>1, <2>2, <2>3, AppKeeps DEF Next
<1> QED BY <1>1, <1>2, PTL DEF Spec

-----------------------------------------------------------------------------
\* The state is well-formed; error_with_data_count, which process_rx() of all
\* clients shares, never passes its limit, and TLS is given no more than TCP
\* has delivered.
THEOREM ClientTypeCorrect == Spec => []TypeOK
<1>1. TypeInv => TypeOK
  BY DEF TypeInv, TypeOK, WsStates, TcpStates, Statics
<1> QED BY <1>1, ClientInductive, PTL

\* A client that is connected for the first time has sent at most one upgrade
\* request, although process_rx() generates the request twice, neither call
\* returns it, and other clients may have set client_hello_sent before; and
\* exactly one, right after it finished TLS, unless send_data() had no mbuf or
\* no connection for some of its bytes.
THEOREM UpgradeSentOnce == Spec => []OneUpgrade
<1>1. UpgradeInv => OneUpgrade
  <2> SUFFICES ASSUME UpgradeInv, NEW c \in Clients, ws[c] = "CONNECTED", connects[c] = 1
               PROVE  OneGet(out[c]) /\ (lost[c] \/ out[c] = <<"SYN", "HELLO", "FINISHED", "GET">>)
    BY DEF OneUpgrade, OneGet
  <2> QED BY DEF UpgradeInv, FirstTry
<1> QED BY <1>1, ClientInductive, PTL
=============================================================================
