--------------------- MODULE BoostWebSocketClientProofs ---------------------
(***************************************************************************)
(* Proofs about BoostWebSocketClient, for every set of messages, every     *)
(* retry limit and every number of failures.                               *)
(***************************************************************************)
EXTENDS BoostWebSocketClient, TLAPS

DueIn(q, K) == \E i \in DOMAIN q : q[i].h \in K

-----------------------------------------------------------------------------
(* Sequences of handlers.                                                  *)

\* A handler record built by Due is a handler.
LEMMA DueType ==
  ASSUME NEW k \in OpKinds \cup Msgs, NEW ok \in BOOLEAN
  PROVE  Due(k, ok) \in Handler /\ Due(k, ok).h = k
BY DEF Due, Handler

\* A sequence of one handler.
LEMMA OneHandler ==
  ASSUME NEW e \in Handler
  PROVE  <<e>> \in Seq(Handler) /\ Len(<<e>>) = 1 /\ <<e>>[1] = e
OBVIOUS

\* Concatenation keeps what is due on either side.
LEMMA ConcatDue ==
  ASSUME NEW q \in Seq(Handler), NEW r \in Seq(Handler), NEW K
  PROVE  DueIn(q, K) \/ DueIn(r, K) => DueIn(q \o r, K)
<1>1. ASSUME NEW i \in DOMAIN q, q[i].h \in K PROVE DueIn(q \o r, K)
  <2>1. i \in DOMAIN (q \o r) /\ (q \o r)[i] = q[i]
    OBVIOUS
  <2> QED BY <1>1, <2>1 DEF DueIn
<1>2. ASSUME NEW i \in DOMAIN r, r[i].h \in K PROVE DueIn(q \o r, K)
  <2>1. Len(q) + i \in DOMAIN (q \o r) /\ (q \o r)[Len(q) + i] = r[i]
    OBVIOUS
  <2> QED BY <1>2, <2>1 DEF DueIn
<1> QED BY <1>1, <1>2 DEF DueIn

\* The completions of the operations of a destroyed stream are handlers, one
\* for each operation that was outstanding on it.
LEMMA AbortedType ==
  ASSUME waiting \subseteq StreamOps
  PROVE  /\ AllAborted \in Seq(Handler)
         /\ "read" \in waiting => DueIn(AllAborted, {"read"})
         /\ \A k \in waiting : DueIn(AllAborted, LifeOps)
<1>1. \A k \in StreamOps : Aborted(k) \in Seq(Handler)
  <2> TAKE k \in StreamOps
  <2>1. Due(k, FALSE) \in Handler
    BY DueType DEF OpKinds, LifeOps
  <2>2. <<Due(k, FALSE)>> \in Seq(Handler)
    BY <2>1, OneHandler, Zenon
  <2>3. <<>> \in Seq(Handler)
    OBVIOUS
  <2> QED BY <2>2, <2>3 DEF Aborted
<1>2. \A k \in waiting : DueIn(Aborted(k), {k})
  <2> TAKE k \in waiting
  <2>1. Due(k, FALSE) \in Handler /\ Due(k, FALSE).h = k
    BY DueType DEF OpKinds, LifeOps
  <2>2. DueIn(<<Due(k, FALSE)>>, {k})
    <3> DEFINE e == Due(k, FALSE)
    <3>1. 1 \in DOMAIN <<e>> /\ <<e>>[1] = e
      OBVIOUS
    <3> HIDE DEF e
    <3> QED BY <2>1, <3>1 DEF DueIn, e
  <2> QED BY <2>2 DEF Aborted
<1> DEFINE c == Aborted("connect")
           s == Aborted("ssl")
           h == Aborted("handshake")
           r == Aborted("read")
<1>3. /\ c \in Seq(Handler) /\ s \in Seq(Handler)
      /\ h \in Seq(Handler) /\ r \in Seq(Handler)
  BY <1>1 DEF StreamOps
<1>4. AllAborted = ((c \o s) \o h) \o r
  BY DEF AllAborted
<1>5. /\ "connect" \in waiting => DueIn(c, {"connect"})
      /\ "ssl" \in waiting => DueIn(s, {"ssl"})
      /\ "handshake" \in waiting => DueIn(h, {"handshake"})
      /\ "read" \in waiting => DueIn(r, {"read"})
  BY <1>2
<1> HIDE DEF c, s, h, r
<1>6. /\ c \o s \in Seq(Handler) /\ (c \o s) \o h \in Seq(Handler)
      /\ AllAborted \in Seq(Handler)
  BY <1>3, <1>4
<1>7. ASSUME NEW K, DueIn(c, K) \/ DueIn(s, K) \/ DueIn(h, K) \/ DueIn(r, K)
      PROVE  DueIn(AllAborted, K)
  BY <1>3, <1>4, <1>6, <1>7, ConcatDue
<1>8. ASSUME NEW K, NEW k \in LifeOps, DueIn(K, {k}) PROVE DueIn(K, LifeOps)
  BY <1>8 DEF DueIn
<1> QED BY <1>5, <1>6, <1>7, <1>8 DEF StreamOps, LifeOps

\* Replacing the stream keeps every handler that is due, with its kind.
LEMMA ReplacingType ==
  ASSUME NEW q \in Seq(Handler), waiting \subseteq StreamOps
  PROVE  /\ AfterReplacing(q) \in Seq(Handler)
         /\ \A K : DueIn(q, K) => DueIn(AfterReplacing(q), K)
         /\ "read" \in waiting => DueIn(AfterReplacing(q), {"read"})
<1> DEFINE out == [i \in DOMAIN q |-> Outdated(q[i])]
<1>1. \A i \in DOMAIN q : Outdated(q[i]) \in Handler /\ Outdated(q[i]).h = q[i].h
  <2> TAKE i \in DOMAIN q
  <2>1. q[i] \in Handler
    OBVIOUS
  <2>2. CASE q[i].h \in {"ssl", "handshake", "read"}
    <3>1. Due(q[i].h, FALSE) \in Handler /\ Due(q[i].h, FALSE).h = q[i].h
      BY <2>2, DueType DEF OpKinds, LifeOps, StreamOps
    <3> QED BY <2>2, <3>1 DEF Outdated
  <2>3. CASE q[i].h \notin {"ssl", "handshake", "read"}
    BY <2>1, <2>3 DEF Outdated
  <2> QED BY <2>2, <2>3
<1>2. out \in Seq(Handler) /\ Len(out) = Len(q) /\ DOMAIN out = DOMAIN q
  BY <1>1
<1>3. \A i \in DOMAIN q : out[i].h = q[i].h
  BY <1>1
<1>4. AfterReplacing(q) = out \o AllAborted
  BY DEF AfterReplacing
<1> HIDE DEF out
<1>5. AllAborted \in Seq(Handler)
  BY AbortedType
<1>6. ASSUME NEW K, DueIn(q, K) PROVE DueIn(AfterReplacing(q), K)
  <2>1. DueIn(out, K)
    BY <1>2, <1>3, <1>6 DEF DueIn
  <2> QED BY <1>2, <1>4, <1>5, <2>1, ConcatDue
<1>7. ASSUME "read" \in waiting PROVE DueIn(AfterReplacing(q), {"read"})
  BY <1>2, <1>4, <1>5, <1>7, AbortedType, ConcatDue
<1> QED BY <1>2, <1>4, <1>5, <1>6, <1>7

\* Appending a handler keeps those that are due and adds its own kind.
LEMMA AppendDue ==
  ASSUME NEW q \in Seq(Handler), NEW e \in Handler
  PROVE  /\ Append(q, e) \in Seq(Handler)
         /\ \A K : DueIn(q, K) => DueIn(Append(q, e), K)
         /\ \A K : e.h \in K => DueIn(Append(q, e), K)
<1>1. Append(q, e) \in Seq(Handler) /\ Len(Append(q, e)) = Len(q) + 1
  OBVIOUS
<1>2. ASSUME NEW K, DueIn(q, K) PROVE DueIn(Append(q, e), K)
  <2>1. PICK i \in DOMAIN q : q[i].h \in K
    BY <1>2 DEF DueIn
  <2>2. i \in DOMAIN Append(q, e) /\ Append(q, e)[i] = q[i]
    BY <2>1
  <2> QED BY <2>1, <2>2 DEF DueIn
<1>3. ASSUME NEW K, e.h \in K PROVE DueIn(Append(q, e), K)
  <2>1. Len(q) + 1 \in DOMAIN Append(q, e) /\ Append(q, e)[Len(q) + 1] = e
    OBVIOUS
  <2> QED BY <1>3, <2>1 DEF DueIn
<1> QED BY <1>1, <1>2, <1>3

\* Running a handler removes no handler of another kind.
LEMMA TailDue ==
  ASSUME NEW q \in Seq(Handler), q # <<>>
  PROVE  /\ Tail(q) \in Seq(Handler)
         /\ Head(q) \in Handler
         /\ \A K : DueIn(q, K) /\ Head(q).h \notin K => DueIn(Tail(q), K)
<1>1. Tail(q) \in Seq(Handler) /\ Head(q) \in Handler /\ Head(q) = q[1]
  OBVIOUS
<1>2. ASSUME NEW K, DueIn(q, K), Head(q).h \notin K PROVE DueIn(Tail(q), K)
  <2>1. PICK i \in DOMAIN q : q[i].h \in K
    BY <1>2 DEF DueIn
  <2>2. i # 1
    BY <1>1, <1>2, <2>1
  <2>3. i - 1 \in DOMAIN Tail(q) /\ Tail(q)[i - 1] = q[i]
    BY <2>1, <2>2
  <2> QED BY <2>1, <2>3 DEF DueIn
<1> QED BY <1>1, <1>2

-----------------------------------------------------------------------------
(* Type correctness.                                                       *)

\* schedule_reconnect() keeps the retry counter within its limit.
LEMMA ScheduleType ==
  ASSUME TypeOK, ScheduleReconnect
  PROVE  /\ connState' \in {"Disconnected", "WaitingRetry"}
         /\ retryCount' \in 0 .. RetryMax
         /\ timerArmed' \in BOOLEAN
         /\ connState' # "Disconnected" => timerArmed'
<1>1. CASE ScheduleReconnect_GiveUp
  BY <1>1 DEF TypeOK, ScheduleReconnect_GiveUp
<1>2. CASE ScheduleReconnect_Arm
  <2>1. retryCount' \in 0 .. RetryMax
    BY <1>2, RetryAssumption DEF TypeOK, ScheduleReconnect_Arm
  <2>2. timerArmed' = TRUE /\ connState' = "WaitingRetry"
    BY <1>2 DEF ScheduleReconnect_Arm
  <2> QED BY <2>1, <2>2
<1> QED BY <1>1, <1>2 DEF ScheduleReconnect

\* What a broken connection leaves behind.
LEMMA BrokenType ==
  ASSUME TypeOK, NEW q \in Seq(Handler), ConnectionBroken(q)
  PROVE  /\ connected' = FALSE
         /\ connState' \in {"Disconnected", "Connecting", "Connected", "WaitingRetry"}
         /\ retryCount' \in 0 .. RetryMax
         /\ timerArmed' \in BOOLEAN
         /\ ready' \in Seq(Handler)
         /\ stopped' \in BOOLEAN
         /\ io' \in {"none", "running", "dead"}
         /\ RetryEnabled => connState' = "Disconnected" \/ timerArmed'
<1>1. CASE RetryEnabled
  BY <1>1, ScheduleType DEF ConnectionBroken, TypeOK
<1>2. CASE ~RetryEnabled
  <2>1. Append(q, Due("close", TRUE)) \in Seq(Handler)
    BY DueType, AppendDue DEF OpKinds
  <2> QED BY <1>2, <2>1 DEF ConnectionBroken, CloseOnIoThread, TypeOK
<1> QED BY <1>1, <1>2

\* Starting an operation keeps what is due and leaves the operation
\* outstanding or, refused, due.
LEMMA InitiateType ==
  ASSUME TypeOK, NEW q \in Seq(Handler), NEW k \in StreamOps, Initiate(k, q)
  PROVE  /\ waiting' \subseteq StreamOps
         /\ k \in waiting'
         /\ ready' \in Seq(Handler)
         /\ \A K : DueIn(q, K) => DueIn(ready', K)
<1>1. Due(k, FALSE) \in Handler
  BY DueType DEF OpKinds, LifeOps
<1>2. /\ Append(q, Due(k, FALSE)) \in Seq(Handler)
      /\ \A K : DueIn(q, K) => DueIn(Append(q, Due(k, FALSE)), K)
  BY <1>1, AppendDue, Zenon
<1>3. waiting' \subseteq StreamOps /\ k \in waiting'
  BY DEF Initiate, TypeOK
<1>4. ready' = Append(q, Due(k, FALSE)) \/ ready' = q
  BY DEF Initiate
<1> QED BY <1>2, <1>3, <1>4

\* The handler that runs leaves a sequence of handlers behind.
LEMMA RunsType ==
  ASSUME TypeOK, NEW k, Runs(k)
  PROVE  /\ Tail(ready) \in Seq(Handler)
         /\ Head(ready).h = k
         /\ io = "running" /\ ~stopped /\ ioPc = "idle"
         /\ \A K : DueIn(ready, K) /\ k \notin K => DueIn(Tail(ready), K)
BY TailDue DEF Runs, IoFree, TypeOK

\* Every action keeps the types.
LEMMA TypeStep ==
  ASSUME TypeOK, [Next]_vars
  PROVE  TypeOK'
<1> USE DEF stateVars, ioVars, threadVars, budget
<1>1. CASE OnTimer
  <2>1. Tail(ready) \in Seq(Handler)
    BY <1>1, RunsType DEF OnTimer
  <2>2. ready' \in Seq(Handler)
    BY <1>1, <2>1, ReplacingType DEF OnTimer, TypeOK
  <2>3. CASE connState' = "Connecting" /\ resolving' = resolving + 1
                /\ UNCHANGED <<retryCount, timerArmed, faults>>
    BY <1>1, <2>2, <2>3 DEF OnTimer, TypeOK
  <2>4. CASE faults > 0 /\ faults' = faults - 1 /\ ScheduleReconnect /\ UNCHANGED resolving
    BY <1>1, <2>2, <2>4, ScheduleType, BudgetAssumption DEF OnTimer, TypeOK
  <2> QED BY <1>1, <2>3, <2>4 DEF OnTimer
<1>2. ASSUME NEW k \in StreamOps \cup {"resolve"}, NEW l \in StreamOps, ChainStep(k, l)
      PROVE  TypeOK'
  <2>1. Tail(ready) \in Seq(Handler)
    BY <1>2, RunsType DEF ChainStep
  <2>2. CASE Initiate(l, Tail(ready)) /\ UNCHANGED <<connState, retryCount, timerArmed>>
    BY <1>2, <2>1, <2>2, InitiateType DEF ChainStep, TypeOK
  <2>3. CASE ScheduleReconnect /\ ready' = Tail(ready) /\ UNCHANGED waiting
    BY <1>2, <2>1, <2>3, ScheduleType DEF ChainStep, TypeOK
  <2> QED BY <1>2, <2>2, <2>3 DEF ChainStep
<1>3. CASE OnHandshake
  <2>1. Tail(ready) \in Seq(Handler)
    BY <1>3, RunsType DEF OnHandshake
  <2>2. CASE Succeeded
    BY <1>3, <2>1, <2>2, RetryAssumption DEF OnHandshake, TypeOK
  <2>3. CASE ~Succeeded
    BY <1>3, <2>1, <2>3, ScheduleType DEF OnHandshake, TypeOK
  <2> QED BY <2>2, <2>3
<1>4. CASE OnRead
  <2>1. Tail(ready) \in Seq(Handler)
    BY <1>4, RunsType DEF OnRead
  <2>2. CASE Succeeded
    BY <1>4, <2>1, <2>2, InitiateType DEF OnRead, TypeOK, StreamOps
  <2>3. CASE ~Succeeded
    BY <1>4, <2>1, <2>3, BrokenType DEF OnRead, TypeOK
  <2> QED BY <2>2, <2>3
<1>5. ASSUME NEW m \in Msgs, RunPost(m) PROVE TypeOK'
  <2>1. Tail(ready) \in Seq(Handler)
    BY <1>5, RunsType DEF RunPost
  <2>2. CASE RunPost_NotConnected
    BY <1>5, <2>1, <2>2 DEF RunPost, RunPost_NotConnected, TypeOK
  <2>3. CASE RunPost_Written(m)
    BY <1>5, <2>1, <2>3 DEF RunPost, RunPost_Written, TypeOK
  <2>4. CASE RunPost_Throws
    <3>1. writeErrors' \in 0 .. MaxWriteErrors
      BY <2>4, BudgetAssumption DEF RunPost_Throws, TypeOK
    <3> QED BY <1>5, <2>1, <2>4, <3>1, BrokenType DEF RunPost, RunPost_Throws, TypeOK
  <2> QED BY <1>5, <2>2, <2>3, <2>4 DEF RunPost
<1>6. CASE RunClose \/ IoReturns
  BY <1>6, RunsType DEF RunClose, IoReturns, TypeOK
<1>7. CASE TimerExpires
  BY <1>7, DueType, AppendDue DEF TimerExpires, TypeOK, OpKinds, LifeOps
<1>8. CASE ResolveCompletes
  <2>1. PICK ok \in BOOLEAN : ready' = Append(ready, Due("resolve", ok))
    BY <1>8, Zenon DEF ResolveCompletes
  <2>2. ready' \in Seq(Handler)
    <3>1. Due("resolve", ok) \in Handler
      BY <2>1, DueType DEF OpKinds, LifeOps
    <3>2. ready \in Seq(Handler)
      BY DEF TypeOK
    <3> QED BY <2>1, <3>1, <3>2, AppendDue, Zenon
  <2>3. faults' \in 0 .. MaxFaults /\ resolving' \in Nat
    <3>1. /\ faults' = faults \/ (faults > 0 /\ faults' = faults - 1)
          /\ resolving > 0 /\ resolving' = resolving - 1
      BY <1>8, Zenon DEF ResolveCompletes
    <3> QED BY <3>1, BudgetAssumption DEF TypeOK
  <2> QED BY <1>8, <2>2, <2>3 DEF ResolveCompletes, TypeOK
<1>9. ASSUME NEW k \in StreamOps, StreamOpCompletes(k) PROVE TypeOK'
  <2>1. PICK ok \in BOOLEAN : ready' = Append(ready, Due(k, ok))
    BY <1>9, Zenon DEF StreamOpCompletes
  <2>2. ready' \in Seq(Handler)
    <3>1. Due(k, ok) \in Handler
      BY <2>1, DueType DEF OpKinds, LifeOps
    <3>2. ready \in Seq(Handler)
      BY DEF TypeOK
    <3> QED BY <2>1, <3>1, <3>2, AppendDue, Zenon
  <2>3. faults' \in 0 .. MaxFaults
    <3>1. faults' = faults \/ (faults > 0 /\ faults' = faults - 1)
      BY <1>9, Zenon DEF StreamOpCompletes
    <3> QED BY <3>1, BudgetAssumption DEF TypeOK
  <2>4. stage' \in {"none", "new", "tcp", "tls", "open", "down"}
    BY <1>9 DEF StreamOpCompletes, TypeOK, LeadsTo, StreamOps
  <2> QED BY <1>9, <2>2, <2>3, <2>4 DEF StreamOpCompletes, TypeOK
<1>10. CASE NetworkFails
  BY <1>10, BudgetAssumption DEF NetworkFails, TypeOK
<1>11. CASE Connect
  <2>1. ready' \in Seq(Handler)
    BY <1>11, ReplacingType DEF Connect, Connect_Prologue, TypeOK
  <2>2. io' \in {"none", "running", "dead"}
    BY <1>11 DEF Connect, Connect_Prologue, TypeOK
  <2>3. CASE Connect_Succeeds
    BY <1>11, <2>1, <2>2, <2>3, RetryAssumption
    DEF Connect, Connect_Prologue, Connect_Succeeds, TypeOK, CallerPcs, StreamOps
  <2>4. CASE Connect_Fails
    <3>1. /\ connState' \in {"Disconnected", "WaitingRetry"}
          /\ retryCount' \in 0 .. RetryMax
          /\ timerArmed' \in BOOLEAN
      BY <2>4, ScheduleType DEF Connect_Fails, TypeOK
    <3>2. faults' \in 0 .. MaxFaults
      BY <2>4, BudgetAssumption DEF Connect_Fails, TypeOK
    <3> QED BY <1>11, <2>1, <2>2, <2>4, <3>1, <3>2
            DEF Connect, Connect_Prologue, Connect_Fails, TypeOK, CallerPcs
  <2> QED BY <1>11, <2>3, <2>4 DEF Connect
<1>12. ASSUME NEW m \in Msgs, Send(m) PROVE TypeOK'
  BY <1>12 DEF Send, TypeOK, CallerPcs
<1>13. CASE SendPosts
  <2>1. Due(caller, TRUE) \in Handler
    BY <1>13, DueType DEF SendPosts
  <2> QED BY <1>13, <2>1, AppendDue DEF SendPosts, TypeOK, CallerPcs
<1>14. CASE Close
  <2>1. Due("close", TRUE) \in Handler
    BY DueType DEF OpKinds
  <2> QED BY <1>14, <2>1, AppendDue DEF Close, TypeOK, CallerPcs
<1>15. CASE CloseContinues
  BY <1>15 DEF CloseContinues, CloseStops, CloseJoins, TypeOK, CallerPcs
<1>16. CASE SimulateNetworkFailure
  <2>1. ready' \in Seq(Handler)
    BY <1>16, AbortedType DEF SimulateNetworkFailure, TypeOK
  <2> QED BY <1>16, <2>1, BudgetAssumption DEF SimulateNetworkFailure, TypeOK
<1>17. ASSUME NEW m \in Msgs, CallbackSend(m) PROVE TypeOK'
  <2>1. Due(m, TRUE) \in Handler
    BY DueType
  <2> QED BY <1>17, <2>1, AppendDue DEF CallbackSend, TypeOK
<1>18. CASE CallbackReturn
  <2>1. ready \in Seq(Handler)
    BY DEF TypeOK
  <2> QED BY <1>18, <2>1, InitiateType DEF CallbackReturn, TypeOK, StreamOps
<1>19. CASE UNCHANGED vars
  BY <1>19 DEF vars, TypeOK
<1> QED
  BY <1>1, <1>2, <1>3, <1>4, <1>5, <1>6, <1>7, <1>8, <1>9, <1>10, <1>11,
     <1>12, <1>13, <1>14, <1>15, <1>16, <1>17, <1>18, <1>19
  DEF Next, IoThread, Environment, Owner, Callback, OnResolve, OnConnect,
      OnSslHandshake, StreamOps

\* The client's state is always well-formed; in particular the retry counter
\* never exceeds retry_max_attempts_.
THEOREM TypeCorrect == Spec => []TypeOK
<1>1. Init => TypeOK
  <2> SUFFICES ASSUME Init PROVE TypeOK
    OBVIOUS
  <2>1. ready \in Seq(Handler)
    BY DEF Init
  <2>2. retryCount \in 0 .. RetryMax /\ resolving \in Nat
    BY RetryAssumption DEF Init
  <2>3. faults \in 0 .. MaxFaults /\ writeErrors \in 0 .. MaxWriteErrors
    BY BudgetAssumption DEF Init
  <2>4. connected \in BOOLEAN /\ timerArmed \in BOOLEAN /\ stopped \in BOOLEAN
    BY Zenon DEF Init
  <2> QED BY <2>1, <2>2, <2>3, <2>4 DEF Init, TypeOK, CallerPcs
<1> QED BY <1>1, TypeStep, PTL DEF Spec

-----------------------------------------------------------------------------
(* A connected client listens.                                             *)

\* Every action keeps ListensWhileConnected.
LEMMA ListensStep ==
  ASSUME TypeOK, ListensWhileConnected, [Next]_vars
  PROVE  ListensWhileConnected'
<1> USE DEF stateVars, ioVars, threadVars, budget
<1> DEFINE Listens == "read" \in waiting \/ DueIn(ready, {"read"}) \/ ioPc = "callback"
<1>a. connected => Listens
  BY DEF ListensWhileConnected, IsDue, DueIn
<1>b. ASSUME connected' => Listens' PROVE ListensWhileConnected'
  BY <1>b DEF ListensWhileConnected, IsDue, DueIn
<1> SUFFICES connected' => Listens'
  BY <1>b
<1>c. ready \in Seq(Handler) /\ waiting \subseteq StreamOps
  BY DEF TypeOK
<1>d. "read" \in StreamOps /\ \A m \in Msgs : m \notin {"read"}
  BY MsgsAssumption DEF StreamOps, LifeOps, OpKinds
<1>1. CASE OnTimer
  <2>1. DueIn(ready, {"read"}) => DueIn(Tail(ready), {"read"})
    BY <1>1, RunsType DEF OnTimer
  <2>2. Tail(ready) \in Seq(Handler) /\ ioPc = "idle"
    BY <1>1, RunsType DEF OnTimer
  <2>3. /\ DueIn(Tail(ready), {"read"}) => DueIn(ready', {"read"})
        /\ "read" \in waiting => DueIn(ready', {"read"})
    BY <1>1, <1>c, <2>2, ReplacingType DEF OnTimer
  <2> QED BY <1>1, <1>a, <2>1, <2>2, <2>3 DEF OnTimer
<1>2. ASSUME NEW k \in (StreamOps \cup {"resolve"}) \ {"read"}, NEW l \in StreamOps,
             ChainStep(k, l)
      PROVE  connected' => Listens'
  <2>1. /\ DueIn(ready, {"read"}) => DueIn(Tail(ready), {"read"})
        /\ Tail(ready) \in Seq(Handler)
    BY <1>2, RunsType DEF ChainStep
  <2>2. connected' = connected /\ ioPc' = ioPc
    BY <1>2 DEF ChainStep
  <2>3. CASE Initiate(l, Tail(ready))
    <3>1. DueIn(Tail(ready), {"read"}) => DueIn(ready', {"read"})
      BY <2>1, <2>3, InitiateType
    <3>2. waiting \subseteq waiting'
      BY <2>3 DEF Initiate
    <3> QED BY <1>a, <2>1, <2>2, <3>1, <3>2
  <2>4. CASE ready' = Tail(ready) /\ UNCHANGED waiting
    BY <1>a, <2>1, <2>2, <2>4
  <2> QED BY <1>2, <2>3, <2>4 DEF ChainStep
<1>3. CASE OnHandshake
  <2>1. DueIn(ready, {"read"}) => DueIn(Tail(ready), {"read"})
    BY <1>3, RunsType DEF OnHandshake
  <2> QED BY <1>3, <1>a, <2>1 DEF OnHandshake
<1>4. CASE OnRead
  <2>1. Tail(ready) \in Seq(Handler)
    BY <1>4, RunsType DEF OnRead
  <2>2. CASE Succeeded
    BY <1>4, <1>d, <2>1, <2>2, InitiateType DEF OnRead
  <2>3. CASE ~Succeeded
    BY <1>4, <2>1, <2>3, BrokenType DEF OnRead
  <2> QED BY <2>2, <2>3
<1>5. ASSUME NEW m \in Msgs, RunPost(m) PROVE connected' => Listens'
  <2>1. /\ DueIn(ready, {"read"}) => DueIn(Tail(ready), {"read"})
        /\ Tail(ready) \in Seq(Handler)
    BY <1>5, <1>d, RunsType DEF RunPost
  <2>2. CASE RunPost_NotConnected \/ RunPost_Written(m)
    BY <1>5, <1>a, <2>1, <2>2 DEF RunPost, RunPost_NotConnected, RunPost_Written
  <2>3. CASE RunPost_Throws
    BY <2>1, <2>3, BrokenType DEF RunPost_Throws
  <2> QED BY <1>5, <2>2, <2>3 DEF RunPost
<1>6. CASE RunClose
  <2>1. DueIn(ready, {"read"}) => DueIn(Tail(ready), {"read"})
    BY <1>6, RunsType DEF RunClose
  <2> QED BY <1>6, <1>a, <2>1 DEF RunClose
<1>7. CASE TimerExpires
  <2>1. Due("timer", TRUE) \in Handler
    BY DueType DEF OpKinds, LifeOps
  <2>2. DueIn(ready, {"read"}) => DueIn(ready', {"read"})
    BY <1>7, <1>c, <2>1, AppendDue, Zenon DEF TimerExpires
  <2> QED BY <1>7, <1>a, <2>2 DEF TimerExpires
<1>8. CASE ResolveCompletes
  <2>1. PICK ok \in BOOLEAN : ready' = Append(ready, Due("resolve", ok))
    BY <1>8, Zenon DEF ResolveCompletes
  <2>2. Due("resolve", ok) \in Handler
    BY DueType DEF OpKinds, LifeOps
  <2>3. DueIn(ready, {"read"}) => DueIn(ready', {"read"})
    BY <1>c, <2>1, <2>2, AppendDue, Zenon
  <2> QED BY <1>8, <1>a, <2>3, Zenon DEF ResolveCompletes
<1>9. ASSUME NEW k \in StreamOps, StreamOpCompletes(k) PROVE connected' => Listens'
  <2>1. PICK ok \in BOOLEAN : ready' = Append(ready, Due(k, ok))
    BY <1>9, Zenon DEF StreamOpCompletes
  <2>2. Due(k, ok) \in Handler /\ Due(k, ok).h = k
    BY DueType DEF OpKinds, LifeOps
  <2>3. /\ DueIn(ready, {"read"}) => DueIn(ready', {"read"})
        /\ k = "read" => DueIn(ready', {"read"})
    BY <1>c, <2>1, <2>2, AppendDue, Zenon
  <2>4. waiting' = waiting \ {k} /\ connected' = connected /\ ioPc' = ioPc
    BY <1>9, Zenon DEF StreamOpCompletes
  <2> QED BY <1>a, <2>3, <2>4
<1>10. CASE Connect
  <2>1. CASE Connect_Succeeds
    BY <2>1 DEF Connect_Succeeds
  <2>2. CASE Connect_Fails
    BY <2>2 DEF Connect_Fails
  <2> QED BY <1>10, <2>1, <2>2 DEF Connect
<1>11. CASE SendPosts
  <2>1. Due(caller, TRUE) \in Handler
    BY <1>11, DueType DEF SendPosts
  <2>2. DueIn(ready, {"read"}) => DueIn(ready', {"read"})
    BY <1>11, <1>c, <2>1, AppendDue, Zenon DEF SendPosts
  <2> QED BY <1>11, <1>a, <2>2 DEF SendPosts
<1>12. CASE Close
  BY <1>12 DEF Close
<1>13. CASE SimulateNetworkFailure
  <2>1. AllAborted \in Seq(Handler) /\ ("read" \in waiting => DueIn(AllAborted, {"read"}))
    BY <1>c, AbortedType
  <2>2. DueIn(ready, {"read"}) \/ DueIn(AllAborted, {"read"}) => DueIn(ready \o AllAborted, {"read"})
    BY <1>c, <2>1, ConcatDue
  <2> QED BY <1>13, <1>a, <2>1, <2>2 DEF SimulateNetworkFailure
<1>14. CASE CallbackReturn
  BY <1>14, <1>c, <1>d, InitiateType DEF CallbackReturn
<1>15. ASSUME NEW m \in Msgs, CallbackSend(m) PROVE connected' => Listens'
  BY <1>15 DEF CallbackSend
<1>16. ASSUME NEW m \in Msgs, Send(m) PROVE connected' => Listens'
  BY <1>16, <1>a DEF Send
<1>17. CASE IoReturns \/ NetworkFails \/ CloseContinues
  BY <1>17, <1>a DEF IoReturns, NetworkFails, CloseContinues, CloseStops, CloseJoins
<1>18. CASE UNCHANGED vars
  BY <1>18, <1>a DEF vars
<1> QED
  BY <1>1, <1>2, <1>3, <1>4, <1>5, <1>6, <1>7, <1>8, <1>9, <1>10, <1>11,
     <1>12, <1>13, <1>14, <1>15, <1>16, <1>17, <1>18
  DEF Next, IoThread, Environment, Owner, Callback, OnResolve, OnConnect,
      OnSslHandshake, StreamOps

\* A client that says it is connected always has a read outstanding, due, or
\* about to be started by the on_handshake that is running.
THEOREM ClientListens == Spec => []ListensWhileConnected
<1>1. Init => ListensWhileConnected
  BY DEF Init, ListensWhileConnected
<1> QED BY <1>1, TypeCorrect, ListensStep, PTL DEF Spec

-----------------------------------------------------------------------------
(* No error path loses the client.                                         *)

\* Every action keeps NeverOrphaned.  A handler of LifeOps leaves an activity
\* of its own behind; every other step keeps those there are.
LEMMA NeverOrphanedStep ==
  ASSUME TypeOK, TypeOK', NeverOrphaned, [Next]_vars
  PROVE  NeverOrphaned'
<1> USE DEF stateVars, ioVars, threadVars, budget
<1> DEFINE Kept == \/ timerArmed \/ resolving > 0 \/ waiting # {}
                   \/ ioPc = "callback" \/ DueIn(ready, LifeOps)
           Guard == RetryEnabled /\ caller # "new" /\ ~stopped
           Lives == Guard => connState = "Disconnected" \/ Kept
<1>a. Lives
  BY DEF NeverOrphaned, Alive, IsDue, DueIn
<1>b. Lives' => NeverOrphaned'
  BY DEF NeverOrphaned, Alive, IsDue, DueIn
<1> SUFFICES Lives'
  BY <1>b
<1>c. ready \in Seq(Handler) /\ waiting \subseteq StreamOps
  BY DEF TypeOK
<1>d. \A m \in Msgs \cup {"close"} : m \notin LifeOps
  BY MsgsAssumption DEF StreamOps, LifeOps, OpKinds
<1>e. ASSUME NEW e \in Handler, ready' = Append(ready, e)
      PROVE  /\ DueIn(ready, LifeOps) => DueIn(ready', LifeOps)
             /\ e.h \in LifeOps => DueIn(ready', LifeOps)
  BY <1>c, <1>e, AppendDue, Zenon
<1>f. ASSUME ScheduleReconnect PROVE Lives'
  BY <1>f, ScheduleType
<1>g. ASSUME NEW q \in Seq(Handler), NEW k \in StreamOps, Initiate(k, q) PROVE Lives'
  BY <1>g, InitiateType
<1>1. CASE OnTimer
  <2>1. CASE ScheduleReconnect
    BY <2>1, <1>f
  <2>2. CASE resolving' = resolving + 1
    BY <2>2 DEF TypeOK
  <2> QED BY <1>1, <2>1, <2>2 DEF OnTimer
<1>2. ASSUME NEW k \in StreamOps \cup {"resolve"}, NEW l \in StreamOps, ChainStep(k, l)
      PROVE  Lives'
  <2>1. Tail(ready) \in Seq(Handler)
    BY <1>2, RunsType DEF ChainStep
  <2> QED BY <1>2, <1>f, <1>g, <2>1 DEF ChainStep
<1>3. CASE OnHandshake
  BY <1>3, <1>f DEF OnHandshake
<1>4. ASSUME NEW q \in Seq(Handler), ConnectionBroken(q) PROVE Lives'
  BY <1>4, BrokenType
<1>5. CASE OnRead
  <2>1. Tail(ready) \in Seq(Handler)
    BY <1>5, RunsType DEF OnRead
  <2> QED BY <1>5, <1>4, <1>g, <2>1 DEF OnRead, StreamOps
<1>6. ASSUME NEW m \in Msgs, RunPost(m) PROVE Lives'
  <2>1. /\ DueIn(ready, LifeOps) => DueIn(Tail(ready), LifeOps)
        /\ Tail(ready) \in Seq(Handler)
    BY <1>6, <1>d, RunsType DEF RunPost
  <2>2. CASE RunPost_NotConnected \/ RunPost_Written(m)
    BY <1>6, <1>a, <2>1, <2>2 DEF RunPost, RunPost_NotConnected, RunPost_Written
  <2>3. CASE RunPost_Throws
    BY <1>4, <2>1, <2>3 DEF RunPost_Throws
  <2> QED BY <1>6, <2>2, <2>3 DEF RunPost
<1>7. CASE RunClose
  <2>1. DueIn(ready, LifeOps) => DueIn(Tail(ready), LifeOps)
    BY <1>7, <1>d, RunsType DEF RunClose
  <2> QED BY <1>7, <1>a, <2>1 DEF RunClose
<1>8. CASE TimerExpires
  <2>1. Due("timer", TRUE) \in Handler /\ Due("timer", TRUE).h \in LifeOps
    BY DueType DEF OpKinds, LifeOps
  <2>2. DueIn(ready', LifeOps)
    BY <1>8, <1>e, <2>1, Zenon DEF TimerExpires
  <2> QED BY <2>2
<1>9. CASE ResolveCompletes
  <2>1. PICK ok \in BOOLEAN : ready' = Append(ready, Due("resolve", ok))
    BY <1>9, Zenon DEF ResolveCompletes
  <2>2. Due("resolve", ok) \in Handler /\ Due("resolve", ok).h \in LifeOps
    BY DueType DEF OpKinds, LifeOps
  <2>3. DueIn(ready', LifeOps)
    BY <1>e, <2>1, <2>2, Zenon
  <2> QED BY <2>3
<1>10. ASSUME NEW k \in StreamOps, StreamOpCompletes(k) PROVE Lives'
  <2>1. PICK ok \in BOOLEAN : ready' = Append(ready, Due(k, ok))
    BY <1>10, Zenon DEF StreamOpCompletes
  <2>2. Due(k, ok) \in Handler /\ Due(k, ok).h \in LifeOps
    BY DueType DEF OpKinds, LifeOps
  <2>3. DueIn(ready', LifeOps)
    BY <1>e, <2>1, <2>2, Zenon
  <2> QED BY <2>3
<1>11. CASE Connect
  <2>1. CASE Connect_Succeeds
    BY <2>1 DEF Connect_Succeeds
  <2>2. CASE Connect_Fails
    BY <2>2, <1>f DEF Connect_Fails
  <2> QED BY <1>11, <2>1, <2>2 DEF Connect
<1>12. CASE SendPosts
  <2>1. Due(caller, TRUE) \in Handler
    BY <1>12, DueType DEF SendPosts
  <2>2. DueIn(ready, LifeOps) => DueIn(ready', LifeOps)
    BY <1>12, <1>e, <2>1, Zenon DEF SendPosts
  <2>3. caller # "new"
    BY <1>12, MsgsAssumption DEF SendPosts
  <2> QED BY <1>12, <1>a, <2>2, <2>3 DEF SendPosts
<1>13. CASE Close
  <2>1. Due("close", TRUE) \in Handler
    BY DueType DEF OpKinds
  <2>2. DueIn(ready, LifeOps) => DueIn(ready', LifeOps)
    BY <1>13, <1>e, <2>1, Zenon DEF Close
  <2> QED BY <1>13, <1>a, <2>2 DEF Close
<1>14. CASE SimulateNetworkFailure
  <2>1. /\ AllAborted \in Seq(Handler)
        /\ \A k \in waiting : DueIn(AllAborted, LifeOps)
    BY <1>c, AbortedType
  <2>2. DueIn(ready, LifeOps) \/ DueIn(AllAborted, LifeOps)
          => DueIn(ready \o AllAborted, LifeOps)
    BY <1>c, <2>1, ConcatDue
  <2> QED BY <1>14, <1>a, <2>1, <2>2 DEF SimulateNetworkFailure
<1>15. CASE CallbackReturn
  BY <1>15, <1>c, <1>g DEF CallbackReturn, StreamOps
<1>16. ASSUME NEW m \in Msgs, CallbackSend(m) PROVE Lives'
  BY <1>16 DEF CallbackSend
<1>17. ASSUME NEW m \in Msgs, Send(m) PROVE Lives'
  BY <1>17, <1>a DEF Send
<1>18. CASE IoReturns \/ NetworkFails \/ CloseContinues
  BY <1>18, <1>a DEF IoReturns, NetworkFails, CloseContinues, CloseStops, CloseJoins
<1>19. CASE UNCHANGED vars
  BY <1>19, <1>a DEF vars
<1> QED
  BY <1>1, <1>2, <1>3, <1>5, <1>6, <1>7, <1>8, <1>9, <1>10, <1>11, <1>12,
     <1>13, <1>14, <1>15, <1>16, <1>17, <1>18, <1>19
  DEF Next, IoThread, Environment, Owner, Callback, OnResolve, OnConnect,
      OnSslHandshake, StreamOps

\* With retries enabled, a client that was asked to connect, was not closed
\* and has not given up always has something under way that will carry it on.
THEOREM ClientNeverOrphaned == Spec => []NeverOrphaned
<1>1. Init => NeverOrphaned
  BY DEF Init, NeverOrphaned
<1> QED BY <1>1, TypeCorrect, TypeStep, NeverOrphanedStep, PTL DEF Spec

\* on_reconnect_ runs on a running I/O thread, and there is no I/O thread
\* before connect() and after close().
ClientThreads ==
  /\ ioPc = "callback" => io = "running"
  /\ caller \in {"new", "closed"} => io = "none"

\* Every action keeps ClientThreads, whatever owns the client.
LEMMA ClientThreadsStep ==
  ASSUME TypeOK, ClientThreads, [Next]_vars
  PROVE  ClientThreads'
<1> USE DEF stateVars, ioVars, threadVars, budget, ClientThreads
<1>a. \A m \in Msgs : m \notin {"new", "closed", "idle"}
  BY MsgsAssumption
<1>1. CASE Connect
  BY <1>1 DEF Connect, Connect_Prologue
<1>2. CASE OnHandshake
  BY <1>2 DEF OnHandshake, Runs, IoFree
<1>3. ASSUME NEW q, ConnectionBroken(q), io = "running", ioPc = "idle",
             UNCHANGED <<ioPc, caller>>
      PROVE  ClientThreads'
  BY <1>3 DEF ConnectionBroken, CloseOnIoThread
<1>4. CASE OnRead
  BY <1>4, <1>3 DEF OnRead, Runs, IoFree
<1>5. ASSUME NEW m \in Msgs, RunPost(m) PROVE ClientThreads'
  BY <1>5, <1>3 DEF RunPost, Runs, IoFree, RunPost_NotConnected, RunPost_Written,
                    RunPost_Throws
<1>6. CASE IoReturns \/ CloseContinues \/ Close \/ SendPosts \/ CallbackReturn
  BY <1>6, <1>a DEF IoReturns, CloseContinues, CloseStops, CloseJoins, Close, SendPosts,
              CallbackReturn, TypeOK
<1>7. ASSUME NEW m \in Msgs, Send(m) PROVE ClientThreads'
  BY <1>7, <1>a DEF Send
<1>8. CASE UNCHANGED threadVars
  BY <1>8
<1>9. ASSUME NEW k, NEW l, ChainStep(k, l) PROVE UNCHANGED threadVars
  BY <1>9 DEF ChainStep
<1>10. OnTimer \/ RunClose \/ TimerExpires \/ ResolveCompletes \/ NetworkFails
         \/ SimulateNetworkFailure => UNCHANGED threadVars
  BY Zenon DEF OnTimer, RunClose, TimerExpires, ResolveCompletes, NetworkFails,
               SimulateNetworkFailure
<1>11. ASSUME NEW k \in StreamOps, StreamOpCompletes(k) PROVE UNCHANGED threadVars
  BY <1>11, Zenon DEF StreamOpCompletes
<1>12. ASSUME NEW m \in Msgs, CallbackSend(m) PROVE UNCHANGED threadVars
  BY <1>12 DEF CallbackSend
<1>13. CASE UNCHANGED vars
  BY <1>13 DEF vars
<1> QED
  BY <1>1, <1>2, <1>4, <1>5, <1>6, <1>7, <1>8, <1>9, <1>10, <1>11, <1>12, <1>13
  DEF Next, IoThread, Environment, Owner, Callback, OnResolve, OnConnect,
      OnSslHandshake

\* A closed client without an I/O thread: only the network and the timer move.
LEMMA QuietStep ==
  ASSUME TypeOK, ClientThreads, [Next]_vars, caller = "closed", caller' = "closed"
  PROVE  UNCHANGED <<stateVars, written, threadVars>>
<1> USE DEF stateVars, ioVars, threadVars, budget
<1>a. io = "none" /\ ioPc = "idle"
  BY DEF ClientThreads, TypeOK
<1>b. \A m \in Msgs : m # "closed"
  BY MsgsAssumption
<1>1. ~IoThread
  BY <1>a DEF IoThread, OnTimer, OnResolve, OnConnect, OnSslHandshake, ChainStep,
              OnHandshake, OnRead, RunClose, IoReturns, RunPost, Runs, IoFree
<1>2. ~Callback
  BY <1>a DEF Callback, CallbackReturn, CallbackSend
<1>3. ~Owner
  BY <1>b DEF Owner, Connect, Connect_Prologue, Close, CloseContinues, CloseStops,
              CloseJoins, SendPosts, SimulateNetworkFailure, Send
<1>4. ASSUME NEW k \in StreamOps, StreamOpCompletes(k)
      PROVE  UNCHANGED <<stateVars, written, threadVars>>
  BY <1>4, Zenon DEF StreamOpCompletes
<1>5. TimerExpires \/ ResolveCompletes \/ NetworkFails
        => UNCHANGED <<stateVars, written, threadVars>>
  BY Zenon DEF TimerExpires, ResolveCompletes, NetworkFails
<1>6. CASE UNCHANGED vars
  BY <1>6 DEF vars
<1> QED BY <1>1, <1>2, <1>3, <1>4, <1>5, <1>6 DEF Next, Environment

\* After close() has returned, and until connect() is called again, neither a
\* handler nor on_reconnect_() runs: whatever was due, armed or running then.
THEOREM ClientQuietAfterClose == Spec => QuietAfterClose
<1>1. Init => ClientThreads
  BY DEF Init, ClientThreads
<1>2. TypeOK /\ ClientThreads /\ [Next]_vars =>
        [caller = "closed" /\ caller' = "closed" =>
           UNCHANGED <<stateVars, written, threadVars>>]_vars
  BY QuietStep
<1> QED
  BY <1>1, <1>2, TypeCorrect, ClientThreadsStep, PTL DEF Spec, QuietAfterClose
=============================================================================
