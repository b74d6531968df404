---------------------- MODULE ExchangeConnectionProofs ----------------------
(***************************************************************************)
(* What is proved of the client with an arbitrary owner holds of a         *)
(* connection's client, and every remembered subscription reaches the      *)
(* stream that is up.                                                      *)
(***************************************************************************)
EXTENDS ExchangeConnection, BoostWebSocketClientProofs

\* Every step of a connection is a step of its client or leaves it alone.
LEMMA ConnStep ==
  ASSUME [ConnNext]_allVars
  PROVE  [Next]_vars
<1> USE DEF Next, Owner, Callback
<1>1. CASE ConnConnect
  BY <1>1 DEF ConnConnect
<1>2. CASE ConnCalls
  <2>1. ASSUME NEW S, Subscribe(S) PROVE UNCHANGED vars
    BY <2>1 DEF Subscribe
  <2>2. ASSUME NEW m \in Orders, SendOrder(m) PROVE Next
    BY <2>2, MsgsSplit DEF SendOrder
  <2>3. (ConnDestroy => UNCHANGED vars) /\ (ConnSimulateDisconnect => Next)
    BY DEF ConnDestroy, ConnSimulateDisconnect
  <2> QED BY <1>2, <2>1, <2>2, <2>3 DEF ConnCalls
<1>3. CASE ConnContinues
  <2>1. ASSUME NEW m \in Instruments, SubscribeSends(m) PROVE Next
    BY <2>1, MsgsSplit DEF SubscribeSends
  <2>2. ConnClose => Next
    BY DEF ConnClose
  <2> QED BY <1>3, <2>1, <2>2 DEF ConnContinues, SubscribeTests
<1>4. CASE ConnIo \/ ConnEnvironment
  BY <1>4 DEF ConnIo, ConnEnvironment
<1>5. CASE ConnResubscribe
  <2>1. ASSUME NEW m \in Instruments, ResubscribeSends(m) PROVE Next
    BY <2>1, MsgsSplit DEF ResubscribeSends
  <2> QED BY <1>5, <2>1 DEF ConnResubscribe, ResubscribeBegins, ResubscribeEnds, ResubscribeCrashes
<1>6. CASE UNCHANGED allVars
  BY <1>6 DEF allVars
<1> QED BY <1>1, <1>2, <1>3, <1>4, <1>5, <1>6 DEF ConnNext

\* Hence a connection's client behaves as one with an arbitrary owner.
LEMMA ConnImplementsClient == ConnSpec => Spec
<1>1. ConnInit => Init
  BY DEF ConnInit
<1> QED BY <1>1, ConnStep, PTL DEF ConnSpec, Spec

\* A connected exchange connection always has a read under way.
THEOREM ConnListens == ConnSpec => []ListensWhileConnected
BY ConnImplementsClient, ClientListens

\* No interleaving of subscribe, send, resubscribe and the client's handlers
\* loses a connection that retries.
THEOREM ConnNeverOrphaned == ConnSpec => []NeverOrphaned
BY ConnImplementsClient, ClientNeverOrphaned

-----------------------------------------------------------------------------
(* Type correctness.                                                       *)

\* The part of ConnTypeOK that is about the connection's own variables.
ConnTypes ==
  /\ active \subseteq Instruments
  /\ app \in {"idle", "testing", "sending", "destroyed", "crashed"}
  /\ todo \subseteq Instruments
  /\ resub \in BOOLEAN
  /\ resubTodo \subseteq Instruments

\* Every action keeps the connection's own variables in their types.
LEMMA ConnTypesStep ==
  ASSUME ConnTypes, [ConnNext]_allVars
  PROVE  ConnTypes'
<1>1. CASE ConnConnect
  BY <1>1 DEF ConnConnect, ConnTypes
<1>2. CASE ConnCalls
  <2>1. ASSUME NEW S \in SUBSET Instruments, Subscribe(S) PROVE ConnTypes'
    BY <2>1 DEF Subscribe, ConnTypes
  <2>2. ASSUME NEW m \in Orders, SendOrder(m) PROVE ConnTypes'
    BY <2>2 DEF SendOrder, ConnTypes, connVars
  <2>3. ConnDestroy => ConnTypes'
    BY DEF ConnDestroy, ConnTypes
  <2>4. ConnSimulateDisconnect => ConnTypes'
    BY DEF ConnSimulateDisconnect, ConnTypes, connVars
  <2> QED BY <1>2, <2>1, <2>2, <2>3, <2>4 DEF ConnCalls
<1>3. CASE ConnContinues
  <2>1. ASSUME NEW m \in Instruments, SubscribeSends(m) PROVE ConnTypes'
    BY <2>1 DEF SubscribeSends, ConnTypes
  <2>2. SubscribeTests => ConnTypes'
    BY DEF SubscribeTests, ConnTypes
  <2>3. UNCHANGED connVars => ConnTypes'
    BY DEF connVars, ConnTypes
  <2> QED BY <1>3, <2>1, <2>2, <2>3 DEF ConnContinues, ConnClose
<1>4. CASE ConnIo \/ ConnEnvironment
  BY <1>4 DEF ConnIo, ConnEnvironment, ConnTypes, connVars
<1>5. CASE ConnResubscribe
  <2>1. ASSUME NEW m \in Instruments, ResubscribeSends(m) PROVE ConnTypes'
    BY <2>1 DEF ResubscribeSends, ConnTypes
  <2>2. ResubscribeBegins \/ ResubscribeEnds \/ ResubscribeCrashes => ConnTypes'
    BY DEF ResubscribeBegins, ResubscribeEnds, ResubscribeCrashes, ConnTypes
  <2> QED BY <1>5, <2>1, <2>2 DEF ConnResubscribe
<1>6. CASE UNCHANGED allVars
  BY <1>6 DEF allVars, connVars, ConnTypes
<1> QED BY <1>1, <1>2, <1>3, <1>4, <1>5, <1>6 DEF ConnNext

\* The state of a connection is always well-formed: only instruments are
\* remembered as subscriptions and only they are sent by subscribe() and
\* resubscribe(), and the client underneath is well-formed.
THEOREM ConnTypeCorrect == ConnSpec => []ConnTypeOK
<1>1. ConnInit => ConnTypes
  BY Zenon DEF ConnInit, ConnTypes
<1>2. ConnSpec => []ConnTypes
  BY <1>1, ConnTypesStep, PTL DEF ConnSpec
<1>3. ConnTypes /\ TypeOK => ConnTypeOK
  BY DEF ConnTypes, ConnTypeOK
<1> QED BY <1>2, <1>3, ConnImplementsClient, TypeCorrect, PTL

-----------------------------------------------------------------------------
(* Every remembered subscription reaches the stream that is up.            *)

\* A handshake that succeeded, and whose handler has not run yet.
Shaken(q) == \E i \in DOMAIN q : q[i].h = "handshake" /\ q[i].ok

\* A successful handshake stays due when handlers are added.
LEMMA ShakenConcat ==
  ASSUME NEW q \in Seq(Handler), NEW r \in Seq(Handler), Shaken(q)
  PROVE  Shaken(q \o r)
<1>1. PICK i \in DOMAIN q : q[i].h = "handshake" /\ q[i].ok
  BY DEF Shaken
<1>2. i \in DOMAIN (q \o r) /\ (q \o r)[i] = q[i]
  OBVIOUS
<1> QED BY <1>1, <1>2 DEF Shaken

LEMMA ShakenAppend ==
  ASSUME NEW q \in Seq(Handler), NEW e \in Handler
  PROVE  /\ Shaken(q) => Shaken(Append(q, e))
         /\ e.h = "handshake" /\ e.ok => Shaken(Append(q, e))
<1>1. ASSUME Shaken(q) PROVE Shaken(Append(q, e))
  <2>1. PICK i \in DOMAIN q : q[i].h = "handshake" /\ q[i].ok
    BY <1>1 DEF Shaken
  <2>2. i \in DOMAIN Append(q, e) /\ Append(q, e)[i] = q[i]
    OBVIOUS
  <2> QED BY <2>1, <2>2 DEF Shaken
<1>2. ASSUME e.h = "handshake" /\ e.ok PROVE Shaken(Append(q, e))
  <2>1. Len(q) + 1 \in DOMAIN Append(q, e) /\ Append(q, e)[Len(q) + 1] = e
    OBVIOUS
  <2> QED BY <1>2, <2>1 DEF Shaken
<1> QED BY <1>1, <1>2

\* Only its own handler takes a successful handshake away.
LEMMA ShakenTail ==
  ASSUME NEW q \in Seq(Handler), q # <<>>, Shaken(q),
         ~(Head(q).h = "handshake" /\ Head(q).ok)
  PROVE  Shaken(Tail(q))
<1>1. PICK i \in DOMAIN q : q[i].h = "handshake" /\ q[i].ok
  BY DEF Shaken
<1>2. i # 1
  BY <1>1
<1>3. i - 1 \in DOMAIN Tail(q) /\ Tail(q)[i - 1] = q[i]
  BY <1>1, <1>2
<1> QED BY <1>1, <1>3 DEF Shaken

\* Starting an operation does not take it away either.
LEMMA ShakenInitiate ==
  ASSUME NEW q \in Seq(Handler), NEW k \in StreamOps, Initiate(k, q), Shaken(q)
  PROVE  Shaken(ready')
<1>1. Due(k, FALSE) \in Handler
  BY DueType DEF OpKinds, LifeOps
<1>2. Shaken(Append(q, Due(k, FALSE)))
  BY <1>1, ShakenAppend, Zenon
<1> QED BY <1>2 DEF Initiate

\* m has been written on this stream or is on its way to it.
Coming(m) ==
  m \in written \/ DueIn(ready, {m}) \/ m \in todo \/ caller = m \/ m \in resubTodo

\* The stream is up and is not waiting for on_reconnect_ to begin.
Up == connected /\ stage = "open" /\ ~Shaken(ready) /\ (ioPc = "callback" => resub)

\* Which thread can be where: a connect() never meets a running on_reconnect_.
ThreadInv ==
  /\ app \in {"idle", "destroyed"} => todo = {}
  /\ app = "destroyed" => active = {}
  /\ resub => ioPc = "callback"
  /\ ~resub => resubTodo = {}
  /\ ioPc = "callback" => io = "running"
  /\ caller \in {"new", "closed"} => io = "none"

\* Strengthening of SubscriptionsCovered: it also holds inside on_reconnect_
\* once resubscribe() has fixed what it will send, and while the handler of
\* a failed handshake is due.
CoverInv == ThreadInv /\ (Up => \A m \in active : Coming(m))

\* The handlers and the environment leave on_reconnect_ alone, except that
\* on_handshake calls it.
LEMMA CallbackKept ==
  ASSUME IoThread \/ Environment \/ Connect \/ Close \/ CloseContinues \/ SendPosts
           \/ SimulateNetworkFailure
  PROVE  ioPc = "callback" => ioPc' = "callback"
<1> USE DEF stateVars, ioVars, threadVars, budget
<1>1. ASSUME NEW k, NEW l, ChainStep(k, l) PROVE ioPc' = ioPc
  BY <1>1 DEF ChainStep
<1>2. ASSUME NEW m \in Msgs, RunPost(m) PROVE ioPc' = ioPc
  BY <1>2 DEF RunPost
<1>3. ASSUME NEW k \in StreamOps, StreamOpCompletes(k) PROVE ioPc' = ioPc
  BY <1>3, Zenon DEF StreamOpCompletes
<1>4. OnHandshake /\ ioPc = "callback" => ioPc' = "callback"
  BY DEF OnHandshake
<1>5. OnTimer \/ OnRead \/ RunClose \/ IoReturns => ioPc' = ioPc
  BY Zenon DEF OnTimer, OnRead, RunClose, IoReturns
<1>6. TimerExpires \/ ResolveCompletes \/ NetworkFails \/ SimulateNetworkFailure
        => ioPc' = ioPc
  BY Zenon DEF TimerExpires, ResolveCompletes, NetworkFails, SimulateNetworkFailure
<1>7. Connect \/ Close \/ CloseContinues \/ SendPosts => ioPc' = ioPc
  BY DEF Connect, Close, CloseContinues, CloseStops, CloseJoins, SendPosts
<1> QED
  BY <1>1, <1>2, <1>3, <1>4, <1>5, <1>6, <1>7
  DEF IoThread, Environment, OnResolve, OnConnect, OnSslHandshake

\* Every action keeps ThreadInv.
LEMMA ThreadStep ==
  ASSUME TypeOK, ConnTypes, ThreadInv, [ConnNext]_allVars
  PROVE  ThreadInv'
<1>a. ClientThreads'
  BY ClientThreadsStep, ConnStep DEF ThreadInv, ClientThreads
<1> DEFINE Loops == /\ app \in {"idle", "destroyed"} => todo = {}
                    /\ app = "destroyed" => active = {}
                    /\ resub => ioPc = "callback"
                    /\ ~resub => resubTodo = {}
<1>b. Loops /\ (Loops' => ThreadInv')
  BY <1>a DEF ThreadInv, ClientThreads
<1> SUFFICES Loops'
  BY <1>b
<1>1. CASE ConnConnect
  BY <1>1, <1>b, CallbackKept DEF ConnConnect
<1>2. CASE ConnCalls
  <2>1. ASSUME NEW S \in SUBSET Instruments, Subscribe(S) PROVE Loops'
    BY <2>1, <1>b DEF Subscribe, vars
  <2>2. ASSUME NEW m \in Orders, SendOrder(m) PROVE Loops'
    BY <2>2, <1>b DEF SendOrder, Send, connVars
  <2>3. ConnDestroy => Loops'
    BY <1>b DEF ConnDestroy, vars
  <2>4. ConnSimulateDisconnect => Loops'
    BY <1>b, CallbackKept DEF ConnSimulateDisconnect, connVars
  <2> QED BY <1>2, <2>1, <2>2, <2>3, <2>4 DEF ConnCalls
<1>3. CASE ConnContinues
  <2>1. ASSUME NEW m \in Instruments, SubscribeSends(m) PROVE Loops'
    BY <2>1, <1>b DEF SubscribeSends, Send
  <2>2. SubscribeTests => Loops'
    BY <1>b DEF SubscribeTests, vars
  <2>3. (SendPosts \/ Close \/ CloseContinues) /\ UNCHANGED connVars => Loops'
    BY <1>b, CallbackKept DEF connVars
  <2> QED BY <1>3, <2>1, <2>2, <2>3 DEF ConnContinues, ConnClose
<1>4. CASE ConnIo \/ ConnEnvironment
  BY <1>4, <1>b, CallbackKept DEF ConnIo, ConnEnvironment, connVars
<1>5. CASE ConnResubscribe
  <2>1. ASSUME NEW m \in Instruments, ResubscribeSends(m) PROVE Loops'
    BY <2>1, <1>b DEF ResubscribeSends, CallbackSend, threadVars
  <2>2. ResubscribeBegins => Loops'
    BY <1>b DEF ResubscribeBegins, vars
  <2>3. ResubscribeEnds => Loops'
    BY <1>b DEF ResubscribeEnds
  <2>4. ResubscribeCrashes => Loops'
    BY <1>b DEF ResubscribeCrashes, vars
  <2> QED BY <1>5, <2>1, <2>2, <2>3, <2>4 DEF ConnResubscribe
<1>6. CASE UNCHANGED allVars
  BY <1>6, <1>b DEF allVars, vars, connVars
<1> QED BY <1>1, <1>2, <1>3, <1>4, <1>5, <1>6 DEF ConnNext

\* A step of the I/O thread, the network or the owner that neither brings the
\* stream up nor loses a message on its way.
Keeps == (Up' => Up) /\ \A m \in Instruments : Up' /\ Coming(m) => Coming(m)'

\* A handler that is removed from the front, and is neither a successful
\* handshake nor a message, loses nothing.
LEMMA KeepsTail ==
  ASSUME TypeOK, NEW k, Runs(k), k \notin Msgs, ~(k = "handshake" /\ Succeeded)
  PROVE  /\ Tail(ready) \in Seq(Handler)
         /\ Shaken(ready) => Shaken(Tail(ready))
         /\ \A m \in Msgs : DueIn(ready, {m}) => DueIn(Tail(ready), {m})
<1>1. ready \in Seq(Handler) /\ ready # <<>> /\ Head(ready).h = k
  BY DEF TypeOK, Runs
<1>2. Shaken(ready) => Shaken(Tail(ready))
  BY <1>1, ShakenTail DEF Succeeded
<1> QED BY <1>1, <1>2, RunsType

\* A handler that is added loses nothing.
LEMMA KeepsAppend ==
  ASSUME TypeOK, NEW e \in Handler, ready' = Append(ready, e),
         UNCHANGED <<connected, stage, written, ioPc, caller, connVars>>
  PROVE  Keeps
<1>1. ready \in Seq(Handler)
  BY DEF TypeOK
<1>2. Shaken(ready) => Shaken(ready')
  BY <1>1, ShakenAppend
<1>3. \A m : DueIn(ready, {m}) => DueIn(ready', {m})
  BY <1>1, AppendDue, Zenon
<1>4. Up' => Up
  BY <1>2 DEF Up, connVars
<1>5. \A m : Coming(m) => Coming(m)'
  BY <1>3 DEF Coming, connVars
<1> QED BY <1>4, <1>5 DEF Keeps

\* Every handler keeps the coverage.
LEMMA KeepsIo ==
  ASSUME TypeOK, ThreadInv, IoThread, UNCHANGED connVars
  PROVE  Keeps
<1> USE DEF stateVars, ioVars, threadVars, budget, connVars
<1>a. ready \in Seq(Handler) /\ waiting \subseteq StreamOps
  BY DEF TypeOK
<1>b. StreamOps \cap Msgs = {} /\ {"resolve", "close"} \cap Msgs = {}
  BY MsgsAssumption DEF StreamOps, LifeOps, OpKinds
<1>c. Instruments \subseteq Msgs
  BY MsgsSplit
<1>d. ASSUME ~Up' PROVE Keeps
  BY <1>d DEF Keeps
<1>e. ASSUME NEW k \in StreamOps \cup {"resolve"}, NEW l \in StreamOps, Runs(k),
             ~(k = "handshake" /\ Succeeded),
             UNCHANGED <<connected, stage, written, ioPc, caller>>,
             Initiate(l, Tail(ready)) \/ ready' = Tail(ready)
      PROVE  Keeps
  <2>1. /\ Tail(ready) \in Seq(Handler)
        /\ Shaken(ready) => Shaken(Tail(ready))
        /\ \A m \in Msgs : DueIn(ready, {m}) => DueIn(Tail(ready), {m})
    BY <1>b, <1>e, KeepsTail
  <2>2. Shaken(ready) => Shaken(ready')
    BY <1>e, <2>1, ShakenInitiate
  <2>3. \A m \in Msgs : DueIn(ready, {m}) => DueIn(ready', {m})
    BY <1>e, <2>1, InitiateType
  <2>4. Up' => Up
    BY <1>e, <2>2 DEF Up
  <2>5. \A m \in Msgs : Coming(m) => Coming(m)'
    BY <1>e, <2>3 DEF Coming
  <2> QED BY <1>c, <2>4, <2>5 DEF Keeps
<1>1. CASE OnTimer
  BY <1>1, <1>d DEF OnTimer, Up
<1>2. ASSUME NEW k \in {"resolve", "connect", "ssl"}, NEW l \in StreamOps, ChainStep(k, l)
      PROVE  Keeps
  BY <1>2, <1>e DEF ChainStep, StreamOps
<1>3. CASE OnHandshake
  <2>1. CASE Succeeded
    <3>1. ioPc' = "callback" /\ ~resub'
      BY <1>3, <2>1 DEF OnHandshake, Runs, IoFree, ThreadInv
    <3> QED BY <1>d, <3>1 DEF Up
  <2>2. CASE ~Succeeded
    BY <1>3, <1>e, <2>2 DEF OnHandshake, StreamOps
  <2> QED BY <2>1, <2>2
<1>4. CASE OnRead
  <2>1. Tail(ready) \in Seq(Handler)
    BY <1>4, RunsType DEF OnRead
  <2>2. CASE Succeeded
    BY <1>4, <1>e, <2>2 DEF OnRead, StreamOps
  <2>3. CASE ~Succeeded
    BY <1>4, <1>d, <2>1, <2>3, BrokenType DEF OnRead, Up
  <2> QED BY <2>2, <2>3
<1>5. ASSUME NEW m \in Msgs, RunPost(m) PROVE Keeps
  <2>1. /\ Tail(ready) \in Seq(Handler)
        /\ \A K : DueIn(ready, K) /\ m \notin K => DueIn(Tail(ready), K)
        /\ ready # <<>> /\ Head(ready).h = m
    BY <1>5, RunsType DEF RunPost, Runs
  <2>2. m # "handshake"
    BY <1>b DEF StreamOps
  <2>3. Shaken(ready) => Shaken(Tail(ready))
    BY <1>a, <2>1, <2>2, ShakenTail
  <2>4. CASE RunPost_NotConnected
    BY <1>d, <2>4 DEF RunPost_NotConnected, Up
  <2>5. CASE RunPost_Written(m)
    <3>1. CASE stage = "open"
      <4>1. /\ written' = written \cup {m} /\ ready' = Tail(ready)
            /\ UNCHANGED <<connected, stage, ioPc, caller>>
        BY <1>5, <2>5, <3>1 DEF RunPost_Written, RunPost
      <4>2. Up' => Up
        BY <2>3, <4>1 DEF Up
      <4>3. ASSUME NEW x \in Msgs, Coming(x) PROVE Coming(x)'
        <5>1. CASE x = m
          BY <4>1, <5>1 DEF Coming
        <5>2. CASE x # m
          BY <2>1, <4>1, <4>3, <5>2 DEF Coming
        <5> QED BY <5>1, <5>2
      <4> QED BY <1>c, <4>2, <4>3 DEF Keeps
    <3>2. CASE stage # "open"
      BY <1>5, <1>d, <3>2 DEF RunPost, Up
    <3> QED BY <3>1, <3>2
  <2>6. CASE RunPost_Throws
    BY <1>d, <2>1, <2>6, BrokenType DEF RunPost_Throws, Up
  <2> QED BY <1>5, <2>4, <2>5, <2>6 DEF RunPost
<1>6. CASE RunClose
  BY <1>6, <1>d DEF RunClose, Up
<1>7. CASE IoReturns
  BY <1>7 DEF IoReturns, Keeps, Up, Coming
<1> QED
  BY <1>1, <1>2, <1>3, <1>4, <1>5, <1>6, <1>7
  DEF IoThread, OnResolve, OnConnect, OnSslHandshake, StreamOps

\* A completion keeps the coverage: the only one that opens a stream leaves
\* the handler of its handshake due.
LEMMA KeepsEnvironment ==
  ASSUME TypeOK, Environment, UNCHANGED connVars
  PROVE  Keeps
<1> USE DEF stateVars, ioVars, threadVars, budget
<1>a. ready \in Seq(Handler)
  BY DEF TypeOK
<1>1. CASE TimerExpires
  <2>1. Due("timer", TRUE) \in Handler
    BY DueType DEF OpKinds, LifeOps
  <2> QED BY <1>1, <2>1, KeepsAppend DEF TimerExpires
<1>2. CASE ResolveCompletes
  <2>1. PICK ok \in BOOLEAN : ready' = Append(ready, Due("resolve", ok))
    BY <1>2, Zenon DEF ResolveCompletes
  <2>2. Due("resolve", ok) \in Handler
    BY DueType DEF OpKinds, LifeOps
  <2> QED BY <1>2, <2>1, <2>2, KeepsAppend DEF ResolveCompletes
<1>3. CASE NetworkFails
  BY <1>3 DEF NetworkFails, Keeps, Up
<1>4. ASSUME NEW k \in StreamOps, StreamOpCompletes(k) PROVE Keeps
  <2>1. PICK ok \in BOOLEAN : /\ ready' = Append(ready, Due(k, ok))
                              /\ \/ stage = Needs[k] /\ stage' = LeadsTo[k] /\ ok
                                 \/ stage' = "down"
                                 \/ stage' = stage
    BY <1>4, Zenon DEF StreamOpCompletes
  <2>2. Due(k, ok) \in Handler /\ Due(k, ok).h = k /\ Due(k, ok).ok = ok
    BY DueType DEF OpKinds, LifeOps, Due
  <2>3. UNCHANGED <<connected, written, ioPc, caller>>
    BY <1>4, Zenon DEF StreamOpCompletes
  <2>4. CASE stage' = stage
    BY <2>1, <2>2, <2>3, <2>4, KeepsAppend
  <2>5. CASE stage' # "open"
    BY <2>5 DEF Keeps, Up
  <2>6. CASE stage = Needs[k] /\ stage' = LeadsTo[k] /\ ok /\ stage' # stage
    <3>1. k = "handshake" \/ stage' # "open"
      BY <2>6 DEF Needs, LeadsTo, StreamOps
    <3>2. k = "handshake" => Shaken(ready')
      BY <1>a, <2>1, <2>2, <2>6, ShakenAppend
    <3> QED BY <3>1, <3>2 DEF Keeps, Up
  <2> QED BY <2>1, <2>4, <2>5, <2>6
<1> QED BY <1>1, <1>2, <1>3, <1>4 DEF Environment

\* Every action keeps CoverInv.
LEMMA CoverStep ==
  ASSUME TypeOK, ConnTypes, CoverInv, [ConnNext]_allVars
  PROVE  CoverInv'
<1> USE DEF stateVars, ioVars, threadVars, budget
<1>a. ThreadInv /\ ThreadInv'
  BY ThreadStep DEF CoverInv
<1>b. Up => \A m \in active : Coming(m)
  BY DEF CoverInv
<1>c. ASSUME Up' => \A m \in active' : Coming(m)' PROVE CoverInv'
  BY <1>a, <1>c DEF CoverInv
<1>d. ASSUME Keeps, UNCHANGED connVars PROVE CoverInv'
  <2>1. active' = active /\ active \subseteq Instruments
    BY <1>d DEF connVars, ConnTypes
  <2> QED BY <1>b, <1>c, <1>d, <2>1 DEF Keeps
<1>e. active \subseteq Instruments /\ Instruments \subseteq Msgs
  BY MsgsSplit DEF ConnTypes
<1>f. ready \in Seq(Handler) /\ waiting \subseteq StreamOps
  BY DEF TypeOK
<1>g. "idle" \notin active
  BY <1>e, MsgsAssumption
<1>1. CASE ConnConnect
  <2>1. CASE Connect_Succeeds
    <3>1. connected' /\ todo' = active /\ active' = active
      BY <1>1, <2>1 DEF ConnConnect, Connect_Succeeds
    <3> QED BY <1>c, <3>1 DEF Coming
  <2>2. CASE Connect_Fails
    BY <1>c, <2>2 DEF Connect_Fails, Up
  <2> QED BY <1>1, <2>1, <2>2 DEF ConnConnect, Connect
<1>2. CASE ConnCalls
  <2>1. ASSUME NEW S \in SUBSET Instruments, Subscribe(S) PROVE CoverInv'
    <3>1. /\ UNCHANGED <<connected, stage, written, ready, ioPc, caller, resub, resubTodo>>
          /\ active' = active \cup S /\ todo' = S /\ todo = {}
      BY <1>a, <2>1 DEF Subscribe, vars, ThreadInv
    <3>2. \A m \in active : Coming(m) => Coming(m)'
      BY <3>1 DEF Coming, DueIn
    <3>3. \A m \in S : Coming(m)'
      BY <3>1 DEF Coming
    <3>4. Up' => Up
      BY <3>1 DEF Up, Shaken
    <3> QED BY <1>b, <1>c, <3>1, <3>2, <3>3, <3>4
  <2>2. ASSUME NEW m \in Orders, SendOrder(m) PROVE CoverInv'
    <3>1. /\ UNCHANGED <<connected, stage, written, ready, ioPc>> /\ caller = "idle"
          /\ UNCHANGED connVars
      BY <2>2 DEF SendOrder, Send
    <3>2. Up' => Up
      BY <3>1 DEF Up, Shaken, connVars
    <3>3. \A x \in active : Coming(x) => Coming(x)'
      BY <1>g, <3>1 DEF Coming, DueIn, connVars
    <3> QED BY <1>b, <1>c, <3>1, <3>2, <3>3 DEF connVars
  <2>3. CASE ConnDestroy
    BY <1>c, <2>3 DEF ConnDestroy
  <2>4. CASE ConnSimulateDisconnect
    BY <1>c, <2>4 DEF ConnSimulateDisconnect, SimulateNetworkFailure, Up
  <2> QED BY <1>2, <2>1, <2>2, <2>3, <2>4 DEF ConnCalls
<1>3. CASE ConnContinues
  <2>1. ASSUME NEW m \in Instruments, SubscribeSends(m) PROVE CoverInv'
    <3>1. /\ UNCHANGED <<connected, stage, written, ready, ioPc, active, resub, resubTodo>>
          /\ caller = "idle" /\ caller' = (IF connected THEN m ELSE "idle")
          /\ todo' = todo \ {m}
      BY <2>1 DEF SubscribeSends, Send
    <3>2. Up' => Up /\ connected
      BY <3>1 DEF Up, Shaken
    <3>3. ASSUME NEW x \in active, Coming(x), connected PROVE Coming(x)'
      <4>1. CASE x = m
        BY <3>1, <3>3, <4>1 DEF Coming
      <4>2. CASE x # m
        BY <1>g, <3>1, <3>3, <4>2 DEF Coming, DueIn
      <4> QED BY <4>1, <4>2
    <3> QED BY <1>b, <1>c, <3>1, <3>2, <3>3
  <2>2. CASE SubscribeTests
    <3>1. CASE connected
      <4>1. UNCHANGED <<connected, stage, written, ready, ioPc, caller, active, todo,
                        resub, resubTodo>>
        BY <2>2, <3>1 DEF SubscribeTests, vars
      <4> QED BY <1>b, <1>c, <4>1 DEF Up, Shaken, Coming, DueIn
    <3>2. CASE ~connected
      BY <1>c, <2>2, <3>2 DEF SubscribeTests, vars, Up
    <3> QED BY <3>1, <3>2
  <2>3. CASE SendPosts /\ UNCHANGED connVars
    <3>1. /\ Due(caller, TRUE) \in Handler /\ Due(caller, TRUE).h = caller
          /\ ready' = Append(ready, Due(caller, TRUE))
      BY <2>3, DueType DEF SendPosts
    <3>2. /\ \A K : DueIn(ready, K) => DueIn(ready', K)
          /\ DueIn(ready', {caller})
          /\ Shaken(ready) => Shaken(ready')
      BY <1>f, <3>1, AppendDue, ShakenAppend, Zenon
    <3>3. Up' => Up
      BY <2>3, <3>2 DEF SendPosts, Up, connVars
    <3>4. \A x \in active : Coming(x) => Coming(x)'
      BY <2>3, <3>2 DEF SendPosts, Coming, connVars
    <3> QED BY <1>b, <1>c, <2>3, <3>3, <3>4 DEF connVars
  <2>4. CASE CloseContinues /\ UNCHANGED connVars
    <3>1. /\ UNCHANGED <<connected, stage, written, ready, ioPc>>
          /\ caller \in {"stopping", "joining"}
      BY <2>4 DEF CloseContinues, CloseStops, CloseJoins
    <3>2. caller \notin active
      BY <1>e, <3>1, MsgsAssumption
    <3> QED BY <1>b, <1>c, <2>4, <3>1, <3>2 DEF Up, Shaken, Coming, DueIn, connVars
  <2>5. CASE ConnClose
    BY <1>c, <2>5 DEF ConnClose, Close, Up
  <2> QED BY <1>3, <2>1, <2>2, <2>3, <2>4, <2>5 DEF ConnContinues
<1>4. CASE ConnIo
  BY <1>4, <1>a, <1>d, KeepsIo DEF ConnIo
<1>5. CASE ConnEnvironment
  BY <1>5, <1>d, KeepsEnvironment DEF ConnEnvironment
<1>6. CASE ConnResubscribe
  <2>1. CASE ResubscribeBegins
    <3>1. CASE app = "destroyed"
      BY <1>a, <1>c, <2>1, <3>1 DEF ResubscribeBegins, ThreadInv
    <3>2. CASE app # "destroyed"
      <4>1. resubTodo' = active /\ active' = active
        BY <2>1, <3>2 DEF ResubscribeBegins
      <4> QED BY <1>c, <4>1 DEF Coming
    <3> QED BY <3>1, <3>2
  <2>2. ASSUME NEW m \in Instruments, ResubscribeSends(m) PROVE CoverInv'
    <3>1. CASE ~connected
      BY <1>c, <2>2, <3>1 DEF ResubscribeSends, CallbackSend, Up
    <3>2. CASE connected
      <4>1. Due(m, TRUE) \in Handler /\ Due(m, TRUE).h = m
        BY <1>e, DueType
      <4>2. ready' = Append(ready, Due(m, TRUE))
        BY <2>2, <3>2 DEF ResubscribeSends, CallbackSend
      <4>3. /\ \A K : DueIn(ready, K) => DueIn(ready', K)
            /\ DueIn(ready', {m})
            /\ Shaken(ready) => Shaken(ready')
        BY <1>f, <4>1, <4>2, AppendDue, ShakenAppend, Zenon
      <4>4. /\ UNCHANGED <<connected, stage, written, ioPc, caller, active, todo, resub>>
            /\ resubTodo' = resubTodo \ {m}
        BY <2>2 DEF ResubscribeSends, CallbackSend
      <4>5. Up' => Up
        BY <4>3, <4>4 DEF Up
      <4>6. ASSUME NEW x \in active, Coming(x) PROVE Coming(x)'
        <5>1. CASE x = m
          BY <4>3, <5>1 DEF Coming
        <5>2. CASE x # m
          BY <4>3, <4>4, <4>6, <5>2 DEF Coming
        <5> QED BY <5>1, <5>2
      <4> QED BY <1>b, <1>c, <4>4, <4>5, <4>6
    <3> QED BY <3>1, <3>2
  <2>3. CASE ResubscribeEnds
    <3>1. /\ UNCHANGED <<connected, stage, written, caller, active, todo, resubTodo>>
          /\ resub /\ Initiate("read", ready)
      BY <2>3 DEF ResubscribeEnds, CallbackReturn
    <3>2. /\ \A K : DueIn(ready, K) => DueIn(ready', K)
          /\ Shaken(ready) => Shaken(ready')
      BY <1>f, <3>1, InitiateType, ShakenInitiate DEF StreamOps
    <3>3. Up' => Up
      BY <3>1, <3>2 DEF Up
    <3>4. \A x \in active : Coming(x) => Coming(x)'
      BY <3>1, <3>2 DEF Coming
    <3> QED BY <1>b, <1>c, <3>1, <3>3, <3>4
  <2>4. CASE ResubscribeCrashes
    BY <1>a, <1>c, <2>4 DEF ResubscribeCrashes, ThreadInv
  <2> QED BY <1>6, <2>1, <2>2, <2>3, <2>4 DEF ConnResubscribe
<1>7. CASE UNCHANGED allVars
  <2>1. UNCHANGED <<connected, stage, written, ready, ioPc, caller, connVars>>
    BY <1>7 DEF allVars, vars
  <2> QED BY <1>b, <1>c, <2>1 DEF Up, Shaken, Coming, DueIn, connVars
<1> QED BY <1>1, <1>2, <1>3, <1>4, <1>5, <1>6, <1>7 DEF ConnNext

\* On a connection that is up, whatever interleaving of subscribe() on the
\* application's thread, the handlers on the I/O thread, failures, reconnects
\* and close() led there, every subscription the connection remembers has
\* been written on this very stream or is on its way to it.
THEOREM SubscriptionsReach == ConnSpec => []SubscriptionsCovered
<1>1. ConnInit => CoverInv
  BY DEF ConnInit, Init, CoverInv, ThreadInv, Up
<1>2. ConnTypeOK => TypeOK /\ ConnTypes
  BY DEF ConnTypeOK, ConnTypes
<1>3. ConnSpec => []CoverInv
  BY <1>1, <1>2, CoverStep, ConnTypeCorrect, PTL DEF ConnSpec
<1>4. ASSUME ConnTypeOK, CoverInv PROVE SubscriptionsCovered
  <2> SUFFICES ASSUME connected, stage = "open", ioPc = "idle", ~IsDue({"handshake"}),
                      NEW m \in active
               PROVE  m \in OnItsWay
    BY DEF SubscriptionsCovered
  <2>1. ~Shaken(ready)
    BY DEF Shaken, IsDue
  <2>2. Up /\ resubTodo = {}
    BY <1>4, <2>1 DEF Up, CoverInv, ThreadInv
  <2>3. Coming(m) /\ m \in Instruments
    BY <1>4, <2>2 DEF CoverInv, ConnTypeOK
  <2> QED BY <2>2, <2>3 DEF Coming, OnItsWay, IsDue, DueIn
<1> QED BY <1>3, <1>4, ConnTypeCorrect, PTL

-----------------------------------------------------------------------------
(* One activity at a time.                                                 *)

\* At most one of the handlers in q carries the client on.
OneLife(q) == \A i, j \in DOMAIN q : q[i].h \in LifeOps /\ q[j].h \in LifeOps => i = j

\* Adding a handler.
LEMMA OneLifeAppend ==
  ASSUME NEW q \in Seq(Handler), NEW e \in Handler
  PROVE  /\ OneLife(q) /\ e.h \notin LifeOps => OneLife(Append(q, e))
         /\ ~DueIn(q, LifeOps) => OneLife(Append(q, e))
         /\ \A K : DueIn(Append(q, e), K) => DueIn(q, K) \/ e.h \in K
<1> DEFINE a == Append(q, e)
<1>1. /\ DOMAIN a = 1 .. Len(q) + 1 /\ DOMAIN q = 1 .. Len(q) /\ Len(q) \in Nat
      /\ \A i \in DOMAIN q : a[i] = q[i]
      /\ a[Len(q) + 1] = e
  OBVIOUS
<1> HIDE DEF a
<1>2. OneLife(q) /\ e.h \notin LifeOps => OneLife(a)
  BY <1>1 DEF OneLife
<1>3. ~DueIn(q, LifeOps) => OneLife(a)
  BY <1>1 DEF OneLife, DueIn
<1>4. \A K : DueIn(a, K) => DueIn(q, K) \/ e.h \in K
  BY <1>1 DEF DueIn
<1> QED BY <1>2, <1>3, <1>4 DEF a

\* Running a handler: when it is one that carries the client on, no other is
\* left.
LEMMA OneLifeTail ==
  ASSUME NEW q \in Seq(Handler), q # <<>>, OneLife(q)
  PROVE  /\ OneLife(Tail(q))
         /\ Head(q).h \in LifeOps => ~DueIn(Tail(q), LifeOps)
         /\ \A K : DueIn(Tail(q), K) => DueIn(q, K)
         /\ Shaken(Tail(q)) => Shaken(q)
         /\ Head(q).h \in LifeOps => DueIn(q, LifeOps)
<1> DEFINE t == Tail(q)
<1>1. /\ DOMAIN t = 1 .. Len(q) - 1 /\ DOMAIN q = 1 .. Len(q) /\ Len(q) \in Nat
      /\ \A i \in DOMAIN t : i + 1 \in DOMAIN q /\ t[i] = q[i + 1]
      /\ Head(q) = q[1] /\ 1 \in DOMAIN q
  OBVIOUS
<1> HIDE DEF t
<1>2. OneLife(t)
  BY <1>1 DEF OneLife
<1>3. Head(q).h \in LifeOps => ~DueIn(t, LifeOps)
  <2> SUFFICES ASSUME q[1].h \in LifeOps, NEW i \in DOMAIN t, t[i].h \in LifeOps
               PROVE  FALSE
    BY <1>1 DEF DueIn
  <2>1. i + 1 \in DOMAIN q /\ q[i + 1].h \in LifeOps /\ i + 1 # 1
    BY <1>1
  <2> QED BY <1>1, <2>1 DEF OneLife
<1>4. \A K : DueIn(t, K) => DueIn(q, K)
  BY <1>1 DEF DueIn
<1>5. Shaken(t) => Shaken(q)
  BY <1>1 DEF Shaken
<1>6. Head(q).h \in LifeOps => DueIn(q, LifeOps)
  BY <1>1 DEF DueIn
<1> QED BY <1>2, <1>3, <1>4, <1>5, <1>6 DEF t

\* Adding a handler that is no successful handshake makes none due.
LEMMA NotShaken ==
  ASSUME NEW q \in Seq(Handler), NEW e \in Handler, ~(e.h = "handshake" /\ e.ok)
  PROVE  Shaken(Append(q, e)) => Shaken(q)
<1> DEFINE a == Append(q, e)
<1>1. /\ DOMAIN a = 1 .. Len(q) + 1 /\ DOMAIN q = 1 .. Len(q) /\ Len(q) \in Nat
      /\ \A i \in DOMAIN q : a[i] = q[i]
      /\ a[Len(q) + 1] = e
  OBVIOUS
<1> HIDE DEF a
<1>2. Shaken(a) => Shaken(q)
  BY <1>1 DEF Shaken
<1> QED BY <1>2 DEF a

\* At most one operation outstanding is at most one completion, and it fails.
LEMMA AbortedOnce ==
  ASSUME waiting \subseteq StreamOps, \A k, l \in waiting : k = l
  PROVE  \/ waiting = {} /\ AllAborted = <<>>
         \/ \E k \in StreamOps : waiting = {k} /\ AllAborted = <<Due(k, FALSE)>>
<1>1. /\ <<>> \in Seq(Handler)
      /\ \A q \in Seq(Handler) : <<>> \o q = q /\ q \o <<>> = q
  OBVIOUS
<1>2. \A k \in StreamOps : Aborted(k) \in Seq(Handler)
  <2> TAKE k \in StreamOps
  <2>1. Due(k, FALSE) \in Handler
    BY DueType DEF OpKinds, LifeOps
  <2> QED BY <1>1, <2>1, OneHandler, Zenon DEF Aborted
<1>3. \A k \in StreamOps : k \notin waiting => Aborted(k) = <<>>
  BY DEF Aborted
<1>4. CASE waiting = {}
  <2>1. /\ Aborted("connect") = <<>> /\ Aborted("ssl") = <<>>
        /\ Aborted("handshake") = <<>> /\ Aborted("read") = <<>>
    BY <1>3, <1>4 DEF StreamOps
  <2>2. AllAborted = <<>>
    BY <1>1, <2>1 DEF AllAborted
  <2> QED BY <1>4, <2>2
<1>5. ASSUME NEW k \in waiting
      PROVE  \E l \in StreamOps : waiting = {l} /\ AllAborted = <<Due(l, FALSE)>>
  <2>1. waiting = {k} /\ k \in StreamOps
    BY <1>5
  <2>2. \A l \in StreamOps : l # k => Aborted(l) = <<>>
    BY <1>3, <2>1
  <2>3. AllAborted = Aborted(k)
    <3> DEFINE c == Aborted("connect")
               s == Aborted("ssl")
               h == Aborted("handshake")
               r == Aborted("read")
    <3>1. /\ c \in Seq(Handler) /\ s \in Seq(Handler)
          /\ h \in Seq(Handler) /\ r \in Seq(Handler)
      BY <1>2 DEF StreamOps
    <3>2. /\ k # "connect" => c = <<>>
          /\ k # "ssl" => s = <<>>
          /\ k # "handshake" => h = <<>>
          /\ k # "read" => r = <<>>
      BY <2>2 DEF StreamOps
    <3>3. AllAborted = ((c \o s) \o h) \o r
      BY DEF AllAborted
    <3>4. CASE k = "connect"
      <4> HIDE DEF c, s, h, r
      <4>1. AllAborted = c
        BY <1>1, <3>1, <3>2, <3>3, <3>4, Zenon
      <4> QED BY <3>4, <4>1 DEF c
    <3>5. CASE k = "ssl"
      <4> HIDE DEF c, s, h, r
      <4>1. AllAborted = s
        BY <1>1, <3>1, <3>2, <3>3, <3>5
      <4> QED BY <3>5, <4>1 DEF s
    <3>6. CASE k = "handshake"
      <4> HIDE DEF c, s, h, r
      <4>1. AllAborted = h
        BY <1>1, <3>1, <3>2, <3>3, <3>6
      <4> QED BY <3>6, <4>1 DEF h
    <3>7. CASE k = "read"
      <4> HIDE DEF c, s, h, r
      <4>1. AllAborted = r
        BY <1>1, <3>1, <3>2, <3>3, <3>7
      <4> QED BY <3>7, <4>1 DEF r
    <3> QED BY <2>1, <3>4, <3>5, <3>6, <3>7 DEF StreamOps
  <2> QED BY <2>1, <2>3, Zenon DEF Aborted
<1> QED BY <1>4, <1>5

\* Replacing a stream with nothing outstanding changes results only: what is
\* due stays due, and no handshake counts as successful any more.
LEMMA ReplacingOnce ==
  ASSUME NEW q \in Seq(Handler), waiting = {}
  PROVE  /\ OneLife(q) => OneLife(AfterReplacing(q))
         /\ DueIn(AfterReplacing(q), LifeOps) => DueIn(q, LifeOps)
         /\ ~Shaken(AfterReplacing(q))
<1> DEFINE out == [i \in DOMAIN q |-> Outdated(q[i])]
<1>1. \A i \in DOMAIN q : /\ Outdated(q[i]) \in Handler
                          /\ Outdated(q[i]).h = q[i].h
                          /\ ~(Outdated(q[i]).h = "handshake" /\ Outdated(q[i]).ok)
  <2> TAKE i \in DOMAIN q
  <2>1. q[i] \in Handler
    OBVIOUS
  <2>2. CASE q[i].h \in {"ssl", "handshake", "read"}
    <3>1. /\ Due(q[i].h, FALSE) \in Handler
          /\ Due(q[i].h, FALSE).h = q[i].h /\ Due(q[i].h, FALSE).ok = FALSE
      BY <2>2, DueType DEF OpKinds, LifeOps, StreamOps, Due
    <3> QED BY <2>2, <3>1 DEF Outdated
  <2>3. CASE q[i].h \notin {"ssl", "handshake", "read"}
    BY <2>1, <2>3 DEF Outdated
  <2> QED BY <2>2, <2>3
<1>2. out \in Seq(Handler) /\ DOMAIN out = DOMAIN q
  BY <1>1
<1>3. \A i \in DOMAIN q : out[i] = Outdated(q[i])
  OBVIOUS
<1>4. AfterReplacing(q) = out \o AllAborted
  BY DEF AfterReplacing
<1>5. AllAborted = <<>>
  BY AbortedOnce
<1> HIDE DEF out
<1>6. AfterReplacing(q) = out
  BY <1>2, <1>4, <1>5
<1> QED BY <1>1, <1>2, <1>3, <1>6 DEF OneLife, DueIn, Shaken

\* OneActivity, about the sequence of handlers rather than its positions.
Single ==
  /\ OneLife(ready)
  /\ \A k, l \in waiting : k = l
  /\ resolving <= 1
  /\ AtMostOne(DueIn(ready, LifeOps), waiting # {} \/ resolving > 0 \/ timerArmed \/ ioPc = "callback")
  /\ AtMostOne(waiting # {}, resolving > 0 \/ timerArmed \/ ioPc = "callback")
  /\ AtMostOne(resolving > 0, timerArmed \/ ioPc = "callback")
  /\ AtMostOne(timerArmed, ioPc = "callback")

\* Nothing but the handlers that are due carries the client on.
OnlyHandlers == waiting = {} /\ resolving = 0 /\ ~timerArmed /\ ioPc = "idle"

\* Strengthening of OneActivity: a client that says it is connected is past
\* its handshake, so no write of it is refused and starts a second chain;
\* and nothing is under way before the first connect().
ActivityInv ==
  /\ Single
  /\ stage \in {"new", "tcp", "tls"} => ~connected
  /\ Shaken(ready) => stage \in {"open", "down"}
  /\ caller = "new" => OnlyHandlers /\ ~DueIn(ready, LifeOps)

\* The new state has a single activity when it is of one kind only.
LEMMA SingleIntro ==
  ASSUME TypeOK', OneLife(ready'), \A k, l \in waiting' : k = l, resolving' <= 1,
         \/ OnlyHandlers'
         \/ /\ ~DueIn(ready', LifeOps)
            /\ \/ resolving' = 0 /\ ~timerArmed' /\ ioPc' = "idle"
               \/ waiting' = {} /\ ~timerArmed' /\ ioPc' = "idle"
               \/ waiting' = {} /\ resolving' = 0 /\ ioPc' = "idle"
               \/ waiting' = {} /\ resolving' = 0 /\ ~timerArmed'
  PROVE  Single'
BY DEF Single, AtMostOne, OnlyHandlers, TypeOK

\* A handler that carries the client on is the only activity there is, and
\* unless it is on_read the client is not connected.
LEMMA SingleRuns ==
  ASSUME TypeOK, ListensWhileConnected, Single, NEW k \in LifeOps, Runs(k)
  PROVE  /\ OnlyHandlers
         /\ ~DueIn(Tail(ready), LifeOps)
         /\ Tail(ready) \in Seq(Handler)
         /\ OneLife(Tail(ready))
         /\ Shaken(Tail(ready)) => Shaken(ready)
         /\ k # "read" => ~connected
<1>1. ready \in Seq(Handler) /\ ready # <<>> /\ Head(ready).h = k
  BY DEF TypeOK, Runs
<1>2. /\ OneLife(Tail(ready)) /\ ~DueIn(Tail(ready), LifeOps)
      /\ Shaken(Tail(ready)) => Shaken(ready)
      /\ DueIn(ready, LifeOps)
  BY <1>1, OneLifeTail DEF Single
<1>3. OnlyHandlers
  BY <1>2 DEF Single, AtMostOne, OnlyHandlers, TypeOK
<1>4. ASSUME k # "read", connected PROVE FALSE
  <2>1. DueIn(ready, {"read"})
    BY <1>3, <1>4 DEF ListensWhileConnected, OnlyHandlers, IsDue, DueIn
  <2>2. DueIn(Tail(ready), {"read"})
    BY <1>4, <2>1, RunsType
  <2>3. DueIn(Tail(ready), LifeOps)
    BY <2>2 DEF DueIn, LifeOps, StreamOps
  <2> QED BY <1>2, <2>3
<1> QED BY <1>1, <1>2, <1>3, <1>4, RunsType

\* Every action of the client, with any owner that calls connect() once, keeps
\* ActivityInv, provided that no write on a broken connection throws.
LEMMA ActivityStep ==
  ASSUME TypeOK, TypeOK', ListensWhileConnected, ClientThreads, ActivityInv,
         MaxWriteErrors = 0, ~MayReopen, [Next]_vars
  PROVE  ActivityInv'
<1> USE DEF stateVars, ioVars, threadVars, budget
<1>a. /\ ready \in Seq(Handler) /\ waiting \subseteq StreamOps /\ Single
      /\ ready' \in Seq(Handler)
  BY DEF TypeOK, ActivityInv
<1>b. \A q : ~DueIn(q, LifeOps) => OneLife(q) /\ ~Shaken(q)
  BY DEF DueIn, OneLife, Shaken, LifeOps, StreamOps
<1>c. ASSUME NEW k, Runs(k) PROVE caller # "new"
  BY <1>c DEF Runs, IoFree, ClientThreads
<1>d. \A m \in Msgs : m \notin LifeOps /\ m # "new" /\ m # "handshake"
  BY MsgsAssumption DEF OpKinds, LifeOps, StreamOps
<1>e. ASSUME OneLife(ready'), DueIn(ready', LifeOps) => DueIn(ready, LifeOps),
             UNCHANGED <<waiting, resolving, timerArmed, ioPc>>
      PROVE  Single'
  BY <1>a, <1>e DEF Single, AtMostOne
<1>f. ASSUME NEW m \in Msgs \cup {"close"}, ready' = Append(ready, Due(m, TRUE))
      PROVE  /\ OneLife(ready')
             /\ DueIn(ready', LifeOps) => DueIn(ready, LifeOps)
             /\ Shaken(ready') => Shaken(ready)
  <2>1. /\ Due(m, TRUE) \in Handler /\ Due(m, TRUE).h = m
        /\ m \notin LifeOps /\ m # "handshake"
    BY <1>d, DueType DEF OpKinds, LifeOps, StreamOps
  <2>2. OneLife(ready)
    BY <1>a DEF Single
  <2> QED BY <1>a, <1>f, <2>1, <2>2, OneLifeAppend, NotShaken, Zenon
<1>g. ASSUME NEW k \in LifeOps, NEW ok \in BOOLEAN, ready' = Append(ready, Due(k, ok)),
             ~DueIn(ready, LifeOps), OnlyHandlers',
             Shaken(ready') => ~(k = "handshake" /\ ok) \/ stage' \in {"open", "down"},
             stage' \in {"new", "tcp", "tls"} => ~connected',
             caller' # "new"
      PROVE  ActivityInv'
  <2>1. Due(k, ok) \in Handler /\ Due(k, ok).h = k /\ Due(k, ok).ok = ok
    BY <1>g, DueType DEF OpKinds, Due
  <2>2. OneLife(ready')
    BY <1>a, <1>g, <2>1, OneLifeAppend, Zenon
  <2>3. Single'
    BY <1>g, <2>2, SingleIntro DEF OnlyHandlers
  <2>4. ~(k = "handshake" /\ ok) => ~Shaken(ready')
    BY <1>a, <1>b, <1>g, <2>1, NotShaken, Zenon
  <2> QED BY <1>g, <2>3, <2>4 DEF ActivityInv
<1>h. ASSUME caller' # "new", ~DueIn(ready', LifeOps),
             waiting' = {}, resolving' = 0, ioPc' = "idle",
             stage' \in {"new", "tcp", "tls"} => ~connected'
      PROVE  ActivityInv'
  <2>1. Single'
    BY <1>b, <1>h, SingleIntro
  <2> QED BY <1>b, <1>h, <2>1 DEF ActivityInv
<1>i. ASSUME NEW q \in Seq(Handler), ConnectionBroken(q), ~DueIn(q, LifeOps)
      PROVE  ~connected' /\ ~DueIn(ready', LifeOps)
  <2>1. Due("close", TRUE) \in Handler /\ Due("close", TRUE).h \notin LifeOps
    <3>1. "close" \in OpKinds \cup Msgs /\ "close" \notin LifeOps
      BY DEF OpKinds, LifeOps, StreamOps
    <3> QED BY <3>1, DueType
  <2>2. ~DueIn(Append(q, Due("close", TRUE)), LifeOps)
    BY <1>i, <2>1, OneLifeAppend, Zenon
  <2>3. ready' = q \/ ready' = Append(q, Due("close", TRUE))
    BY <1>i DEF ConnectionBroken, CloseOnIoThread
  <2> QED BY <1>i, <2>2, <2>3, BrokenType
<1>j. ASSUME NEW k \in LifeOps, NEW l \in StreamOps, Runs(k), Initiate(l, Tail(ready)),
             UNCHANGED <<connected, stage, resolving, timerArmed, ioPc, caller>>
      PROVE  ActivityInv'
  <2>1. OnlyHandlers /\ ~DueIn(Tail(ready), LifeOps)
    BY <1>a, <1>j, SingleRuns
  <2>2. waiting' = {l} /\ ready' = Tail(ready)
    BY <1>j, <2>1 DEF Initiate, OnlyHandlers
  <2>3. Single'
    BY <1>b, <1>j, <2>1, <2>2, SingleIntro DEF OnlyHandlers
  <2> QED BY <1>b, <1>c, <1>j, <2>1, <2>2, <2>3 DEF ActivityInv
<1>1. CASE OnTimer
  <2>1. /\ OnlyHandlers /\ ~DueIn(Tail(ready), LifeOps) /\ Tail(ready) \in Seq(Handler)
        /\ ~connected /\ caller # "new"
    <3>1. "timer" \in LifeOps /\ "timer" # "read" /\ Runs("timer")
      BY <1>1 DEF OnTimer, LifeOps
    <3> QED BY <1>a, <1>c, <3>1, SingleRuns
  <2>2. ~DueIn(ready', LifeOps)
    BY <1>1, <2>1, ReplacingOnce DEF OnTimer, OnlyHandlers
  <2>3. UNCHANGED <<connected, ioPc, caller>> /\ waiting' = {}
    BY <1>1, Zenon DEF OnTimer
  <2>4. CASE resolving' = resolving + 1 /\ UNCHANGED timerArmed
    <3>1. Single'
      BY <1>b, <2>1, <2>2, <2>3, <2>4, SingleIntro DEF OnlyHandlers
    <3> QED BY <1>b, <2>1, <2>2, <2>3, <3>1 DEF ActivityInv
  <2>5. CASE UNCHANGED resolving
    BY <1>h, <2>1, <2>2, <2>3, <2>5 DEF OnlyHandlers
  <2> QED BY <1>1, <2>4, <2>5 DEF OnTimer
<1>2. ASSUME NEW k \in StreamOps \cup {"resolve"}, NEW l \in StreamOps, ChainStep(k, l)
      PROVE  ActivityInv'
  <2>1. OnlyHandlers /\ ~DueIn(Tail(ready), LifeOps) /\ k \in LifeOps /\ caller # "new"
    BY <1>2, <1>a, <1>c, SingleRuns DEF ChainStep, LifeOps
  <2>2. CASE Initiate(l, Tail(ready)) /\ UNCHANGED timerArmed
    BY <1>2, <1>j, <2>1, <2>2 DEF ChainStep
  <2>3. CASE ready' = Tail(ready) /\ UNCHANGED waiting
    BY <1>2, <1>h, <2>1, <2>3 DEF ChainStep, OnlyHandlers, ActivityInv
  <2> QED BY <1>2, <2>2, <2>3 DEF ChainStep
<1>3. CASE OnHandshake
  <2>1. /\ OnlyHandlers /\ ~DueIn(Tail(ready), LifeOps) /\ caller # "new"
        /\ ready' = Tail(ready)
    BY <1>3, <1>a, <1>c, SingleRuns DEF OnHandshake, LifeOps, StreamOps
  <2>2. CASE Succeeded
    <3>1. Shaken(ready)
      <4>1. 1 \in DOMAIN ready /\ Head(ready) = ready[1]
        BY <1>3, <1>a DEF OnHandshake, Runs
      <4> QED BY <1>3, <2>2, <4>1 DEF OnHandshake, Runs, Succeeded, Shaken
    <3>2. stage' \in {"open", "down"}
      BY <1>3, <3>1 DEF OnHandshake, ActivityInv
    <3>3. Single'
      BY <1>3, <1>b, <2>1, <2>2, SingleIntro DEF OnHandshake, OnlyHandlers
    <3> QED BY <1>3, <1>b, <2>1, <3>2, <3>3 DEF OnHandshake, ActivityInv
  <2>3. CASE ~Succeeded
    BY <1>3, <1>h, <2>1, <2>3 DEF OnHandshake, OnlyHandlers, ActivityInv
  <2> QED BY <2>2, <2>3
<1>4. CASE OnRead
  <2>1. CASE Succeeded
    BY <1>4, <1>j, <2>1 DEF OnRead, LifeOps, StreamOps
  <2>2. CASE ~Succeeded
    <3>1. /\ OnlyHandlers /\ ~DueIn(Tail(ready), LifeOps) /\ caller # "new"
          /\ Tail(ready) \in Seq(Handler)
      BY <1>4, <1>a, <1>c, SingleRuns DEF OnRead, LifeOps, StreamOps
    <3>2. ~connected' /\ ~DueIn(ready', LifeOps)
      BY <1>4, <1>i, <2>2, <3>1 DEF OnRead
    <3> QED BY <1>4, <1>h, <2>2, <3>1, <3>2 DEF OnRead, OnlyHandlers
  <2> QED BY <2>1, <2>2
<1>5. ASSUME NEW m \in Msgs \cup {"close"}, Runs(m), ready' = Tail(ready),
             UNCHANGED <<connected, waiting, resolving, timerArmed, ioPc, caller>>,
             stage' \in {stage, "down"}
      PROVE  ActivityInv'
  <2>1. /\ OneLife(ready') /\ (DueIn(ready', LifeOps) => DueIn(ready, LifeOps))
        /\ Shaken(ready') => Shaken(ready)
    BY <1>5, <1>a, OneLifeTail DEF Single, Runs
  <2> QED BY <1>5, <1>c, <1>e, <2>1 DEF ActivityInv
<1>6. ASSUME NEW m \in Msgs, RunPost(m) PROVE ActivityInv'
  <2>1. ~RunPost_Throws
    BY DEF RunPost_Throws, TypeOK, ActivityInv
  <2> QED BY <1>5, <1>6, <2>1 DEF RunPost, RunPost_NotConnected, RunPost_Written
<1>7. CASE RunClose
  BY <1>7, <1>5 DEF RunClose
<1>8. CASE IoReturns \/ CloseContinues
  <2>1. /\ UNCHANGED <<connected, stage, ready, waiting, resolving, timerArmed, ioPc>>
        /\ caller' = caller \/ caller' # "new"
    BY <1>8 DEF IoReturns, CloseContinues, CloseStops, CloseJoins
  <2> QED BY <2>1 DEF ActivityInv, Single, OneLife, Shaken, DueIn, OnlyHandlers, AtMostOne
<1>9. CASE TimerExpires
  <2>1. ~DueIn(ready, LifeOps) /\ OnlyHandlers' /\ caller # "new"
    BY <1>9, <1>a DEF TimerExpires, Single, AtMostOne, OnlyHandlers, ActivityInv, TypeOK
  <2>2. ready' = Append(ready, Due("timer", TRUE)) /\ UNCHANGED <<connected, stage, caller>>
    BY <1>9 DEF TimerExpires
  <2>3. "timer" \in LifeOps /\ (stage' \in {"new", "tcp", "tls"} => ~connected')
    BY <2>2 DEF LifeOps, ActivityInv
  <2> QED BY <1>g, <2>1, <2>2, <2>3
<1>10. CASE ResolveCompletes
  <2>1. resolving > 0 /\ resolving' = resolving - 1
    BY <1>10, Zenon DEF ResolveCompletes
  <2>2. UNCHANGED <<connected, stage, caller, waiting, timerArmed, ioPc>>
    BY <1>10, Zenon DEF ResolveCompletes
  <2>3. ~DueIn(ready, LifeOps) /\ OnlyHandlers' /\ caller # "new"
    BY <1>a, <2>1, <2>2 DEF Single, AtMostOne, OnlyHandlers, ActivityInv, TypeOK
  <2>4. PICK ok \in BOOLEAN : ready' = Append(ready, Due("resolve", ok))
    BY <1>10, Zenon DEF ResolveCompletes
  <2>5. "resolve" \in LifeOps /\ (stage' \in {"new", "tcp", "tls"} => ~connected')
    BY <2>2 DEF LifeOps, ActivityInv
  <2> QED BY <1>g, <2>2, <2>3, <2>4, <2>5
<1>11. ASSUME NEW k \in StreamOps, StreamOpCompletes(k) PROVE ActivityInv'
  <2>1. k \in waiting /\ waiting' = waiting \ {k}
    BY <1>11, Zenon DEF StreamOpCompletes
  <2>2. UNCHANGED <<connected, caller, resolving, timerArmed, ioPc>>
    BY <1>11, Zenon DEF StreamOpCompletes
  <2>3. ~DueIn(ready, LifeOps) /\ OnlyHandlers' /\ caller # "new"
    BY <1>a, <2>1, <2>2 DEF Single, AtMostOne, OnlyHandlers, ActivityInv, TypeOK
  <2>4. PICK ok \in BOOLEAN : /\ ready' = Append(ready, Due(k, ok))
                              /\ \/ stage = Needs[k] /\ stage' = LeadsTo[k]
                                 \/ stage' = "down"
                                 \/ stage' = stage /\ ~ok
    BY <1>11, Zenon DEF StreamOpCompletes
  <2>5. k = "handshake" /\ ok => stage' \in {"open", "down"}
    BY <2>4 DEF LeadsTo, StreamOps
  <2>6. stage' \in {"new", "tcp", "tls"} => ~connected'
    BY <2>2, <2>4 DEF Needs, LeadsTo, StreamOps, ActivityInv
  <2>7. k \in LifeOps
    BY DEF LifeOps
  <2> QED BY <1>g, <2>2, <2>3, <2>4, <2>5, <2>6, <2>7
<1>12. CASE NetworkFails
  <2>1. UNCHANGED <<connected, ready, waiting, resolving, timerArmed, ioPc, caller>>
    BY <1>12 DEF NetworkFails
  <2>2. Single'
    BY <1>a, <1>e, <2>1 DEF Single
  <2> QED BY <1>12, <2>1, <2>2 DEF NetworkFails, ActivityInv, OnlyHandlers, DueIn
<1>13. CASE Connect
  <2>1. OnlyHandlers /\ ~DueIn(ready, LifeOps)
    BY <1>13 DEF Connect, Connect_Prologue, ActivityInv
  <2>2. ~DueIn(ready', LifeOps) /\ caller' = "idle" /\ UNCHANGED <<resolving, ioPc>>
    BY <1>13, <1>a, <2>1, ReplacingOnce DEF Connect, Connect_Prologue, OnlyHandlers
  <2>3. CASE Connect_Succeeds
    <3>1. Single'
      BY <1>b, <2>1, <2>2, <2>3, SingleIntro DEF Connect_Succeeds, OnlyHandlers
    <3> QED BY <1>b, <2>2, <2>3, <3>1 DEF Connect_Succeeds, ActivityInv
  <2>4. CASE Connect_Fails
    BY <1>h, <2>1, <2>2, <2>4 DEF Connect_Fails, OnlyHandlers
  <2> QED BY <1>13, <2>3, <2>4 DEF Connect
<1>14. CASE SendPosts
  <2>1. /\ caller \in Msgs /\ ready' = Append(ready, Due(caller, TRUE)) /\ caller' = "idle"
        /\ UNCHANGED <<connected, stage, waiting, resolving, timerArmed, ioPc>>
    BY <1>14 DEF SendPosts
  <2> QED BY <1>e, <1>f, <2>1 DEF ActivityInv
<1>15. CASE Close
  <2>1. /\ ready' = Append(ready, Due("close", TRUE)) \/ ready' = ready
        /\ caller' = "stopping" /\ ~connected'
        /\ UNCHANGED <<stage, waiting, resolving, timerArmed, ioPc>>
    BY <1>15 DEF Close
  <2>2. /\ OneLife(ready') /\ (DueIn(ready', LifeOps) => DueIn(ready, LifeOps))
        /\ Shaken(ready') => Shaken(ready)
    BY <1>a, <1>f, <2>1 DEF Single
  <2> QED BY <1>e, <2>1, <2>2 DEF ActivityInv
<1>16. CASE SimulateNetworkFailure
  <2>1. /\ waiting' = {} /\ ready' = ready \o AllAborted
        /\ stage' = IF stage = "new" THEN "new" ELSE "down"
        /\ UNCHANGED <<connected, resolving, timerArmed, ioPc, caller>>
        /\ caller = "idle"
    BY <1>16 DEF SimulateNetworkFailure
  <2>2. CASE waiting = {} /\ AllAborted = <<>>
    <3>1. ready' = ready
      BY <1>a, <2>1, <2>2
    <3>2. Single'
      BY <1>a, <1>e, <2>1, <2>2, <3>1 DEF Single
    <3> QED BY <2>1, <3>1, <3>2 DEF ActivityInv
  <2>3. ASSUME NEW k \in StreamOps, waiting = {k}, AllAborted = <<Due(k, FALSE)>>
        PROVE  ActivityInv'
    <3>1. Due(k, FALSE) \in Handler
      BY DueType DEF OpKinds, LifeOps
    <3>2. \A e \in Handler : ready \o <<e>> = Append(ready, e)
      BY <1>a
    <3>3. ready' = Append(ready, Due(k, FALSE))
      BY <2>1, <2>3, <3>1, <3>2, Zenon
    <3>4. ~DueIn(ready, LifeOps) /\ OnlyHandlers'
      BY <1>a, <2>1, <2>3 DEF Single, AtMostOne, OnlyHandlers, TypeOK
    <3>5. k \in LifeOps /\ (stage' \in {"new", "tcp", "tls"} => ~connected')
      BY <2>1 DEF LifeOps, ActivityInv
    <3> QED BY <1>g, <2>1, <3>3, <3>4, <3>5
  <2> QED BY <1>a, <2>2, <2>3, AbortedOnce DEF Single
<1>17. ASSUME NEW m \in Msgs, CallbackSend(m) PROVE ActivityInv'
  <2>1. /\ ready' = Append(ready, Due(m, TRUE)) \/ ready' = ready
        /\ UNCHANGED <<connected, stage, waiting, resolving, timerArmed, ioPc, caller>>
        /\ ioPc = "callback"
    BY <1>17 DEF CallbackSend
  <2>2. /\ OneLife(ready') /\ (DueIn(ready', LifeOps) => DueIn(ready, LifeOps))
        /\ Shaken(ready') => Shaken(ready)
    BY <1>a, <1>f, <2>1 DEF Single
  <2> QED BY <1>e, <2>1, <2>2 DEF ActivityInv, OnlyHandlers
<1>18. CASE CallbackReturn
  <2>1. /\ ioPc = "callback" /\ ioPc' = "idle" /\ Initiate("read", ready)
        /\ UNCHANGED <<connected, stage, resolving, timerArmed, caller>>
    BY <1>18 DEF CallbackReturn
  <2>2. /\ ~DueIn(ready, LifeOps) /\ waiting = {} /\ resolving = 0 /\ ~timerArmed
        /\ caller # "new"
    BY <1>a, <2>1 DEF Single, AtMostOne, TypeOK, ActivityInv, OnlyHandlers
  <2>3. ready' = ready /\ waiting' = {"read"}
    BY <2>1, <2>2 DEF Initiate
  <2>4. Single'
    BY <1>b, <2>1, <2>2, <2>3, SingleIntro
  <2> QED BY <1>b, <2>1, <2>2, <2>3, <2>4 DEF ActivityInv
<1>19. ASSUME NEW m \in Msgs, Send(m) PROVE ActivityInv'
  <2>1. /\ UNCHANGED <<connected, stage, ready, waiting, resolving, timerArmed, ioPc>>
        /\ caller' # "new"
    BY <1>19, <1>d DEF Send
  <2>2. Single'
    BY <1>a, <1>e, <2>1 DEF Single
  <2> QED BY <2>1, <2>2 DEF ActivityInv
<1>20. CASE UNCHANGED vars
  <2>1. UNCHANGED <<connected, stage, ready, waiting, resolving, timerArmed, ioPc, caller>>
    BY <1>20 DEF vars
  <2>2. Single'
    BY <1>a, <1>e, <2>1 DEF Single
  <2> QED BY <2>1, <2>2 DEF ActivityInv, OnlyHandlers
<1> QED
  BY <1>1, <1>2, <1>3, <1>4, <1>6, <1>7, <1>8, <1>9, <1>10, <1>11, <1>12,
     <1>13, <1>14, <1>15, <1>16, <1>17, <1>18, <1>19, <1>20
  DEF Next, IoThread, Environment, Owner, Callback, OnResolve, OnConnect,
      OnSslHandshake, StreamOps

\* A connection that is opened once and whose writes on a broken connection
\* do not throw never has two activities at a time: no stream is replaced
\* under an operation that uses it and no two reconnection chains run at once,
\* whatever fails and whenever.  Both hypotheses are needed: TLC shows
\* interleavings with two chains once a write throws.
THEOREM OneChain ==
  ASSUME MaxWriteErrors = 0, ~MayReopen
  PROVE  ConnSpec => []OneActivity
<1>1. ConnInit => ActivityInv /\ ClientThreads
  <2> SUFFICES ASSUME ConnInit PROVE ActivityInv /\ ClientThreads
    OBVIOUS
  <2>1. ready = <<>> /\ waiting = {} /\ resolving = 0 /\ ~timerArmed /\ ioPc = "idle"
    BY DEF ConnInit, Init
  <2>2. ~DueIn(ready, LifeOps) /\ ~Shaken(ready) /\ OneLife(ready)
    BY <2>1 DEF DueIn, Shaken, OneLife
  <2>3. Single
    BY <2>1, <2>2 DEF Single, AtMostOne
  <2> QED BY <2>1, <2>2, <2>3 DEF ConnInit, Init, ActivityInv, ClientThreads, OnlyHandlers
<1>2. TypeOK /\ TypeOK' /\ ListensWhileConnected /\ ClientThreads /\ ActivityInv
        /\ [ConnNext]_allVars => ActivityInv' /\ ClientThreads'
  BY ActivityStep, ClientThreadsStep, ConnStep
<1>3. ConnSpec => [](ActivityInv /\ ClientThreads)
  BY <1>1, <1>2, ConnImplementsClient, TypeCorrect, ConnListens, PTL
  DEF ConnSpec
<1>4. TypeOK /\ ActivityInv => OneActivity
  <2> SUFFICES ASSUME TypeOK, ActivityInv PROVE OneActivity
    OBVIOUS
  <2>1. /\ \A i, j \in LifeDue : i = j
        /\ LifeDue # {} <=> DueIn(ready, LifeOps)
    BY DEF LifeDue, DueIn, ActivityInv, Single, OneLife
  <2> QED BY <2>1 DEF OneActivity, ActivityInv, Single, AtMostOne
<1> QED BY <1>3, <1>4, ConnImplementsClient, TypeCorrect, PTL
=============================================================================
