------------------------- MODULE ExchangeConnection -------------------------
(***************************************************************************)
(* OkxConnection and BybitConnection (modules/exchange/okx_connection.cpp, *)
(* bybit_connection.cpp), which differ in endpoints and message texts      *)
(* only: the owner of one BoostWebSocketClient.  It remembers what was     *)
(* subscribed and sends it again after every reconnection, on the I/O      *)
(* thread, while subscribe() runs on the application's thread.             *)
(*                                                                         *)
(* A subscription message is identified with its instrument.  The          *)
(* iteration of resubscribe() over active_subscriptions_ fixes its range   *)
(* when it starts, as a range-for does.                                    *)
(***************************************************************************)
EXTENDS BoostWebSocketClient

CONSTANTS
  Instruments,  \* what subscribe() sends
  Orders,       \* what send_order() sends
  MaxDue        \* bound: the application starts no call while more is due

ASSUME MsgsSplit == Msgs = Instruments \cup Orders /\ Instruments \cap Orders = {}
ASSUME MaxDueAssumption == MaxDue \in Nat

VARIABLES
  active,     \* active_subscriptions_
  app,        \* the application's thread: idle, before or after the test of
              \* is_connected() in subscribe(), past the destruction of
              \* active_subscriptions_ and adapter_; "crashed": the process is gone
  todo,       \* what subscribe() or connect() still has to send
  resub,      \* on_reconnect_ is inside the loop of resubscribe()
  resubTodo   \* what that loop still has to send

connVars == <<active, app, todo, resub, resubTodo>>
allVars == <<vars, connVars>>

\* connect(): when the client connected, resubscribe() on this thread.
\* Mutant: connect() leaves the first subscription to on_reconnect_, which
\* only a reconnection calls.
ConnConnect_NoResubscribe ==
  /\ app = "idle"
  /\ Connect
  /\ UNCHANGED connVars
ConnConnect ==
  /\ app = "idle"
  /\ caller = "new" \/ Len(ready) <= MaxDue
  /\ Connect
  /\ todo' = IF connected' THEN active ELSE {}
  /\ app' = IF todo' = {} THEN "idle" ELSE "sending"
  /\ UNCHANGED <<active, resub, resubTodo>>

\* subscribe(): remember first, then send if connected.
Subscribe(S) ==
  /\ app = "idle"
  /\ caller \in {"new", "idle"}
  /\ active' = active \cup S
  /\ todo' = S
  /\ app' = "testing"
  /\ UNCHANGED <<resub, resubTodo, vars>>
SubscribeTests ==
  /\ app = "testing"
  /\ \/ connected /\ app' = "sending" /\ UNCHANGED todo
     \/ ~connected /\ app' = "idle" /\ todo' = {}
  /\ UNCHANGED <<active, resub, resubTodo, vars>>
SubscribeSends(m) ==
  /\ app = "sending"
  /\ m \in todo
  /\ Send(m)
  /\ todo' = todo \ {m}
  /\ app' = IF todo' = {} THEN "idle" ELSE "sending"
  /\ UNCHANGED <<active, resub, resubTodo>>

\* send_order(), send_heartbeat() and the pong of process_message().
SendOrder(m) ==
  /\ app = "idle"
  /\ Send(m)
  /\ UNCHANGED connVars

\* The destructor.  Its body is empty, so the members go in the reverse order
\* of their declaration: active_subscriptions_ and adapter_ first, then
\* ws_client_, whose destructor calls close().  The I/O thread runs until that
\* has joined it, so a resubscribe() that is in its loop reads on in what is
\* left of the list.
ConnDestroy ==
  /\ app = "idle"
  /\ caller = "idle"
  /\ app' = "destroyed"
  /\ active' = {}
  /\ resubTodo' \in IF resub THEN SUBSET Instruments ELSE {resubTodo}
  /\ UNCHANGED <<todo, resub, vars>>
ConnClose == app = "destroyed" /\ Close /\ UNCHANGED connVars

\* simulate_disconnect().
ConnSimulateDisconnect == app = "idle" /\ SimulateNetworkFailure /\ UNCHANGED connVars

\* on_reconnect_: resubscribe() on the I/O thread.  Over destroyed members its
\* behaviour is undefined: it sends some messages or none, or crashes.
ResubscribeBegins ==
  /\ ioPc = "callback"
  /\ ~resub
  /\ resub' = TRUE
  /\ resubTodo' \in IF app = "destroyed" THEN SUBSET Instruments ELSE {active}
  /\ UNCHANGED <<active, app, todo, vars>>
ResubscribeCrashes ==
  /\ resub
  /\ app = "destroyed"
  /\ app' = "crashed"
  /\ UNCHANGED <<active, todo, resub, resubTodo, vars>>
ResubscribeSends(m) ==
  /\ resub
  /\ m \in resubTodo
  /\ CallbackSend(m)
  /\ resubTodo' = resubTodo \ {m}
  /\ UNCHANGED <<active, app, todo, resub>>
ResubscribeEnds ==
  /\ resub
  /\ resubTodo = {}
  /\ CallbackReturn
  /\ resub' = FALSE
  /\ UNCHANGED <<active, app, todo, resubTodo>>

-----------------------------------------------------------------------------
ConnInit ==
  /\ Init
  /\ active = {}
  /\ app = "idle"
  /\ todo = {}
  /\ resub = FALSE
  /\ resubTodo = {}

ConnIo == IoThread /\ UNCHANGED connVars
ConnEnvironment == Environment /\ UNCHANGED connVars
ConnResubscribe ==
  \/ ResubscribeBegins \/ ResubscribeEnds \/ ResubscribeCrashes
  \/ \E m \in Instruments : ResubscribeSends(m)
ConnContinues ==
  \/ SubscribeTests
  \/ \E m \in Instruments : SubscribeSends(m)
  \/ SendPosts /\ UNCHANGED connVars
  \/ ConnClose
  \/ CloseContinues /\ UNCHANGED connVars
ConnCalls ==
  \/ Len(ready) <= MaxDue /\ \E S \in SUBSET Instruments \ {{}} : Subscribe(S)
  \/ Len(ready) <= MaxDue /\ \E m \in Orders : SendOrder(m)
  \/ ConnDestroy
  \/ ConnSimulateDisconnect

\* Nothing happens in a process that has crashed.
Running == app # "crashed"
ConnNext ==
  /\ Running
  /\ \/ ConnConnect \/ ConnCalls \/ ConnContinues
     \/ ConnIo \/ ConnResubscribe \/ ConnEnvironment
ConnSpec == ConnInit /\ [][ConnNext]_allVars

(***************************************************************************)
(* Fairness.  The I/O thread and a thread inside a call keep running; an   *)
(* armed timer expires; name resolution and the three steps of connecting  *)
(* end, in success or failure; a read on a connection that the operating   *)
(* system knows to be broken ends.  A message need never arrive, and the   *)
(* application need never subscribe, send or close.                        *)
(***************************************************************************)
Fairness ==
  /\ WF_allVars(ConnConnect /\ caller = "new")
  /\ WF_allVars(Running /\ ConnContinues)
  /\ WF_allVars(Running /\ ConnIo)
  /\ WF_allVars(Running /\ ConnResubscribe)
  /\ WF_allVars(Running /\ TimerExpires /\ UNCHANGED connVars)
  /\ WF_allVars(Running /\ ResolveCompletes /\ UNCHANGED connVars)
  /\ \A k \in StreamOps \ {"read"} :
       WF_allVars(Running /\ StreamOpCompletes(k) /\ UNCHANGED connVars)
  /\ WF_allVars(Running /\ stage # "open" /\ StreamOpCompletes("read") /\ UNCHANGED connVars)
FairConnSpec == ConnSpec /\ Fairness

-----------------------------------------------------------------------------
ConnTypeOK ==
  /\ TypeOK
  /\ active \subseteq Instruments
  /\ app \in {"idle", "testing", "sending", "destroyed", "crashed"}
  /\ todo \subseteq Instruments
  /\ resub \in BOOLEAN
  /\ resubTodo \subseteq Instruments

\* On a connection that is up, every remembered subscription has been
\* written on this very stream or is on its way to it: due on the I/O
\* thread, or in the hands of subscribe() or resubscribe().  This rests on
\* the order in which subscribe() remembers before it tests is_connected()
\* and on_handshake sets connected_ before it resubscribes.
OnItsWay == written \cup {m \in Instruments : IsDue({m})} \cup todo \cup {caller}
SubscriptionsCovered ==
  connected /\ stage = "open" /\ ioPc = "idle" /\ ~IsDue({"handshake"})
    => active \subseteq OnItsWay

\* As long as no write throws, one thing at a time keeps the client alive:
\* a stream is never replaced under an operation that uses it, and no two
\* reconnection chains run at once.
LifeDue == {i \in DOMAIN ready : ready[i].h \in LifeOps}
AtMostOne(p, q) == ~(p /\ q)
OneActivity ==
  /\ \A i, j \in LifeDue : i = j
  /\ \A k, l \in waiting : k = l
  /\ resolving <= 1
  /\ AtMostOne(LifeDue # {}, waiting # {} \/ resolving > 0 \/ timerArmed \/ ioPc = "callback")
  /\ AtMostOne(waiting # {}, resolving > 0 \/ timerArmed \/ ioPc = "callback")
  /\ AtMostOne(resolving > 0, timerArmed \/ ioPc = "callback")
  /\ AtMostOne(timerArmed, ioPc = "callback")

\* Once the network stops failing, the client is up with every remembered
\* subscription written on its stream for good, unless it ran out of
\* attempts or was closed.
Served == connected /\ stage = "open" /\ active \subseteq written
EventuallyServed ==
  <>[]Served \/ <>[](connState = "Disconnected") \/ <>(app = "destroyed")

\* The destructor ends, and close() in it: the I/O thread can always be joined,
\* unless resubscribe() crashes over the members destroyed before.
CloseReturns == app = "destroyed" ~> (caller = "closed" \/ app = "crashed")
=============================================================================
