------------------------ MODULE BoostWebSocketClient ------------------------
(***************************************************************************)
(* The reconnecting WebSocket client (modules/network/                     *)
(* boost_websocket_client.cpp).  Two threads act on it: the caller's       *)
(* thread (connect, send, close) and one I/O thread that runs the          *)
(* completion handlers of a boost::asio io_context.                        *)
(*                                                                         *)
(* The io_context is modelled by what the code uses of it: operations that *)
(* are outstanding (waiting, resolving, timerArmed) and the FIFO of        *)
(* handlers that are due (ready).  A handler runs to its end without       *)
(* another handler interleaving, because one thread runs them; the caller  *)
(* interleaves freely.  The messages received are in module MarketDataPath *)
(* and are left out here.                                                  *)
(***************************************************************************)
EXTENDS Naturals, Sequences

CONSTANTS
  Msgs,           \* what the owner may send
  RetryEnabled,   \* retry_enabled_
  RetryMax,       \* retry_max_attempts_
  MaxFaults,      \* how often the network may fail
  MaxWriteErrors, \* how often a write on a broken connection throws
  MayReopen       \* whether the owner calls connect() again

VARIABLES
  connected,   \* connected_
  connState,   \* connection_state_
  retryCount,  \* retry_count_
  stage,       \* how far the stream *ws_ has come
  written,     \* messages written to *ws_ while it was open
  waiting,     \* asynchronous operations outstanding on *ws_
  resolving,   \* number of async_resolve outstanding
  timerArmed,  \* retry_timer_ has a wait that has not expired
  ready,       \* handlers due, in the order the io_context runs them
  ioPc,        \* "callback": inside on_reconnect_(), called by on_handshake
  io,          \* io_thread_: not created, running, returned but not joined
  stopped,     \* ioc_ has been stopped; no code restarts it
  caller,      \* where the owner's thread is in a call of this client
  faults,      \* network failures left
  writeErrors  \* throwing writes left

ioVars == <<waiting, resolving, timerArmed, ready>>
stateVars == <<connected, connState, retryCount>>
threadVars == <<ioPc, io, stopped, caller>>
budget == <<faults, writeErrors>>
vars == <<connected, connState, retryCount, stage, written, waiting,
          resolving, timerArmed, ready, ioPc, io, stopped, caller,
          faults, writeErrors>>

StreamOps == {"connect", "ssl", "handshake", "read"}
\* Handlers through which a connection is kept alive or brought back.
LifeOps == StreamOps \cup {"resolve", "timer"}
OpKinds == LifeOps \cup {"close"}
Handler == [h : OpKinds \cup Msgs, ok : BOOLEAN]

\* Where the owner's thread is; m \in Msgs stands for "inside send(m), past
\* the test of connected_, before net::post".
CallerPcs == {"new", "idle", "stopping", "joining", "closed"} \cup Msgs

ASSUME MsgsAssumption == Msgs \cap (OpKinds \cup {"new", "idle", "stopping", "joining", "closed"}) = {}
ASSUME RetryAssumption == /\ RetryEnabled \in BOOLEAN
                          /\ RetryMax \in Nat
                          /\ MayReopen \in BOOLEAN
ASSUME BudgetAssumption == MaxFaults \in Nat /\ MaxWriteErrors \in Nat

(* The stage of *ws_ an operation needs, and the one its success leads to. *)
Needs == [k \in StreamOps |-> CASE k = "connect" -> "new"
                                [] k = "ssl" -> "tcp"
                                [] k = "handshake" -> "tls"
                                [] k = "read" -> "open"]
LeadsTo == [k \in StreamOps |-> CASE k = "connect" -> "tcp"
                                  [] k = "ssl" -> "tls"
                                  [] k = "handshake" -> "open"
                                  [] k = "read" -> "open"]

Due(k, ok) == [h |-> k, ok |-> ok]

(***************************************************************************)
(* Destroying *ws_ closes its socket: every operation outstanding on it    *)
(* completes with operation_aborted, and a completion that is due but has  *)
(* not passed through the composed operation finds its stream gone.  Only  *)
(* the TCP connect keeps its result.                                       *)
(***************************************************************************)
Aborted(k) == IF k \in waiting THEN <<Due(k, FALSE)>> ELSE <<>>
AllAborted == Aborted("connect") \o Aborted("ssl")
                \o Aborted("handshake") \o Aborted("read")
Outdated(e) == IF e.h \in {"ssl", "handshake", "read"} THEN Due(e.h, FALSE) ELSE e
AfterReplacing(q) == [i \in DOMAIN q |-> Outdated(q[i])] \o AllAborted

(* schedule_reconnect(): expires_after() cancels a wait that has not       *)
(* expired, so at most one wait is armed; a wait that has expired stays    *)
(* due.  Giving up leaves the timer alone.                                 *)
ScheduleReconnect_GiveUp ==
  /\ retryCount >= RetryMax
  /\ connState' = "Disconnected"
  /\ UNCHANGED <<retryCount, timerArmed>>
ScheduleReconnect_Arm ==
  /\ retryCount < RetryMax
  /\ connState' = "WaitingRetry"
  /\ retryCount' = retryCount + 1
  /\ timerArmed' = TRUE
\* Mutant: retry_max_attempts_ is not enforced.
ScheduleReconnect_NoLimit ==
  /\ connState' = "WaitingRetry"
  /\ retryCount' = retryCount + 1
  /\ timerArmed' = TRUE
ScheduleReconnect == ScheduleReconnect_GiveUp \/ ScheduleReconnect_Arm

(***************************************************************************)
(* close() called on the I/O thread, which happens when retries are        *)
(* disabled: the join of the thread by itself throws, the exception leaves *)
(* ioc_.run() and run_io_context() returns.  connection_state_ is not      *)
(* touched.  q is what is due besides the handler that calls it.           *)
(***************************************************************************)
CloseOnIoThread(q) ==
  /\ connected' = FALSE
  /\ ready' = IF connected THEN Append(q, Due("close", TRUE)) ELSE q
  /\ stopped' = TRUE
  /\ io' = "dead"
  /\ UNCHANGED <<connState, retryCount, timerArmed>>

\* The connection broke under a read or a write.
ConnectionBroken(q) ==
  \/ /\ RetryEnabled
     /\ connected' = FALSE
     /\ ScheduleReconnect
     /\ ready' = q
     /\ UNCHANGED <<stopped, io>>
  \/ /\ ~RetryEnabled
     /\ CloseOnIoThread(q)

(* Starting operation k on *ws_.  A second operation of the same kind on   *)
(* one stream is a misuse of the library; the outcome modelled is that it  *)
(* fails at once.                                                          *)
Initiate(k, q) ==
  /\ waiting' = waiting \cup {k}
  /\ ready' = IF k \in waiting THEN Append(q, Due(k, FALSE)) ELSE q

-----------------------------------------------------------------------------
(* The I/O thread.                                                         *)

IoFree == io = "running" /\ ~stopped /\ ioPc = "idle"
Runs(k) == IoFree /\ ready # <<>> /\ Head(ready).h = k
Succeeded == Head(ready).ok

\* The timer's handler: attempt_reconnect_async().
OnTimer ==
  /\ Runs("timer")
  /\ stage' = "new"
  /\ written' = {}
  /\ waiting' = {}
  /\ ready' = AfterReplacing(Tail(ready))
  /\ \/ /\ connState' = "Connecting"
        /\ resolving' = resolving + 1
        /\ UNCHANGED <<retryCount, timerArmed, faults>>
     \/ /\ faults > 0            \* SSL_set_tlsext_host_name fails
        /\ faults' = faults - 1
        /\ ScheduleReconnect
        /\ UNCHANGED resolving
  /\ UNCHANGED <<connected, threadVars, writeErrors>>

\* A handler of the reconnection chain: start the next operation or retry.
ChainStep(k, next) ==
  /\ Runs(k)
  /\ \/ /\ Succeeded
        /\ Initiate(next, Tail(ready))
        /\ UNCHANGED <<connState, retryCount, timerArmed>>
     \/ /\ ~Succeeded
        /\ ScheduleReconnect
        /\ ready' = Tail(ready)
        /\ UNCHANGED waiting
  /\ UNCHANGED <<connected, stage, written, resolving, threadVars, budget>>
\* Mutant: the handler logs the error and returns.
ChainStep_NoRetry(k, next) ==
  /\ Runs(k)
  /\ \/ /\ Succeeded
        /\ Initiate(next, Tail(ready))
     \/ /\ ~Succeeded
        /\ ready' = Tail(ready)
        /\ UNCHANGED waiting
  /\ UNCHANGED <<connState, retryCount, timerArmed>>
  /\ UNCHANGED <<connected, stage, written, resolving, threadVars, budget>>

OnResolve == ChainStep("resolve", "connect")
OnConnect_NoRetry == ChainStep_NoRetry("connect", "ssl")
OnConnect == ChainStep("connect", "ssl")
OnSslHandshake == ChainStep("ssl", "handshake")

\* Mutant: the handshake is not followed by on_reconnect_().
OnHandshake_NoCallback ==
  /\ Runs("handshake")
  /\ \/ /\ Succeeded
        /\ connected' = TRUE
        /\ connState' = "Connected"
        /\ retryCount' = 0
        /\ Initiate("read", Tail(ready))
        /\ UNCHANGED <<timerArmed, ioPc>>
     \/ /\ ~Succeeded
        /\ ScheduleReconnect
        /\ ready' = Tail(ready)
        /\ UNCHANGED <<connected, ioPc, waiting>>
  /\ UNCHANGED <<stage, written, resolving, io, stopped, caller, budget>>
OnHandshake ==
  /\ Runs("handshake")
  /\ ready' = Tail(ready)
  /\ \/ /\ Succeeded
        /\ connected' = TRUE
        /\ connState' = "Connected"
        /\ retryCount' = 0
        /\ ioPc' = "callback"
        /\ UNCHANGED timerArmed
     \/ /\ ~Succeeded
        /\ ScheduleReconnect
        /\ UNCHANGED <<connected, ioPc>>
  /\ UNCHANGED <<stage, written, waiting, resolving, io, stopped, caller, budget>>

\* on_reconnect_() calls send(m) on the I/O thread.
CallbackSend(m) ==
  /\ ioPc = "callback"
  /\ ready' = IF connected THEN Append(ready, Due(m, TRUE)) ELSE ready
  /\ UNCHANGED <<stateVars, stage, written, waiting, resolving, timerArmed,
                 threadVars, budget>>

\* on_reconnect_() has returned: on_handshake ends with do_read().
\* Mutant: it ends without do_read().
CallbackReturn_NoRead ==
  /\ ioPc = "callback"
  /\ ioPc' = "idle"
  /\ UNCHANGED <<stateVars, stage, written, ioVars, io, stopped, caller, budget>>
CallbackReturn ==
  /\ ioPc = "callback"
  /\ ioPc' = "idle"
  /\ Initiate("read", ready)
  /\ UNCHANGED <<stateVars, stage, written, resolving, timerArmed, io,
                 stopped, caller, budget>>

\* Mutant: the handler goes on after the error instead of returning.
OnRead_NoReturn ==
  /\ Runs("read")
  /\ \/ Succeeded /\ UNCHANGED <<stateVars, timerArmed>>
     \/ ~Succeeded /\ connected' = FALSE /\ ScheduleReconnect
  /\ Initiate("read", Tail(ready))
  /\ UNCHANGED <<stage, written, resolving, threadVars, budget>>
OnRead ==
  /\ Runs("read")
  /\ \/ /\ Succeeded
        /\ Initiate("read", Tail(ready))
        /\ UNCHANGED <<stateVars, timerArmed, io, stopped>>
     \/ /\ ~Succeeded
        /\ ConnectionBroken(Tail(ready))
        /\ UNCHANGED waiting
  /\ UNCHANGED <<stage, written, resolving, ioPc, caller, budget>>

(* The lambda posted by send(m).  On a broken connection the socket may    *)
(* still take the bytes, or the write throws; on a stream that is not open *)
(* yet the library refuses it.                                             *)
RunPost_NotConnected ==
  /\ ~connected
  /\ ready' = Tail(ready)
  /\ UNCHANGED <<stateVars, written, timerArmed, io, stopped, writeErrors>>
RunPost_Written(m) ==
  /\ connected
  /\ stage \in {"open", "down"}
  /\ written' = IF stage = "open" THEN written \cup {m} ELSE written
  /\ ready' = Tail(ready)
  /\ UNCHANGED <<stateVars, timerArmed, io, stopped, writeErrors>>
RunPost_Throws ==
  /\ connected
  /\ \/ stage = "down" /\ writeErrors > 0 /\ writeErrors' = writeErrors - 1
     \/ stage \in {"new", "tcp", "tls"} /\ UNCHANGED writeErrors
  /\ ConnectionBroken(Tail(ready))
  /\ UNCHANGED written
RunPost(m) ==
  /\ Runs(m)
  /\ RunPost_NotConnected \/ RunPost_Written(m) \/ RunPost_Throws
  /\ UNCHANGED <<stage, waiting, resolving, ioPc, caller, faults>>

\* The lambda posted by close(): the WebSocket closing handshake.
RunClose ==
  /\ Runs("close")
  /\ ready' = Tail(ready)
  /\ stage' = "down"
  /\ UNCHANGED <<stateVars, written, waiting, resolving, timerArmed,
                 threadVars, budget>>

\* ioc_.run() returns in run_io_context() once the context is stopped.
IoReturns ==
  /\ io = "running"
  /\ stopped
  /\ ioPc = "idle"
  /\ io' = "dead"
  /\ UNCHANGED <<stateVars, stage, written, ioVars, ioPc, stopped, caller, budget>>

-----------------------------------------------------------------------------
(* The operating system and the network.                                   *)

TimerExpires ==
  /\ timerArmed
  /\ timerArmed' = FALSE
  /\ ready' = Append(ready, Due("timer", TRUE))
  /\ UNCHANGED <<stateVars, stage, written, waiting, resolving, threadVars, budget>>

ResolveCompletes ==
  /\ resolving > 0
  /\ resolving' = resolving - 1
  /\ \/ /\ ready' = Append(ready, Due("resolve", TRUE))
        /\ UNCHANGED faults
     \/ /\ faults > 0
        /\ faults' = faults - 1
        /\ ready' = Append(ready, Due("resolve", FALSE))
  /\ UNCHANGED <<stateVars, stage, written, waiting, timerArmed, threadVars, writeErrors>>

\* An operation on *ws_ succeeds only on a stream that has come that far.
StreamOpCompletes(k) ==
  /\ k \in waiting
  /\ waiting' = waiting \ {k}
  /\ \/ /\ stage = Needs[k]
        /\ stage' = LeadsTo[k]
        /\ ready' = Append(ready, Due(k, TRUE))
        /\ UNCHANGED faults
     \/ /\ stage = Needs[k]
        /\ faults > 0
        /\ faults' = faults - 1
        /\ stage' = "down"
        /\ ready' = Append(ready, Due(k, FALSE))
     \/ /\ stage # Needs[k]
        /\ ready' = Append(ready, Due(k, FALSE))
        /\ UNCHANGED <<stage, faults>>
  /\ UNCHANGED <<stateVars, written, resolving, timerArmed, threadVars, writeErrors>>

NetworkFails ==
  /\ stage \in {"tcp", "tls", "open"}
  /\ faults > 0
  /\ faults' = faults - 1
  /\ stage' = "down"
  /\ UNCHANGED <<stateVars, written, ioVars, threadVars, writeErrors>>

-----------------------------------------------------------------------------
(* The owner's thread.                                                     *)

\* connect(): called once, or again after close() or after the I/O thread
\* has ended.  A stopped io_context lets run() return at once.
Connect_Prologue ==
  /\ \/ caller = "new"
     \/ MayReopen /\ (caller = "closed" \/ (caller = "idle" /\ io = "dead"))
  /\ caller' = "idle"
  /\ io' = CASE io = "none" /\ ~stopped -> "running"
             [] io = "none" /\ stopped -> "dead"
             [] OTHER -> io
  /\ ready' = AfterReplacing(ready)
  /\ written' = {}
Connect_Succeeds ==
  /\ connected' = TRUE
  /\ connState' = "Connected"
  /\ retryCount' = 0
  /\ stage' = "open"
  /\ waiting' = {"read"}
  /\ UNCHANGED <<timerArmed, faults>>
Connect_Fails ==
  /\ faults > 0
  /\ faults' = faults - 1
  /\ connected' = FALSE
  /\ stage' = "down"
  /\ waiting' = {}
  /\ \/ RetryEnabled /\ ScheduleReconnect
     \/ ~RetryEnabled /\ connState' = "Disconnected" /\ UNCHANGED <<retryCount, timerArmed>>
Connect ==
  /\ Connect_Prologue
  /\ Connect_Succeeds \/ Connect_Fails
  /\ UNCHANGED <<resolving, ioPc, stopped, writeErrors>>

\* send(m): the test of connected_, then the post.
Send(m) ==
  /\ caller = "idle"
  /\ caller' = IF connected THEN m ELSE "idle"
  /\ UNCHANGED <<stateVars, stage, written, ioVars, ioPc, io, stopped, budget>>
SendPosts ==
  /\ caller \in Msgs
  /\ ready' = Append(ready, Due(caller, TRUE))
  /\ caller' = "idle"
  /\ UNCHANGED <<stateVars, stage, written, waiting, resolving, timerArmed,
                 ioPc, io, stopped, budget>>

\* close(): clear connected_ and post the closing handshake, stop, join.
Close ==
  /\ caller = "idle"
  /\ connected' = FALSE
  /\ ready' = IF connected THEN Append(ready, Due("close", TRUE)) ELSE ready
  /\ caller' = "stopping"
  /\ UNCHANGED <<connState, retryCount, stage, written, waiting, resolving,
                 timerArmed, ioPc, io, stopped, budget>>
\* Mutant: the thread is joined without stopping the io_context, whose
\* work guard keeps run() from returning.
CloseStops_NoStop ==
  /\ caller = "stopping"
  /\ caller' = IF io = "none" THEN "closed" ELSE "joining"
  /\ UNCHANGED <<stateVars, stage, written, ioVars, ioPc, io, stopped, budget>>
CloseStops ==
  /\ caller = "stopping"
  /\ stopped' = TRUE
  /\ caller' = IF io = "none" THEN "closed" ELSE "joining"
  /\ UNCHANGED <<stateVars, stage, written, ioVars, ioPc, io, budget>>
\* Mutant: the thread is detached and not joined.
CloseJoins_Detaches ==
  /\ caller = "joining"
  /\ caller' = "closed"
  /\ UNCHANGED <<stateVars, stage, written, ioVars, ioPc, io, stopped, budget>>
CloseJoins ==
  /\ caller = "joining"
  /\ io = "dead"
  /\ io' = "none"
  /\ caller' = "closed"
  /\ UNCHANGED <<stateVars, stage, written, ioVars, ioPc, stopped, budget>>

\* simulate_network_failure(): closes the socket under the I/O thread.  A
\* stream that is not connected yet opens its socket again to connect.
SimulateNetworkFailure ==
  /\ caller = "idle"
  /\ faults > 0
  /\ faults' = faults - 1
  /\ stage' = IF stage = "new" THEN "new" ELSE "down"
  /\ waiting' = {}
  /\ ready' = ready \o AllAborted
  /\ UNCHANGED <<stateVars, written, resolving, timerArmed, threadVars, writeErrors>>

-----------------------------------------------------------------------------
Init ==
  /\ connected = FALSE
  /\ connState = "Disconnected"
  /\ retryCount = 0
  /\ stage = "none"
  /\ written = {}
  /\ waiting = {}
  /\ resolving = 0
  /\ timerArmed = FALSE
  /\ ready = <<>>
  /\ ioPc = "idle"
  /\ io = "none"
  /\ stopped = FALSE
  /\ caller = "new"
  /\ faults = MaxFaults
  /\ writeErrors = MaxWriteErrors

IoThread ==
  \/ OnTimer \/ OnResolve \/ OnConnect \/ OnSslHandshake \/ OnHandshake
  \/ OnRead \/ RunClose \/ IoReturns
  \/ \E m \in Msgs : RunPost(m)
Environment ==
  \/ TimerExpires \/ ResolveCompletes \/ NetworkFails
  \/ \E k \in StreamOps : StreamOpCompletes(k)
CloseContinues == CloseStops \/ CloseJoins
Owner ==
  \/ Connect \/ Close \/ CloseContinues \/ SendPosts
  \/ SimulateNetworkFailure
  \/ \E m \in Msgs : Send(m)
Callback == CallbackReturn \/ \E m \in Msgs : CallbackSend(m)

Next == IoThread \/ Environment \/ Owner \/ Callback
Spec == Init /\ [][Next]_vars

-----------------------------------------------------------------------------
TypeOK ==
  /\ connected \in BOOLEAN
  /\ connState \in {"Disconnected", "Connecting", "Connected", "WaitingRetry"}
  /\ retryCount \in 0 .. RetryMax
  /\ stage \in {"none", "new", "tcp", "tls", "open", "down"}
  /\ written \subseteq Msgs
  /\ waiting \subseteq StreamOps
  /\ resolving \in Nat
  /\ timerArmed \in BOOLEAN
  /\ ready \in Seq(Handler)
  /\ ioPc \in {"idle", "callback"}
  /\ io \in {"none", "running", "dead"}
  /\ stopped \in BOOLEAN
  /\ caller \in CallerPcs
  /\ faults \in 0 .. MaxFaults
  /\ writeErrors \in 0 .. MaxWriteErrors

IsDue(K) == \E i \in DOMAIN ready : ready[i].h \in K

\* A client that says it is connected has a read outstanding (or is about to
\* start it), so a connection that breaks is noticed: do_read() re-arms
\* itself on every path that leaves connected_ true.
ListensWhileConnected ==
  connected => waiting \cap {"read"} # {} \/ IsDue({"read"}) \/ ioPc = "callback"

\* While retries are enabled and the client has not been stopped, a client
\* that has been asked to connect and has not given up always has an
\* operation, a timer or a handler that will carry it on: no error path of
\* the reconnection chain loses the client.
Alive == timerArmed \/ resolving > 0 \/ waiting # {} \/ ioPc = "callback"
           \/ IsDue(LifeOps)
NeverOrphaned ==
  RetryEnabled /\ caller # "new" /\ ~stopped
    => connState = "Disconnected" \/ Alive

\* After close() has returned, until connect() is called again, nothing happens
\* on the I/O thread: no handler changes the client's members, which its
\* destructor destroys next, whatever was due, armed or running when close()
\* was called.  While close() waits for the thread, on_reconnect_() may still
\* be in its owner's code.
QuietAfterClose ==
  [][caller = "closed" /\ caller' = "closed" =>
       UNCHANGED <<stateVars, written, threadVars>>]_vars
=============================================================================
