--------------------------- MODULE MarketDataPath ---------------------------
(***************************************************************************)
(* The way of a market data message from the exchange into the books: the  *)
(* reads of BoostWebSocketClient on the I/O thread (do_read, buffer_,      *)
(* incoming_queue_), poll() and process_message() of OkxConnection or      *)
(* BybitConnection on the application's thread, the adapters' view of a    *)
(* message, the UDP feed and the order book behind the callback.           *)
(*                                                                         *)
(* How the client comes to a new stream is the subject of                  *)
(* ExchangeConnection; here a stream breaks and is replaced, and the       *)
(* subscription is sent again.  One instrument: messages about others only *)
(* take room in the queue, like pings.                                     *)
(***************************************************************************)
EXTENDS BookOps

CONSTANTS
  Venues,        \* the exchanges, "OKX" and "BYBIT"
  Changes,       \* the changes the exchange makes to its book
  QueueMax,      \* MAX_INCOMING_QUEUE_SIZE
  UdpEnabled,    \* udp_publisher_ was initialised
  MaxWire,       \* bound: messages under way in the stream
  MaxBreaks,     \* bound: how often the stream breaks
  MaxPings       \* bound: how often the exchange pings

ASSUME PathAssumption ==
  /\ Venues \subseteq {"OKX", "BYBIT"}
  /\ QueueMax \in Nat \ {0} /\ MaxWire \in Nat \ {0}
  /\ MaxBreaks \in Nat /\ MaxPings \in Nat
  /\ UdpEnabled \in BOOLEAN
  /\ IsFiniteSet(Prices)   \* price_int is an int64_t
  /\ Changes \subseteq [side : Sides, price : Prices, qty : Quantities \cap Nat]

VARIABLES
  venue,    \* the exchange of this connection, which decides the adapter
  truth,    \* the exchange's book
  sub,      \* the exchange's view of our subscription on this stream
  wire,     \* messages sent by the exchange on this stream, not yet read
  breaks,   \* how often a stream broke
  pings,    \* how often the exchange has pinged
  up,       \* a stream is up
  partial,  \* buffer_ holds the beginning of a message that was cut off
  rx,       \* the read handler: whether there was room, and what it has read
  queue,    \* incoming_queue_
  cur,      \* the message poll() is working on
  step,     \* where process_message() is
  book,     \* the application's book for the instrument
  feed,     \* the book a receiver of the UDP feed has built
  feedGap,  \* the receiver has missed a datagram since its last snapshot
  gap       \* a message about the book was lost since the last snapshot queued

wireVars == <<venue, truth, sub, wire, breaks, pings, up>>
ioVars == <<partial, rx>>
pollVars == <<cur, step, book, feed, feedGap>>
vars == <<venue, truth, sub, wire, breaks, pings, up, partial, rx, queue, cur, step,
          book, feed, feedGap, gap>>

-----------------------------------------------------------------------------
(* Messages, by what the adapters look at.  "text" is what is no JSON      *)
(* object, "none" a member that is missing.                                *)
Blank == [text |-> "json", op |-> "none", success |-> FALSE, event |-> "none",
          channel |-> "none", action |-> "none", data |-> FALSE,
          bids |-> <<>>, asks |-> <<>>]
Garbled == [Blank EXCEPT !.text = "garbled"]
None == [Blank EXCEPT !.text = "none"]

OkxBookChannels == {"books5", "books", "books-l2-tbt"}

\* is_ping_message
is_ping_message(m) ==
  IF venue = "OKX" THEN m.text = "ping"
  ELSE m.text = "json" /\ m.op = "ping" /\ ~m.success

\* is_subscription_response
\* Mutant: everything about a channel we asked for is a response.
is_subscription_response_Channel(m) == m.text = "json" /\ m.channel # "none"
is_subscription_response(m) ==
  /\ m.text = "json"
  /\ IF venue = "OKX"
     THEN IF m.event # "none" THEN m.event \in {"subscribe", "unsubscribe", "error"}
          ELSE m.op = "subscribe"
     ELSE m.success /\ m.op \in {"subscribe", "unsubscribe"}

\* parse_orderbook_message: whether it returns true,
parse_orderbook_message(m) ==
  /\ m.text = "json"
  /\ m.channel \in (IF venue = "OKX" THEN OkxBookChannels ELSE {"orderbook"})
  /\ m.data

\* and what it says of is_snapshot.
ParsedSnapshot(m) ==
  IF m.action # "none" THEN m.action = "snapshot"
  ELSE venue = "OKX" /\ m.channel = "books5"

-----------------------------------------------------------------------------
(* The exchange.  Both venues answer a subscription, then send the book;   *)
(* OKX sends "books5" as the whole book every time, without an action,     *)
(* Bybit sends the book once and then what changes.                        *)
SideLevels(b, s) ==
  SetToSeq({[price |-> p, qty |-> b[s][p]] : p \in OnSide(b, s)})
Response ==
  IF venue = "OKX" THEN [Blank EXCEPT !.event = "subscribe", !.channel = "books5"]
  ELSE [Blank EXCEPT !.success = TRUE, !.op = "subscribe"]
Ping ==
  IF venue = "OKX" THEN [Blank EXCEPT !.text = "ping"]
  ELSE [Blank EXCEPT !.op = "ping"]
WholeBook(b) ==
  [Blank EXCEPT !.channel = IF venue = "OKX" THEN "books5" ELSE "orderbook",
                !.action = IF venue = "OKX" THEN "none" ELSE "snapshot",
                !.data = TRUE,
                !.bids = SideLevels(b, "bid"), !.asks = SideLevels(b, "ask")]
Delta(c) ==
  LET ls == <<[price |-> c.price, qty |-> c.qty]>>
  IN  [Blank EXCEPT !.channel = "orderbook", !.action = "delta", !.data = TRUE,
                    !.bids = IF c.side = "bid" THEN ls ELSE <<>>,
                    !.asks = IF c.side = "ask" THEN ls ELSE <<>>]

\* A message that gives the whole book.
Whole(m) == m.channel = "books5" \/ m.action = "snapshot"

ExchangeAnswers ==
  /\ up /\ sub = "asked" /\ Len(wire) < MaxWire
  /\ wire' = Append(wire, Response)
  /\ sub' = "answered"
  /\ UNCHANGED <<venue, truth, breaks, pings, up, ioVars, queue, pollVars, gap>>

ExchangeSendsBook ==
  /\ up /\ sub = "answered" /\ Len(wire) < MaxWire
  /\ wire' = Append(wire, WholeBook(truth))
  /\ sub' = "live"
  /\ UNCHANGED <<venue, truth, breaks, pings, up, ioVars, queue, pollVars, gap>>

\* The exchange's book changes; who is subscribed is told.
ExchangeChanges(c) ==
  /\ truth' = [truth EXCEPT ![c.side][c.price] = c.qty]
  /\ truth' # truth
  /\ IF up /\ sub = "live"
     THEN /\ Len(wire) < MaxWire
          /\ wire' = Append(wire, IF venue = "OKX" THEN WholeBook(truth') ELSE Delta(c))
     ELSE UNCHANGED wire
  /\ UNCHANGED <<venue, sub, breaks, pings, up, ioVars, queue, pollVars, gap>>

ExchangePings ==
  /\ up /\ pings < MaxPings /\ Len(wire) < MaxWire
  /\ wire' = Append(wire, Ping)
  /\ pings' = pings + 1
  /\ UNCHANGED <<venue, truth, sub, breaks, up, ioVars, queue, pollVars, gap>>

\* The stream breaks.  What was under way is lost, except that the beginning
\* of the next message may have reached buffer_: the read appends to buffer_
\* as bytes arrive, and its handler returns on an error before it clears it.
StreamBreaks ==
  /\ up /\ breaks < MaxBreaks /\ rx.pc = "waiting"
  /\ up' = FALSE /\ breaks' = breaks + 1
  /\ wire' = <<>> /\ sub' = "no"
  /\ partial' \in (IF wire = <<>> THEN {partial} ELSE {partial, TRUE})
  /\ UNCHANGED <<venue, truth, pings, rx, queue, pollVars, gap>>

\* A new stream, and resubscribe() on it.
Reconnects ==
  /\ ~up
  /\ up' = TRUE /\ sub' = "asked"
  /\ UNCHANGED <<venue, truth, wire, breaks, pings, ioVars, queue, pollVars, gap>>

-----------------------------------------------------------------------------
(* The I/O thread: the handler of async_read.                              *)

\* A message is complete; compare the size of the queue with the limit.  gap
\* records what the code does not: that the book's history has a hole.
\* Mutant: the limit is off by one.
ReadCompletes_OffByOne ==
  /\ up /\ rx.pc = "waiting" /\ wire # <<>>
  /\ rx' = [pc |-> IF Len(queue) <= QueueMax THEN "room" ELSE "full",
            msg |-> IF partial THEN Garbled ELSE Head(wire)]
  /\ wire' = Tail(wire)
  /\ UNCHANGED <<venue, truth, sub, breaks, pings, up, partial, queue, pollVars, gap>>
ReadCompletes ==
  /\ up /\ rx.pc = "waiting" /\ wire # <<>>
  /\ rx' = [pc |-> IF Len(queue) < QueueMax THEN "room" ELSE "full",
            msg |-> IF partial THEN Garbled ELSE Head(wire)]
  /\ wire' = Tail(wire)
  /\ gap' = IF ~Head(wire).data THEN gap
            ELSE partial \/ rx'.pc = "full" \/ (gap /\ ~Whole(Head(wire)))
  /\ UNCHANGED <<venue, truth, sub, breaks, pings, up, partial, queue, pollVars>>

\* Enqueue or drop, clear buffer_, read on.
HandlesRead(stored) ==
  /\ queue' = IF stored THEN Append(queue, rx.msg) ELSE queue
  /\ partial' = FALSE
  /\ rx' = [pc |-> "waiting", msg |-> None]
  /\ UNCHANGED <<wireVars, pollVars, gap>>

EnqueueRead == rx.pc = "room" /\ HandlesRead(TRUE)
DropRead == rx.pc = "full" /\ HandlesRead(FALSE)

-----------------------------------------------------------------------------
(* The application's thread: poll().                                       *)

\* get_next_message() returns a message; process_message() begins.
Dequeue ==
  /\ cur = None /\ queue # <<>>
  /\ cur' = Head(queue) /\ queue' = Tail(queue) /\ step' = "classify"
  /\ UNCHANGED <<wireVars, ioVars, book, feed, feedGap, gap>>

\* A ping is answered through send(), which drops the pong when the client is
\* not connected; what send() does is the subject of ExchangeConnection.
ProcessPing ==
  /\ step = "classify" /\ is_ping_message(cur)
  /\ cur' = None /\ step' = "idle"
  /\ UNCHANGED <<wireVars, ioVars, queue, book, feed, feedGap, gap>>

\* A response, or what is no order book message, is logged.
ProcessOther ==
  /\ step = "classify" /\ ~is_ping_message(cur)
  /\ is_subscription_response(cur) \/ ~parse_orderbook_message(cur)
  /\ cur' = None /\ step' = "idle"
  /\ UNCHANGED <<wireVars, ioVars, queue, book, feed, feedGap, gap>>

\* UdpPublisher::publish: header with msg_type, then the levels; sendto() may
\* fail, and a datagram may be lost.  The receiver applies what it gets.
\* Mutant: every datagram says it is a snapshot.
Publish_AlwaysSnapshot ==
  \/ /\ feed' = ApplyBatch(feed, TRUE, ToUpdates(cur.bids, cur.asks))
     /\ feedGap' = FALSE
  \/ feedGap' = TRUE /\ UNCHANGED feed
Publish ==
  \/ /\ feed' = ApplyBatch(feed, ParsedSnapshot(cur), ToUpdates(cur.bids, cur.asks))
     /\ feedGap' = (feedGap /\ ~ParsedSnapshot(cur))
  \/ feedGap' = TRUE /\ UNCHANGED feed

ProcessBook ==
  /\ step = "classify" /\ ~is_ping_message(cur)
  /\ ~is_subscription_response(cur) /\ parse_orderbook_message(cur)
  /\ IF UdpEnabled THEN Publish ELSE UNCHANGED <<feed, feedGap>>
  /\ step' = "callback"
  /\ UNCHANGED <<wireVars, ioVars, queue, cur, book, gap>>

\* callback(book): the application hands the parsed book to
\* OrderBookManager::apply_update.
Callback ==
  /\ step = "callback"
  /\ book' = ApplyBatch(book, ParsedSnapshot(cur), ToUpdates(cur.bids, cur.asks))
  /\ cur' = None /\ step' = "idle"
  /\ UNCHANGED <<wireVars, ioVars, queue, feed, feedGap, gap>>

-----------------------------------------------------------------------------
Init ==
  /\ venue \in Venues
  /\ truth = EmptyBook /\ book = EmptyBook /\ feed = EmptyBook
  /\ sub = "asked" /\ up = TRUE
  /\ wire = <<>> /\ queue = <<>>
  /\ breaks = 0 /\ pings = 0
  /\ partial = FALSE /\ gap = FALSE /\ feedGap = FALSE
  /\ rx = [pc |-> "waiting", msg |-> None]
  /\ cur = None /\ step = "idle"

Exchange ==
  \/ ExchangeAnswers \/ ExchangeSendsBook \/ ExchangePings
  \/ \E c \in Changes : ExchangeChanges(c)
Io == ReadCompletes \/ EnqueueRead \/ DropRead
Poll == Dequeue \/ ProcessPing \/ ProcessOther \/ ProcessBook \/ Callback

Next == Exchange \/ StreamBreaks \/ Reconnects \/ Io \/ Poll

Spec == Init /\ [][Next]_vars

-----------------------------------------------------------------------------
\* The state is well-formed; the queue never outgrows its limit although its
\* size is compared and the message pushed under two separate locks.
TypeOK ==
  /\ truth \in Books /\ book \in Books /\ feed \in Books
  /\ Len(queue) <= QueueMax /\ Len(wire) <= MaxWire
  /\ rx.pc \in {"waiting", "room", "full"}
  /\ step \in {"idle", "classify", "callback"}
  /\ sub \in {"no", "asked", "answered", "live"}

\* Everything received or under way that poll() has not finished, in order.
Pending ==
  (IF cur = None THEN <<>> ELSE <<cur>>) \o queue
  \o (IF rx.pc = "room" THEN <<rx.msg>> ELSE <<>>) \o wire

Applied(b, m) ==
  IF m.data THEN ApplyBatch(b, Whole(m), ToUpdates(m.bids, m.asks)) ELSE b

\* The book after the messages of q: at every price the last message counts
\* that says something about it, as a whole book does about every price.
Speaks(m, s, p) ==
  m.data /\ (Whole(m) \/ About(ToUpdates(m.bids, m.asks), s, p) # {})
Speaking(q, s, p) == {i \in DOMAIN q : Speaks(q[i], s, p)}
AfterAll(b, q) ==
  [s \in Sides |-> [p \in Prices |->
     IF Speaking(q, s, p) = {} THEN b[s][p]
     ELSE Applied(EmptyBook, q[Max(Speaking(q, s, p))])[s][p]]]

\* As long as no message about the book was dropped at the full queue, the
\* application's book plus what is still on its way is the exchange's book:
\* across broken streams, a message cut off in buffer_, new subscriptions,
\* and messages of the old stream that are still queued.
InSync ==
  sub = "live" /\ ~gap => AfterAll(book, Pending) = truth

\* Between two messages, a receiver of the UDP feed that got every datagram
\* since the last snapshot has the application's book.
FeedInSync == UdpEnabled /\ step # "callback" /\ ~feedGap => feed = book

\* The application's book, then what each message on its way will make of it.
Versions ==
  [i \in 1..Len(Pending) + 1 |-> AfterAll(book, SubSeq(Pending, 1, i - 1))]

Delayed == INSTANCE DelayedBook WITH versions <- Versions

\* The application's book moves only forward, through books that the exchange
\* had: across broken streams, a message cut off in buffer_, new subscriptions
\* while the queue still holds messages of the old stream, and whole books
\* dropped at the full queue.  Nothing is said while Bybit's deltas lack one
\* that was dropped (boost_websocket_client.cpp, line 136), which lasts until
\* the next snapshot is queued.
BooksInOrder ==
  /\ Delayed!DInit
  /\ [][(gap' => venue = "OKX") => Delayed!DNext]_<<truth, Versions>>

\* What get_next_message() hands out was sent by the exchange
\* (boost_websocket_client.h, line 60: "the next received message").
OnlyReceived == cur # Garbled
=============================================================================
