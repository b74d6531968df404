# A verification project for the HFT gateway

TLA+ models of the gateway's own logic, the TLC runs that check them on small
instances, and proofs, checked by TLAPS, of what holds for every instance.
`PROJECT.json` lists the components, the runs, the hazards each property is
for, the source lines behind each definition, and the theorems.

## 1. The system

The gateway connects to exchanges (OKX, Bybit) over WebSocket, keeps order
books, republishes market data over UDP, and bridges a DPDK port to the kernel.

| Component | State | Operations | Works with |
| --- | --- | --- | --- |
| `BoostWebSocketClient` | connection flags, retry counter and timer, stream, `io_context` and its thread, `buffer_`, incoming queue | `connect`, `send`, `close`, `get_next_message`, handlers of the asynchronous chain, `simulate_network_failure` | owner's thread and I/O thread; Boost.Asio; the network |
| `OkxConnection`, `BybitConnection` | remembered subscriptions | `connect`, `subscribe`, `resubscribe` (callback on the I/O thread), `poll`, `process_message`, `send_order`, `send_heartbeat` | client, adapter, UDP publisher, callback |
| Adapters | none | classify and parse messages, generate requests | connections |
| `ConcurrentQueue` | a queue under a mutex | `enqueue`, `try_dequeue`, `size_approx` | I/O thread and poll |
| `UdpPublisher` | socket | `init`, `publish` | connections, receivers of the feed |
| `OrderBook`, `OrderBookManager` | two sorted maps under a shared mutex; map of books | `apply_snapshot`, `apply_updates`, `get_bbo`, ... | any threads |
| Forwarding loop, classifier | mbuf reference counts, `hft_ring`, ports | the loop of the main core | DPDK drivers, kernel, a consumer of the ring |
| `MicroTcp` | TCP state, sequence numbers, receive buffer | `connect`, `send_data`, `process_rx`, `extract_rx_data` | `WebSocketClient`, the network |
| `WebSocketClient`, `TlsSocket` | connection state, TLS BIOs, subscriptions, three static flags | `connect`, `process_rx`, `subscribe`, `unsubscribe`, `send_text_message`, `disconnect` | `MicroTcp`, OpenSSL |
| Main program, configuration, port set-up | `force_quit`, the lists of symbols, the ports' states, the worker core | `config_load`, `init_port_mapping`, `configure_ports`, `close_ports`, `main`, `run_logger`, the signal handler | forwarding loop, connections, DPDK, the kernel |
| `JsonParser` | none between calls | `parse_packet`, `parse_packet_safe` | order book |
| Logging, network utilities, registry, binary parser, framer, histogram | little or none | output, pure functions | see section 8 |

What is hard here: two threads share the client without locks, and its
handlers, timers and outstanding operations outlive the stream they were
started for; streams break in the middle of messages; queues, rings and
buffers have limits at which data is dropped; reference counts are shared
between cores; the TCP stack has to survive loss, reordering and wrapped
sequence numbers; a signal may come at any moment of the start or the shutdown,
and any call of the start may fail. Correct means, component by component:

* client: a connected client listens; a retrying client is never lost; one
  reconnection at a time; after an outage it is served again; `close` returns,
  and no handler touches the client after it;
* connections: every remembered subscription reaches the stream that is up;
* data path: the application's book is the exchange's book, delayed, unless
  data was dropped; it never goes back to an older one;
* order book: readers never see half a batch;
* forwarding: no buffer is lost, freed twice or used after being freed, and the
  port does not starve;
* process: ports are open while they are used, DPDK is taken down when nobody
  uses it, a signal ends the process, every configured symbol is subscribed;
* TCP: bytes in order, none acknowledged that was not received, all delivered;
* WebSocket over TCP: a connection comes up, with one upgrade request.

## 2. Modules

| Module | What it is |
| --- | --- |
| `BoostWebSocketClient` | the client with an arbitrary owner |
| `ExchangeConnection` | extends the client with the connection's calls and its resubscription callback |
| `BookOps` | the order book's data and the sequential meaning of its operations |
| `OrderBook`, `OrderBookAtomic` | the book step by step under `mutex_`; the abstract book with atomic operations |
| `MarketDataPath` | exchange, stream, read handler, queue, `poll`, adapters, UDP feed, book (extends `BookOps`) |
| `JsonParser` | what the fast path's parser makes of a message (extends `BookOps`) |
| `FastPath` | threads that feed an `OrderBook` through `JsonParser` (extends both) |
| `Forwarding` | the loop, the classifier, the ring, reference counts |
| `Gateway` | the process around the loop: configuration, ports, connections, worker, signal, shutdown (extends `Forwarding`) |
| `DelayedBook` | what a subscriber may see of the exchange's book: late, with holes, in order; implemented by `MarketDataPath` |
| `MicroTcp`, `TcpConnection` | the TCP client; its composition with a peer and a network |
| `ReliableStream` | the byte stream that `TcpConnection` implements |
| `WebSocketClient` | the client over `MicroTcp` |
| `BookOpsProofs` | lemmas on batches, for the two modules of proofs that use books |
| `*Proofs` | theorems about the module they extend; `OrderBookProofs` also has those of `FastPath`, `GatewayProofs` those of `Forwarding` |
| `MC*` | constants for TLC |

### BoostWebSocketClient and ExchangeConnection

`ready` is the queue of handlers the `io_context` has to run, each with its
outcome; `waiting` the asynchronous operations of the current stream,
`resolving` and `timerArmed` those that do not belong to a stream. `connected`
and `connState` are the two flags of the code, `stage` what has become of
`*ws_`, `written` which messages were written on the stream that is up. An action is
a handler from its start to the point where it returns or calls out
(`on_reconnect` sends message by message: `ResubscribeBegins`,
`ResubscribeSends`, `ResubscribeEnds`). `caller` says where the owner's thread
is inside `connect`, `send` or `close`, so that each of these interleaves with
the handlers. Replacing the stream while an operation uses it is outside what
the library defines; the model takes the outcome its implementation aims at,
that the operation ends with `operation_aborted`. The resubscription iterates
over the list it finds when it begins: a list that is reallocated during the
iteration is a data race and has no better model. The destructor of a connection
has an empty body, so its members go in the reverse order of their declaration:
`ConnDestroy` takes the list of subscriptions and the adapter away, and only then
does `ConnClose`, the client's destructor, close and join. A `resubscribe` that runs
in between runs over destroyed members, which is undefined: it sends anything or
nothing, or crashes (`ResubscribeCrashes`). A link that dies silently is
not an event for the code (there is no timeout on reads), so the model's
failures are the ones the operating system reports.

### OrderBook

One action per lock operation, cleared map, applied level and copied field.
What a whole batch does (`ApplyBatch`) is said without its loop: at every price
the last update of the batch counts.
`AtomicBook` says that it implements `OrderBookAtomic`: the refinement mapping
takes the book to be the one before the batch until the writer unlocks.

### JsonParser and FastPath

A message is the members that the parser looks at, with a flag for each
that may be missing or broken. Prices are integers in units of 1/`PRICE_SCALE`;
`Below` names the quoted prices whose double, times `PRICE_SCALE`, falls short of
the integer, so that the cast (`json_parser.cpp:67`) lowers them, as it does
"0.29". The adapters round; nothing is claimed about a book fed by both.

### MarketDataPath

Messages carry only the members the adapters look at. Stream failures are
abstracted to "breaks, then is replaced and resubscribed", which is what
`ExchangeConnection` establishes (`EventuallyServed`). `gap` and
`feedGap` are history variables: they record what the code does not. A ping is
taken from the queue like every message; what becomes of the pong is `send`'s
matter (`BoostWebSocketClient`), which drops it when the client is not connected. `AfterAll` is
the book after a sequence of messages, again price by price: the last message
counts that says something about it.

`BooksInOrder` says that the path implements `DelayedBook`. The refinement mapping
takes for `versions` the books the application will have: its own, and the one
after each message that is still with `poll`, in the queue, with the read handler
or on the wire (`Versions`). An exchange's message lengthens this list, processing
one shortens it at the front, a broken stream cuts it off, and a message dropped
at the full queue leaves a hole that lasts until the next whole book. Nothing makes
up for a Bybit delta that is dropped, so the steps during such a gap are excepted, until a
snapshot has been queued: of OKX, whose messages are whole books, everything may be
lost.

### Forwarding

A buffer's holders are the burst, the ring, the two transmit queues and the
consumer. Packets are headers, one for every case the classifier
distinguishes. Drivers and the ring's consumer are external.

### Gateway

`main` is where `main()` is. Every call that can fail does so in some
behaviour, and the process then ends as `rte_exit` ends it. `Signal` may happen
at any time; until `EalInit` has registered the handler it kills the process.
The forwarding loop is `Forwarding`'s, stepping while `main = "forward"`: it looks
at `force_quit` only between two rounds. A list of symbols is the sequence of the
fields between its commas; `SymbolCount` is the length of the array, `Tokens` the
fields `strtok` returns, `Index` where each is stored, `Stored` what is found there
later, and `NeverStored` says whether `Subscribe` reads pointers that were never
stored: it then finds null, something that is not a symbol, or crashes. A connection is only its I/O thread here (`ExchangeConnection` has the
rest). `connect` blocks `main()` until it has succeeded or the kernel has given up
(`ConnectReturns`). Its destructor may find the thread in a closing handshake, which no
port carries any more, and waits until the kernel gives up.

### MicroTcp and TcpConnection

Sequence numbers are taken modulo `SeqMod` in place of 2^32, and compared as
the code compares them. The peer cuts its data anywhere, sends again from the
first unacknowledged byte, and closes. Packets may be lost, delayed and
reordered, and there are packets of others. The client never sends again, so
the network is not allowed to lose its SYN and its data; acknowledgments it
may lose. The client takes the bytes out after each packet, as
`WebSocketClient::process_rx` does, so the buffer is empty when the next arrives
(`ClientReceives`). `ReliablyDelivers` says that client, network and peer implement
`ReliableStream`; what the mapping calls received are the bytes handed out and those in
the receive buffer.

### WebSocketClient

Bytes are named by what they carry; what matters is which vector or BIO holds
them. Three places of `process_rx` take bytes out of `wbio_` and hand them to
`send_data`, which returns null when TCP is not established or no mbuf is left; the
bytes are cleared all the same (`HandOut`, `Sendings`), and the code does not notice.
A SYN may be lost for the same reason. `lost` records it. The server's handshake
flight has a length and records, and arrives cut anywhere. `owes` records that the
server has been sent something since its last packet. The private operations for
reconnecting and parsing frames are reached by no public operation and are
left out.

## 3. Runs

Every run is `tlc -config <run>.cfg <module>`.

| Run | Result | Shows |
| --- | --- | --- |
| `conn_safety` | pass | `ListensWhileConnected`, `NeverOrphaned`, `SubscriptionsCovered`, `QuietAfterClose` with network failures and throwing writes |
| `conn_live` | pass | `OneActivity`, `EventuallyServed`, `CloseReturns` while writes do not throw |
| `conn_noretry` | pass | `CloseReturns` when the I/O thread closes the client under itself |
| `conn_flapping` | violation of `EventuallyServed` | a throwing write starts two reconnections that destroy each other's connection for ever |
| `gateway` | pass | `Conserved`, `PortsOpenWhileUsed`, `QuietAtCleanup`, `SymbolsSubscribed`, `NeverStarved` whether or not the ring is drained, `EndsAfterSignal` |
| `orderbook` | pass | `BidStillBest`, refinement of the atomic book, fed by `JsonParser` |
| `market_data` | pass | `InSync`, `FeedInSync` with Bybit's snapshots and deltas and with OKX's whole books |
| `path_cutoff` | violation of `OnlyReceived` | a message cut off by a broken stream is glued to the next stream's first message |
| `tcp_safety` | pass | `StreamIntact`, `NoFalseAck`, `ReliablyDelivers`, sequence numbers wrapping |
| `tcp_live` | pass | `AllDelivered` with losses |
| `tcp_wrap` | violation of `AllDelivered` | at a wrapped sequence number duplicates are not acknowledged again |
| `websocket` | pass | `OneUpgrade`, `GetsConnected` for two clients that share the static flags |

Each violation run checks one statement that a comment, a message or a document
of the repository makes; `findings` in `PROJECT.json` quotes it.

Seen while modelling, and in the models, but without a run of its own:

* `boost_websocket_client.cpp:195`: a client that prints "Giving up." leaves an
  armed timer as it is, and reconnects when it fires.
* `boost_websocket_client.cpp:165`: `close` clears `connected_` and only then stops the
  `io_context`. A handshake whose handler runs in between sets it again: the closed
  client says it is connected, and its new stream is never closed.
* `boost_websocket_client.cpp:31`: `connect` after the I/O thread has ended by
  closing itself starts no thread, or one whose `run()` returns at once.
* `okx_connection.cpp:12`, `bybit_connection.h:60`: the destructors destroy the
  subscriptions and the adapter while the I/O thread, which uses them in
  `resubscribe`, still runs; only then is the client closed.
* `okx_connection.cpp:95`: a pong is sent with `send`, which drops it without a word
  when the client is not connected.
* `micro_tcp.cpp:225`: a FIN is counted and acknowledged whatever its sequence
  number, so one that overtakes data acknowledges a byte that never came.
  `tcp_safety` therefore lets the peer close after its data is acknowledged.
* `websocket_client.cpp:81`: the flags "will be reset" according to the comment
  above them, and are not; the second client to reach TLS never sets the
  server's name, which `tls_socket.cpp:60` calls required.
* `websocket_client.cpp:268`: when no mbuf is left, what was taken from `wbio_` is
  lost. If that was the upgrade request, the client waits for an answer to it all the
  same, and takes the next packet for that answer: it is CONNECTED without ever
  having asked.
* `micro_tcp.cpp:75`: `connect` on an established TCP connection, after a
  `disconnect`, sends nothing, and TLS starts only when a packet arrives: client and
  server wait for each other until one of them has another reason to send.
* `websocket_client.cpp:131`: the bytes of an incomplete record are not kept.
* `config.c:57`: a list with an empty field ("A,,B", or a trailing comma) makes
  `main` read pointers that `malloc` returned and nobody stored.
* `config.c:26`: a list that is set but empty means no symbols at all, not the
  defaults.
* `main.cpp:215`: the ports are closed before the connections that go through
  them, so a closing handshake cannot reach the exchange.
* `main.cpp:185`: `connect` resolves, connects and shakes hands on the main thread,
  before the loop runs that bridges the kernel's port to the physical one. If
  that is the only way to the exchange, each first attempt lasts until the
  kernel gives up; the retry on the I/O thread is the first that can succeed.
* `json_parser.cpp:67`: prices are truncated, the adapters round them. A book fed
  by both would hold one price twice.
* `json_parser.cpp:103`: a message without `action` is refused; `books5`, the channel
  `main` subscribes to, sends none.
* `json_parser.cpp:121`: every element of `data` is read; the adapter stops after
  the first (`okx_adapter.cpp:97`).
* `websocket_client.cpp:350`: the range inserted is empty, so a request is
  never handed out.

### Bounds and why they are enough

* Connection: one or two instruments, so that a subscription can be in flight
  while another is remembered; one or two failures, so that one can hit the
  recovery from another; a retry limit of one or two, so that it is reached.
  `MaxDue` bounds how many handlers may be due when the application makes
  another call. `Bounds` is used only where a throwing write occurs: each flap
  may add an activity.
* Order book: three threads (a writer, and two readers that share the lock),
  three quoted prices, one of which truncation lowers, messages that move,
  delete, repeat and clear levels of both sides, and messages that are refused.
* Data path: a queue of two and a wire of two, so that the queue fills while a
  message is processed and others are read or under way; one break; one ping; one
  price with quotes that appear and vanish.
* Gateway: lists of symbols that are unset, empty, regular and with an empty
  field; required keys present and missing; devices without a physical port,
  and with two of them around the virtio port, so that the last one counts.
* Forwarding, in the same run: four buffers, a ring of two, bursts of two and a consumer that
  holds one: the ring fills while buffers are on both transmit queues, and the
  pool is as small as it may be.
* TCP: two or three bytes, so that segments overlap, a window of two, sequence
  numbers modulo 16 that start just below the wrap in `tcp_safety` and
  `tcp_wrap`.
* WebSocket: two clients for the shared flags, and three calls of `connect`, so
  that one of them connects again before or after the other's first time; a
  flight of two records of two units, so that both a record and the flight can
  be cut, and three failures can be counted.

`CHECK_DEADLOCK FALSE` stands where the program may stop: a closed client, a
process that has ended, a TCP or WebSocket connection with nothing left to
say.

## 4. Fairness

* Connection: the I/O thread and a thread inside a call keep running; armed
  timers expire; resolving, connecting and the handshakes end in success or
  failure; a read on a broken connection ends. The application need never
  call anything, no message need arrive.
* Data path and order book: none. In this release nothing calls `poll`
  (`okx_connection.h` asks for it, `main` enters the forwarding loop), so nothing can
  be claimed to happen eventually.
* Gateway and forwarding: `main()` and the worker run, a port sends what it
  accepted, and the kernel gives up a connection whose peer does not answer. A
  signal need never come.
* TCP: the client is polled, packets that are not lost arrive, the peer
  retransmits.
* WebSocket: the server answers what it was sent, and nothing else: a SYN, a
  ClientHello that gives the server's name, and other bytes. A client whose
  ClientHello does not give the name (because another client had set `sni_set`) may
  be answered or not, and `GetsConnected` excuses it.

## 5. What is proved

Every invariant and every safety property a run checks is also a theorem, for
every value of the constants under the named assumptions of the modules
(`ASSUME`). Action properties and refinements count as safety properties.
These assumptions give the constants their types, say that limits are not
negative, that `HasVirt` is what the device lists say (`Gateway`), that quoted
prices become prices of the book (`FastPath`), that prices are finitely many and quantities the
exchange sends are not negative (`MarketDataPath`; `price_int` is an `int64_t`),
and that a stranger's packets have another address or are malformed
(`TcpConnection`). `OneChain`, `StreamCorrect`, `AcksTruthful` and `TcpIsReliable` have further hypotheses, given with
them. The arguments:

**Client** (`BoostWebSocketClientProofs`). `TypeCorrect`, and from it `ClientListens`
(a connected client has a read outstanding, due or about to start) and
`ClientNeverOrphaned` (a retrying client that has not given up has something
under way). Each invariant is inductive together with `TypeOK`; the work is
in the lemmas on sequences of handlers: appending, taking the head and
aborting the operations of a replaced stream keep a handler that is due, and
every handler that ends one activity starts another.

`ClientQuietAfterClose`: after `close`, which the client's destructor calls, the client's
members go, so no handler may touch them. It says nothing of the owner's members,
which go before (`ConnDestroy`). It needs to know
which thread can be where: once `close` has joined, the thread has ended and no
callback runs (`ClientThreads`, inductive together with `TypeOK`), so a handler that is
still due has no thread to run on. The events of the network may still happen and
touch only what is due or waiting.

**Connection** (`ExchangeConnectionProofs`).

* `ConnListens`, `ConnNeverOrphaned`: the client's theorems hold of the connection,
  because its module is written in terms of the client's actions (lemma
  `ConnImplementsClient`). `ConnTypeCorrect` adds the connection's own variables.
* `SubscriptionsReach`. `SubscriptionsCovered` speaks of the moments when no
  callback runs and is not inductive. `CoverInv` also holds inside the callback
  once `resubscribe` has fixed what it will send, and knows which thread can be
  where (`ThreadInv`: a `connect` never meets a running callback).
* `OneChain`: `OneActivity`, if writes do not throw (`MaxWriteErrors = 0`) and a closed
  client is not opened again (`~MayReopen`). `main` does not reopen; for a write
  that throws, `conn_flapping` shows what happens. Without either hypothesis TLC
  finds two chains. `ActivityInv` counts what carries the client on, by kind, and
  adds that a client that says it is connected is past its handshake, so that no
  refused write starts a second chain.

**Order book** (`OrderBookProofs`, `BookOpsProofs`).

* `BboConsistent`. That a copied bid is still the best needs `LockInv` (a writer
  excludes everyone; who is between lock and unlock holds the lock) and that
  batches consist of updates. `BookTypeCorrect` follows, for any callers and for the
  fast path.
* `BookIsAtomic`: `OrderBook` implements `OrderBookAtomic`. Under the refinement mapping
  the batch is applied when the writer gets the lock; each later step is a
  stutter because one update taken from the batch and applied leaves the outcome
  of the rest (`BatchOneByOne`).
* `FastPathBboConsistent` and `FastPathIsAtomic`: the same of threads that apply what
  `JsonParser` made of any messages (lemma `FastPathUsesBook`).

**Data path** (`MarketDataPathProofs`).

* `PathTypeCorrect`. The queue keeps its limit although `size_approx` and `enqueue`
  lock separately, because only the read handler enqueues (`PathTypes`: with room
  found there is room).
* `FeedCorrect`: between publishing and the callback the receiver is one message
  ahead (`FeedInv`).
* `BookCorrect`: `InSync` across broken streams. `Worked`, `Queued` and `Held` are the book
  after what `poll`, the queue and the read handler still hold; a step of any of
  these moves a message from one to the next and leaves `Held` alone. `SyncInv`
  relates `Held` and the wire to the exchange's book, and adds that a whole book
  on the wire repairs any book (`WireHeals`), by which a new snapshot ends a gap.
* `BookMovesForward`: `Spec => BooksInOrder`, by the invariant of `BookCorrect`. Every
  action outside a Bybit gap is shown to be a step of `DelayedBook` under the
  mapping. `TrackAppend`, `TrackTail`, `TrackCut` and `TrackConcat` say how the list of
  coming books changes when messages are appended, taken, cut off or joined. A
  lost message is the hard case: `TrackLoss` shows that up to the next whole book the
  application stays where it was, and is from there on where it would have been,
  which is what `DelayedBook` calls `Miss`. `SyncInv` is needed where the exchange sends
  a delta: it leads to the exchange's book only from the book the list ends with.

**Forwarding and process** (`GatewayProofs`).

* `MbufsConserved`. `Conserved` alone is not inductive: that the loop frees what it
  holds needs `LoopInv`, which relates `pc`, `burst` and `todo` (nothing left to
  classify outside the classification, no burst between rounds).
* `GatewayConserves`: the same of the whole process, which uses the buffers through
  the loop only (lemma `GatewayForwards`).
* `CleanupIsQuiet` and `PortsAreOpen` follow from `GwInv`, which ties the stage of
  `main()` to the loop's `pc`, to the worker and to the states of the ports
  (`StageInv`, `PortsInv`), says that a closed port holds nothing (`QueueInv`) and that
  a physical port, and a virtio port if there is one, is among the mapped
  (`MappingInv`, which is where the assumption on the device lists is needed).
  `GatewayTypeCorrect` adds the types of the threads.
* `AllSymbolsSubscribed`. The index of a token is the number of tokens before it,
  hence below the count of fields (`TokensFit`); `SymbolsInv` says that the
  environment does not change.

**TCP** (`TcpConnectionProofs`). Arithmetic modulo `SeqMod` is reduced to lemmas
(`PlusInjective`, `PlusPlus`) that the rest cites.

* `TypeCorrect`, from `TypeInv`.
* `StreamCorrect`: what is delivered is a prefix of the peer's stream, under
  `NoWrapAround` (the stream, its SYN and its FIN have sequence numbers of their
  own: fewer than 2^32 bytes on a connection) and `WindowFits` (the peer's window is
  not larger than the receive buffer, so that every segment fits; the code's only
  caller empties the buffer after each packet, and a packet's length has 16 bits).
  `StreamInv` says what every packet on its way to the client may be and that
  `rcv_nxt` stands for the number of bytes received.
* `AcksTruthful`: `NoFalseAck`, if in addition the peer closes only after its data is
  acknowledged (`PeerFins # "sent"`, see `micro_tcp.cpp:225` in section 3). `AckInv`
  says of every acknowledgment under way which byte it stands for.
* `TcpIsReliable`: under the hypotheses of both, each step is one of `ReliableStream` or a
  stutter. `StreamInv` gives the bytes a segment adds, `AckInv` that an acknowledgment
  the peer believes is of a byte received.

**WebSocket over TCP** (`WebSocketClientProofs`). `ClientTypeCorrect`, and
`UpgradeSentOnce` for any number of clients that share the static flags.
`UpgradeInv` says what a client has sent at each stage of its first connection if
none of its bytes were lost, and, whether or not, that no request has been sent
before the turn that finishes TLS and at most one after it. A
client in the TLS stage has had a turn, so that the shared `client_hello_sent` is
set, by whichever client; that is why the flags do no harm to the number of
upgrades.

## 6. What is only model-checked

* Liveness under fairness, which is out of the prover's reach: `EventuallyServed`,
  `CloseReturns`, `NeverStarved`, `EndsAfterSignal`,
  `AllDelivered`, `GetsConnected`.
* The runs that expect a violation.

Induction over data is out of reach too, so what a loop computes is never proved
as the result of a fold. `ApplyBatch` and `AfterAll` are closed forms, and the
lemmas say that they behave as the loops do, step by step: `BatchOfNothing` and
`BatchOneByOne` for a batch, `AfterNone`, `AfterAppend` and `AfterHead` for messages.

The other way round, `BooksInOrder` is only proved: its refinement mapping recomputes a
list of books at every step, which TLC does too slowly for a run of useful size.

## 7. Plan

Done in this order: client and connection; forwarding; order book; data path;
TCP; WebSocket over TCP; the process around the loop; the JSON fast path; proofs
of all invariants; the abstract specifications `ReliableStream` and `DelayedBook` and the
action properties, with proofs. Left:

1. a composition of `ExchangeConnection` with `MarketDataPath`, in which the
   streams break as the client lets them (so far the path assumes what
   `EventuallyServed` establishes);
2. the manager's map of books, with books created while others are read.

## 8. What is not modelled

* Formatting, logging, statistics, checksums, cryptography, byte order and the
  layout of packets and datagrams.
* Code that nothing in this release calls: the private operations of
  `WebSocketClient` for parsing frames, reconnecting and restoring subscriptions,
  the WebSocket framer, the binary parser, the latency histogram, the exchange
  registry. None of it has callers from which to take its environment.
* Name resolution and reading of `/proc` (`network_utils.cpp`): pure I/O whose
  results `main` only logs.
* Undefined behaviour other than as said in section 2: the unlocked map of
  books, the unlocked list of subscriptions, log files closed while the I/O
  threads write to them, the signal handler's own logging.
* Running out of memory in `config_load`.
* Time: delays and back-off are abstracted to "the timer expires some time".
