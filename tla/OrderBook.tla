------------------------------ MODULE OrderBook ------------------------------
(***************************************************************************)
(* One OrderBook (modules/market_data/order_book.cpp) used by several      *)
(* threads at once: the shared_mutex, the updates of a batch one by one,   *)
(* and the two reads of get_bbo one by one.                                *)
(*                                                                         *)
(* apply_update is a batch of one update, clear() a snapshot without       *)
(* levels; the manager's operations find the book and call these.          *)
(***************************************************************************)
EXTENDS BookOps

CONSTANTS
  Threads,   \* the callers
  Batches    \* what may be applied: [snapshot : BOOLEAN, updates : Seq(Updates)]

ASSUME BatchesAssumption ==
  Batches \subseteq [snapshot : BOOLEAN, updates : Seq(Updates)]

VARIABLES
  book,     \* bids_ and asks_
  owner,    \* the threads that hold mutex_ exclusively: none or one
  sharers,  \* the threads that hold mutex_ shared
  pc,       \* where each thread is
  batch,    \* what a writing thread still has to apply
  bid,      \* the bid a reading thread has copied into its BestBidOffer
  answer    \* what get_bbo returned last to each thread

vars == <<book, owner, sharers, pc, batch, bid, answer>>

NoBatch == [snapshot |-> FALSE, updates |-> <<>>]

Goto(t, l) == pc' = [pc EXCEPT ![t] = l]

\* apply_snapshot or apply_updates: std::unique_lock.
\* Mutant: a shared lock would do for a writer.
LockForWriting_Shared(t) ==
  /\ pc[t] = "idle" /\ owner = {}
  /\ \E m \in Batches : batch' = [batch EXCEPT ![t] = m]
  /\ owner' = {t}
  /\ Goto(t, "writing")
  /\ UNCHANGED <<book, sharers, bid, answer>>
LockForWriting(t) ==
  /\ pc[t] = "idle" /\ owner = {} /\ sharers = {}
  /\ \E m \in Batches : batch' = [batch EXCEPT ![t] = m]
  /\ owner' = {t}
  /\ Goto(t, "writing")
  /\ UNCHANGED <<book, sharers, bid, answer>>

\* bids_.clear(), asks_.clear().
ClearSides(t) ==
  /\ pc[t] = "writing" /\ batch[t].snapshot
  /\ book' = EmptyBook
  /\ batch' = [batch EXCEPT ![t].snapshot = FALSE]
  /\ UNCHANGED <<owner, sharers, pc, bid, answer>>

\* One turn of the loop over the updates.
ApplyOne(t) ==
  /\ pc[t] = "writing" /\ ~batch[t].snapshot /\ batch[t].updates # <<>>
  /\ book' = apply_update_internal(book, Head(batch[t].updates))
  /\ batch' = [batch EXCEPT ![t].updates = Tail(@)]
  /\ UNCHANGED <<owner, sharers, pc, bid, answer>>

\* The unique_lock ends with the function.
UnlockWriting(t) ==
  /\ pc[t] = "writing" /\ batch[t] = NoBatch
  /\ owner' = {}
  /\ Goto(t, "idle")
  /\ UNCHANGED <<book, sharers, batch, bid, answer>>

\* get_bbo: std::shared_lock.
\* Mutant: get_bbo takes no lock at all.
LockForReading_Unlocked(t) ==
  /\ pc[t] = "idle"
  /\ sharers' = sharers \cup {t}
  /\ Goto(t, "testing")
  /\ UNCHANGED <<book, owner, batch, bid, answer>>
LockForReading(t) ==
  /\ pc[t] = "idle" /\ owner = {}
  /\ sharers' = sharers \cup {t}
  /\ Goto(t, "testing")
  /\ UNCHANGED <<book, owner, batch, bid, answer>>

\* Return false when a side is empty, else copy the best bid.
CopyBid(t) ==
  /\ pc[t] = "testing"
  /\ \/ /\ Bbo(book) = <<>>
        /\ answer' = [answer EXCEPT ![t] = <<>>]
        /\ sharers' = sharers \ {t}
        /\ Goto(t, "idle")
        /\ UNCHANGED bid
     \/ /\ Bbo(book) # <<>>
        /\ bid' = [bid EXCEPT ![t] = Best(book, "bid")]
        /\ Goto(t, "bidRead")
        /\ UNCHANGED <<answer, sharers>>
  /\ UNCHANGED <<book, owner, batch>>

\* Copy the best ask and return true.
CopyAsk(t) ==
  /\ pc[t] = "bidRead"
  /\ answer' = [answer EXCEPT ![t] = <<bid[t], Best(book, "ask")>>]
  /\ sharers' = sharers \ {t}
  /\ Goto(t, "idle")
  /\ UNCHANGED <<book, owner, batch, bid>>

Init ==
  /\ book = EmptyBook
  /\ owner = {} /\ sharers = {}
  /\ pc = [t \in Threads |-> "idle"]
  /\ batch = [t \in Threads |-> NoBatch]
  /\ bid = [t \in Threads |-> <<>>]
  /\ answer = [t \in Threads |-> <<>>]

Next == \E t \in Threads :
  \/ LockForWriting(t) \/ ClearSides(t) \/ ApplyOne(t) \/ UnlockWriting(t)
  \/ LockForReading(t) \/ CopyBid(t) \/ CopyAsk(t)

Spec == Init /\ [][Next]_vars

-----------------------------------------------------------------------------
\* The book holds positive quantities only, and the threads are where the
\* locks say they are.
TypeOK ==
  /\ book \in Books
  /\ owner \subseteq Threads /\ sharers \subseteq Threads
  /\ pc \in [Threads -> {"idle", "writing", "testing", "bidRead"}]
  /\ batch \in [Threads -> [snapshot : BOOLEAN, updates : Seq(Updates)]]

\* A thread inside get_bbo that has copied the best bid (order_book.cpp,
\* line 70) still sees that bid, and an ask beside it, when it copies the
\* ask: no batch is half applied while a bid and an offer are read.
BidStillBest ==
  \A t \in Threads : pc[t] = "bidRead" =>
    /\ Bbo(book) # <<>>
    /\ bid[t] = Best(book, "bid")

\* The book as its users see it: a batch counts from the moment its writer
\* holds the lock.
Seen ==
  LET W == {t \in Threads : pc[t] = "writing"}
  IN  IF W = {} THEN book
      ELSE LET m == batch[CHOOSE t \in W : TRUE]
           IN  ApplyBatch(book, m.snapshot, m.updates)

Atomic == INSTANCE OrderBookAtomic WITH abook <- Seen

\* Batches and questions take effect one at a time (order_book.h, line 84:
\* thread-safe access): no caller of get_bbo is ever told a pair of prices
\* that no completed sequence of batches has produced.
AtomicBook == Atomic!ASpec
=============================================================================
