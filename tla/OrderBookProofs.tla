--------------------------- MODULE OrderBookProofs ---------------------------
(***************************************************************************)
(* The lock of an order book does its work for every set of threads and    *)
(* batches: the pair of prices get_bbo copies belongs to one book, and     *)
(* batches and questions take effect one at a time, also when the threads  *)
(* pass on what JsonParser makes of messages.                              *)
(***************************************************************************)
EXTENDS FastPath, BookOpsProofs

\* mutex_ is held exclusively by the one writing thread, or shared by the
\* threads inside get_bbo.
LockInv ==
  /\ owner = {t \in Threads : pc[t] = "writing"}
  /\ sharers = {t \in Threads : pc[t] \in {"testing", "bidRead"}}
  /\ owner = {} \/ sharers = {}
  /\ \A s, t \in owner : s = t

\* Every thread has a BestBidOffer of its own.
BidInv == bid = [t \in Threads |-> bid[t]]

IInv == TypeOK /\ LockInv /\ BidInv /\ BidStillBest

LEMMA InitInv == Init => IInv
<1> SUFFICES ASSUME Init PROVE IInv
  OBVIOUS
<1>1. TypeOK
  BY EmptyBookIsBook DEF Init, TypeOK, NoBatch
<1>2. LockInv
  BY DEF Init, LockInv
<1>3. BidStillBest /\ BidInv
  BY DEF Init, BidStillBest, BidInv
<1> QED
  BY <1>1, <1>2, <1>3 DEF IInv

\* A step of one thread keeps the invariant.
LEMMA StepInv == IInv /\ [Next]_vars => IInv'
<1> SUFFICES ASSUME IInv, [Next]_vars PROVE IInv'
  OBVIOUS
<1> USE DEF IInv
<1>1. CASE UNCHANGED vars
  <2>1. TypeOK'
    BY <1>1 DEF vars, TypeOK
  <2>2. LockInv'
    BY <1>1 DEF vars, LockInv
  <2>3. BidStillBest' /\ BidInv'
    BY <1>1 DEF vars, BidStillBest, BidInv
  <2> QED
    BY <2>1, <2>2, <2>3
<1>2. ASSUME NEW t \in Threads, LockForWriting(t) PROVE IInv'
  <2>1. TypeOK'
    <3>1. PICK m \in Batches : batch' = [batch EXCEPT ![t] = m]
      BY <1>2 DEF LockForWriting
    <3>2. m \in [snapshot : BOOLEAN, updates : Seq(Updates)]
      BY BatchesAssumption
    <3> QED
      BY <1>2, <3>1, <3>2 DEF LockForWriting, Goto, TypeOK
  <2>2. LockInv'
    BY <1>2 DEF LockForWriting, Goto, LockInv, TypeOK
  <2>3. BidStillBest' /\ BidInv'
    BY <1>2 DEF LockForWriting, Goto, BidStillBest, TypeOK, BidInv
  <2> QED
    BY <2>1, <2>2, <2>3
<1>3. ASSUME NEW t \in Threads, ClearSides(t) PROVE IInv'
  <2>1. TypeOK'
    BY <1>3, EmptyBookIsBook DEF ClearSides, TypeOK
  <2>2. LockInv'
    BY <1>3 DEF ClearSides, LockInv
  <2>3. BidStillBest' /\ BidInv'
    BY <1>3 DEF ClearSides, BidStillBest, LockInv, BidInv
  <2> QED
    BY <2>1, <2>2, <2>3
<1>4. ASSUME NEW t \in Threads, ApplyOne(t) PROVE IInv'
  <2>1. TypeOK'
    <3>1. batch[t] \in [snapshot : BOOLEAN, updates : Seq(Updates)]
      BY DEF TypeOK
    <3>2. /\ Head(batch[t].updates) \in Updates
          /\ Tail(batch[t].updates) \in Seq(Updates)
      BY <1>4, <3>1 DEF ApplyOne
    <3>3. book' \in Books
      BY <1>4, <3>2, UpdateKeepsBook DEF ApplyOne, TypeOK
    <3>4. batch' \in [Threads -> [snapshot : BOOLEAN, updates : Seq(Updates)]]
      BY <1>4, <3>1, <3>2 DEF ApplyOne, TypeOK
    <3> QED
      BY <1>4, <3>3, <3>4 DEF ApplyOne, TypeOK
  <2>2. LockInv'
    BY <1>4 DEF ApplyOne, LockInv
  <2>3. BidStillBest' /\ BidInv'
    BY <1>4 DEF ApplyOne, BidStillBest, LockInv, BidInv
  <2> QED
    BY <2>1, <2>2, <2>3
<1>5. ASSUME NEW t \in Threads, UnlockWriting(t) PROVE IInv'
  <2>1. TypeOK'
    BY <1>5 DEF UnlockWriting, Goto, TypeOK
  <2>2. LockInv'
    BY <1>5 DEF UnlockWriting, Goto, LockInv, TypeOK
  <2>3. BidStillBest' /\ BidInv'
    BY <1>5 DEF UnlockWriting, Goto, BidStillBest, TypeOK, BidInv
  <2> QED
    BY <2>1, <2>2, <2>3
<1>6. ASSUME NEW t \in Threads, LockForReading(t) PROVE IInv'
  <2>1. TypeOK'
    BY <1>6 DEF LockForReading, Goto, TypeOK
  <2>2. LockInv'
    BY <1>6 DEF LockForReading, Goto, LockInv, TypeOK
  <2>3. BidStillBest' /\ BidInv'
    BY <1>6 DEF LockForReading, Goto, BidStillBest, TypeOK, BidInv
  <2> QED
    BY <2>1, <2>2, <2>3
<1>7. ASSUME NEW t \in Threads, CopyBid(t) PROVE IInv'
  <2>1. TypeOK'
    BY <1>7 DEF CopyBid, Goto, TypeOK
  <2>2. LockInv'
    BY <1>7 DEF CopyBid, Goto, LockInv, TypeOK
  <2>3. BidStillBest'
    <3> SUFFICES ASSUME NEW s \in Threads, pc'[s] = "bidRead"
                 PROVE  Bbo(book) # <<>> /\ bid'[s] = Best(book, "bid")
      BY <1>7 DEF BidStillBest, CopyBid
    <3>1. CASE s = t
      BY <1>7, <3>1 DEF CopyBid, Goto, TypeOK, BidInv
    <3>2. CASE s # t
      BY <1>7, <3>2 DEF CopyBid, Goto, TypeOK, BidInv, BidStillBest
    <3> QED
      BY <3>1, <3>2
  <2>4. BidInv'
    BY <1>7 DEF CopyBid, BidInv
  <2> QED
    BY <2>1, <2>2, <2>3, <2>4
<1>8. ASSUME NEW t \in Threads, CopyAsk(t) PROVE IInv'
  <2>1. TypeOK'
    BY <1>8 DEF CopyAsk, Goto, TypeOK
  <2>2. LockInv'
    BY <1>8 DEF CopyAsk, Goto, LockInv, TypeOK
  <2>3. BidStillBest' /\ BidInv'
    BY <1>8 DEF CopyAsk, Goto, BidStillBest, TypeOK, BidInv
  <2> QED
    BY <2>1, <2>2, <2>3
<1> QED
  BY <1>1, <1>2, <1>3, <1>4, <1>5, <1>6, <1>7, <1>8 DEF Next

\* Whoever shares the book, the ask get_bbo copies belongs to the book its
\* bid was taken from, and quantities in the book stay positive.
THEOREM BboConsistent == Spec => [](TypeOK /\ BidStillBest)
<1>1. IInv => TypeOK /\ BidStillBest
  BY DEF IInv
<1> QED
  BY InitInv, StepInv, <1>1, PTL DEF Spec

-----------------------------------------------------------------------------
(* The book and its operations one at a time.                              *)

\* OrderBookAtomic and OrderBook mean the same by a batch and by the best
\* bid and offer.
LEMMA SameOperators ==
  /\ \A b, snapshot, us : Atomic!ApplyBatch(b, snapshot, us) = ApplyBatch(b, snapshot, us)
  /\ \A b : Atomic!Bbo(b) = Bbo(b)
  /\ Atomic!EmptyBook = EmptyBook
<1>1. Atomic!EmptyBook = EmptyBook
  BY DEF EmptyBook, Atomic!EmptyBook, Sides, Atomic!Sides
<1>2. \A b, snapshot, us : Atomic!ApplyBatch(b, snapshot, us) = ApplyBatch(b, snapshot, us)
  BY DEF ApplyBatch, Atomic!ApplyBatch, Sides, Atomic!Sides, About, Atomic!About,
     QuantityLeft, Atomic!QuantityLeft, Max, Atomic!Max
<1>3. \A b : Atomic!Bbo(b) = Bbo(b)
  BY DEF Bbo, Atomic!Bbo, OnSide, Atomic!OnSide, Best, Atomic!Best, BestOf, Atomic!BestOf
<1> QED BY <1>1, <1>2, <1>3

\* A batch counts from the moment its writer holds the lock.
LEMMA SeenWriting ==
  ASSUME IInv, NEW t \in Threads, pc[t] = "writing"
  PROVE  Seen = ApplyBatch(book, batch[t].snapshot, batch[t].updates)
<1> DEFINE W == {x \in Threads : pc[x] = "writing"}
<1>1. W # {} /\ \A x \in W : x = t
  BY DEF IInv, LockInv
<1>2. (CHOOSE x \in W : TRUE) = t
  <2> HIDE DEF W
  <2> QED BY <1>1
<1> QED BY <1>1, <1>2 DEF Seen

LEMMA SeenOtherwise ==
  ASSUME \A t \in Threads : pc[t] # "writing"
  PROVE  Seen = book
BY DEF Seen

\* The same of the state after a step.
LEMMA SeenWritingNext ==
  ASSUME IInv', NEW t \in Threads, pc'[t] = "writing"
  PROVE  Seen' = ApplyBatch(book', batch'[t].snapshot, batch'[t].updates)
<1> DEFINE W == {x \in Threads : pc'[x] = "writing"}
<1>1. W # {} /\ \A x \in W : x = t
  BY DEF IInv, LockInv
<1>2. (CHOOSE x \in W : TRUE) = t
  <2> HIDE DEF W
  <2> QED BY <1>1
<1> QED BY <1>1, <1>2 DEF Seen

LEMMA SeenOtherwiseNext ==
  ASSUME \A t \in Threads : pc'[t] # "writing"
  PROVE  Seen' = book'
BY DEF Seen

\* What each operation does to the book its users see: taking the lock for a
\* batch applies the batch, nothing else changes it.
LEMMA LockSeen ==
  ASSUME IInv, IInv', NEW t \in Threads, LockForWriting(t)
  PROVE  Seen' = ApplyBatch(Seen, batch'[t].snapshot, batch'[t].updates)
<1>1. Seen = book
  BY SeenOtherwise DEF LockForWriting, IInv, LockInv
<1>2. pc'[t] = "writing" /\ book' = book
  BY DEF LockForWriting, Goto, IInv, TypeOK
<1> QED BY <1>1, <1>2, SeenWritingNext

LEMMA OtherSeen ==
  ASSUME IInv, IInv', NEW t \in Threads,
         \/ ClearSides(t) \/ ApplyOne(t) \/ UnlockWriting(t)
         \/ LockForReading(t) \/ CopyBid(t) \/ CopyAsk(t)
  PROVE  Seen' = Seen
<1>1. CASE ClearSides(t)
  <2>1. pc[t] = "writing" /\ pc'[t] = "writing" /\ batch[t].snapshot = TRUE /\ book' = EmptyBook
        /\ batch'[t].snapshot = FALSE /\ batch'[t].updates = batch[t].updates
    BY <1>1 DEF ClearSides, IInv, TypeOK
  <2>2. Seen = ApplyBatch(book, TRUE, batch[t].updates)
    BY <2>1, SeenWriting
  <2>3. Seen' = ApplyBatch(EmptyBook, FALSE, batch[t].updates)
    BY <2>1, SeenWritingNext
  <2> QED BY <2>2, <2>3, SnapshotStartsEmpty
<1>2. CASE ApplyOne(t)
  <2> DEFINE us == batch[t].updates
  <2>1. /\ pc[t] = "writing" /\ pc'[t] = "writing"
        /\ batch[t].snapshot = FALSE /\ us # <<>> /\ us \in Seq(Updates) /\ book \in Books
        /\ book' = apply_update_internal(book, Head(us))
        /\ batch'[t].snapshot = FALSE /\ batch'[t].updates = Tail(us)
    BY <1>2 DEF ApplyOne, IInv, TypeOK
  <2>2. Seen = ApplyBatch(book, FALSE, us)
    BY <2>1, SeenWriting
  <2>3. Seen' = ApplyBatch(apply_update_internal(book, Head(us)), FALSE, Tail(us))
    BY <2>1, SeenWritingNext
  <2> QED BY <2>1, <2>2, <2>3, BatchOneByOne
<1>3. CASE UnlockWriting(t)
  <2>1. pc[t] = "writing" /\ batch[t].snapshot = FALSE /\ batch[t].updates = <<>> /\ book' = book
        /\ book \in Books
    BY <1>3 DEF UnlockWriting, NoBatch, IInv, TypeOK
  <2>2. Seen = book
    BY <2>1, SeenWriting, BatchOfNothing
  <2>3. \A x \in Threads : pc'[x] # "writing"
    BY <1>3 DEF UnlockWriting, IInv, LockInv
  <2> QED BY <2>1, <2>2, <2>3, SeenOtherwiseNext
<1>4. CASE LockForReading(t) \/ CopyBid(t) \/ CopyAsk(t)
  <2>1. UNCHANGED <<book, batch>> /\ \A x \in Threads : pc[x] # "writing" /\ pc'[x] # "writing"
    BY <1>4 DEF LockForReading, CopyBid, CopyAsk, Goto, IInv, LockInv, TypeOK
  <2> QED BY <2>1, SeenOtherwise, SeenOtherwiseNext
<1> QED BY <1>1, <1>2, <1>3, <1>4

\* What get_bbo answers is the best bid and offer of the book seen.
LEMMA AnswerSeen ==
  ASSUME IInv, NEW t \in Threads,
         \/ ClearSides(t) \/ ApplyOne(t) \/ UnlockWriting(t)
         \/ LockForReading(t) \/ CopyBid(t) \/ CopyAsk(t)
  PROVE  answer' = answer \/ answer' = [answer EXCEPT ![t] = Bbo(Seen)]
<1>1. CASE UNCHANGED answer
  BY <1>1
<1>2. ASSUME CopyBid(t) \/ CopyAsk(t) PROVE Seen = book
  <2>1. \A x \in Threads : pc[x] # "writing"
    BY <1>2 DEF CopyBid, CopyAsk, IInv, LockInv
  <2> QED BY <2>1, SeenOtherwise
<1>3. CASE CopyBid(t)
  BY <1>2, <1>3 DEF CopyBid
<1>4. CASE CopyAsk(t)
  <2>1. Bbo(book) # <<>> /\ bid[t] = Best(book, "bid")
    BY <1>4 DEF CopyAsk, IInv, BidStillBest
  <2>2. Bbo(book) = <<bid[t], Best(book, "ask")>>
    BY <2>1 DEF Bbo
  <2> QED BY <1>2, <1>4, <2>2 DEF CopyAsk
<1> QED
  BY <1>1, <1>3, <1>4 DEF ClearSides, ApplyOne, UnlockWriting, LockForReading

LEMMA InitAtomic == Init => Atomic!AInit
<1> SUFFICES ASSUME Init PROVE Atomic!AInit
  OBVIOUS
<1>1. Seen = book
  BY SeenOtherwise DEF Init
<1> QED BY <1>1, SameOperators DEF Init, Atomic!AInit

LEMMA StepAtomic ==
  ASSUME IInv, IInv', [Next]_vars
  PROVE  [Atomic!ANext]_(Atomic!avars)
<1> USE DEF Atomic!avars
<1>1. CASE UNCHANGED vars
  BY <1>1 DEF vars, Seen
<1>2. ASSUME NEW t \in Threads, LockForWriting(t) PROVE Atomic!ANext
  <2>1. PICK m \in Batches : batch' = [batch EXCEPT ![t] = m]
    BY <1>2 DEF LockForWriting
  <2>2. batch'[t] = m /\ UNCHANGED answer
    BY <1>2, <2>1 DEF LockForWriting, IInv, TypeOK
  <2>3. Seen' = ApplyBatch(Seen, m.snapshot, m.updates)
    BY <1>2, <2>2, LockSeen
  <2>4. Atomic!AWrite(m)
    BY <2>2, <2>3, SameOperators DEF Atomic!AWrite
  <2> QED BY <2>4 DEF Atomic!ANext
<1>3. ASSUME NEW t \in Threads,
             \/ ClearSides(t) \/ ApplyOne(t) \/ UnlockWriting(t)
             \/ LockForReading(t) \/ CopyBid(t) \/ CopyAsk(t)
      PROVE  [Atomic!ANext]_(Atomic!avars)
  <2>1. Seen' = Seen
    BY <1>3, OtherSeen
  <2>2. CASE answer' = [answer EXCEPT ![t] = Bbo(Seen)]
    <3>1. Atomic!ARead(t)
      BY <2>1, <2>2, SameOperators DEF Atomic!ARead
    <3> QED BY <3>1 DEF Atomic!ANext
  <2>3. CASE answer' = answer
    BY <2>1, <2>3
  <2> QED BY <1>3, <2>2, <2>3, AnswerSeen
<1> QED BY <1>1, <1>2, <1>3 DEF Next

\* An order book shared by any threads behaves as if every batch and every
\* get_bbo took effect at one moment: the loop under the unique_lock is one
\* batch, in which the last update for a price counts, and the two reads
\* under the shared_lock are one question.
THEOREM BookIsAtomic == Spec => AtomicBook
<1>1. IInv /\ [Next]_vars => IInv' /\ [Atomic!ANext]_(Atomic!avars)
  BY StepInv, StepAtomic
<1> QED BY InitInv, InitAtomic, <1>1, PTL DEF Spec, AtomicBook, Atomic!ASpec

-----------------------------------------------------------------------------
(* The fast path.                                                          *)

LEMMA FpStepRefines ==
  ASSUME [FpNext]_vars
  PROVE  [Next]_vars
<1>1. CASE UNCHANGED vars
  BY <1>1
<1>2. ASSUME NEW t \in Threads, NEW m \in Messages, Receive(t, m) PROVE Next
  BY <1>2 DEF Receive, Next
<1>3. ASSUME NEW t \in Threads,
             \/ ClearSides(t) \/ ApplyOne(t) \/ UnlockWriting(t)
             \/ LockForReading(t) \/ CopyBid(t) \/ CopyAsk(t)
      PROVE  Next
  BY <1>3 DEF Next
<1> QED BY <1>1, <1>2, <1>3 DEF FpNext

\* A thread that passes on what JsonParser makes of a message uses the book
\* as OrderBook says: it takes the lock, and the message is one batch.
LEMMA FastPathUsesBook == FpSpec => Spec
BY FpStepRefines, PTL DEF FpSpec, Spec

\* get_bbo copies a bid and an ask of one book while messages are parsed and
\* applied by other threads.
THEOREM FastPathBboConsistent == FpSpec => [](TypeOK /\ BidStillBest)
BY FastPathUsesBook, BboConsistent, PTL

\* Quantities in the book stay positive and every thread is where the lock
\* says it is, for any caller and for one that parses messages.
THEOREM BookTypeCorrect == (Spec => []TypeOK) /\ (FpSpec => []TypeOK)
BY FastPathUsesBook, BboConsistent, PTL

\* The batches the fast path makes of its messages take effect one at a time,
\* and a question for the best bid and offer is answered from one book.
THEOREM FastPathIsAtomic == FpSpec => AtomicBook
BY FastPathUsesBook, BookIsAtomic, PTL
=============================================================================
