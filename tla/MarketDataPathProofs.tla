------------------------ MODULE MarketDataPathProofs ------------------------
(***************************************************************************)
(* Proofs about the path of market data, for every set of prices and of    *)
(* changes, every size of the queue, any number of broken streams and of   *)
(* messages under way.                                                     *)
(***************************************************************************)
EXTENDS MarketDataPath, BookOpsProofs, FiniteSetTheorems

\* Messages as records, whatever the venue.
Msg ==
  [text : {"json", "garbled", "none", "ping"}, op : {"none", "ping", "subscribe"},
   success : BOOLEAN, event : {"none", "subscribe"},
   channel : {"none", "books5", "orderbook"}, action : {"none", "snapshot", "delta"},
   data : BOOLEAN, bids : Seq(Levels), asks : Seq(Levels)]

-----------------------------------------------------------------------------
(* What a sequence of messages makes of a book.                            *)

\* The updates of a message are updates.
LEMMA MsgUpdates ==
  ASSUME NEW m \in Msg
  PROVE  ToUpdates(m.bids, m.asks) \in Seq(Updates) /\ Whole(m) \in BOOLEAN
<1>1. m.bids \in Seq(Levels) /\ m.asks \in Seq(Levels)
  BY DEF Msg
<1> QED BY <1>1, ToUpdatesOf DEF Whole

\* A message makes a book of a book, and says what it says whatever the book
\* was before.
LEMMA AppliedAt ==
  ASSUME NEW b \in Books, NEW m \in Msg
  PROVE  /\ Applied(b, m) \in Books
         /\ \A s \in Sides, p \in Prices :
              Applied(b, m)[s][p] = IF Speaks(m, s, p) THEN Applied(EmptyBook, m)[s][p] ELSE b[s][p]
<1> DEFINE us == ToUpdates(m.bids, m.asks)
           w == Whole(m)
<1>1. us \in Seq(Updates) /\ w \in BOOLEAN
  BY MsgUpdates
<1>2. \A c : Applied(c, m) = IF m.data THEN ApplyBatch(c, w, us) ELSE c
  BY DEF Applied
<1>3. \A s, p : Speaks(m, s, p) <=> m.data /\ (w \/ About(us, s, p) # {})
  BY DEF Speaks
<1> HIDE DEF us, w
<1>4. Applied(b, m) \in Books
  BY <1>1, <1>2, BatchKeepsBook
<1>5. ASSUME NEW s \in Sides, NEW p \in Prices
      PROVE  Applied(b, m)[s][p] = IF Speaks(m, s, p) THEN Applied(EmptyBook, m)[s][p] ELSE b[s][p]
  <2>1. CASE ~m.data
    BY <1>2, <1>3, <2>1
  <2>2. CASE m.data
    <3>1. ASSUME NEW c
          PROVE  Applied(c, m)[s][p] =
                   IF About(us, s, p) # {} THEN QuantityLeft(us[Max(About(us, s, p))])
                   ELSE IF w THEN 0 ELSE c[s][p]
      BY <1>2, <2>2 DEF ApplyBatch
    <3> QED BY <1>3, <2>2, <3>1
  <2> QED BY <2>1, <2>2
<1> QED BY <1>4, <1>5

\* The last message that speaks of a price is one that does.
LEMMA LastSpeaking ==
  ASSUME NEW q \in Seq(Msg), NEW s, NEW p, Speaking(q, s, p) # {}
  PROVE  /\ Max(Speaking(q, s, p)) \in Speaking(q, s, p)
         /\ Max(Speaking(q, s, p)) \in 1..Len(q)
         /\ \A k \in Speaking(q, s, p) : k <= Max(Speaking(q, s, p))
<1>1. Len(q) \in Nat /\ Speaking(q, s, p) \in SUBSET (1..Len(q))
  BY DEF Speaking
<1>2. /\ Max(Speaking(q, s, p)) \in Speaking(q, s, p)
      /\ \A k \in Speaking(q, s, p) : k <= Max(Speaking(q, s, p))
  BY <1>1, MaxOfPositions
<1> QED BY <1>1, <1>2

\* At every price, what AfterAll says.
LEMMA AfterAllAt ==
  ASSUME NEW b, NEW q, NEW s \in Sides, NEW p \in Prices
  PROVE  AfterAll(b, q)[s][p] = IF Speaking(q, s, p) = {} THEN b[s][p]
                                ELSE Applied(EmptyBook, q[Max(Speaking(q, s, p))])[s][p]
BY DEF AfterAll

\* Messages make a book of a book.
LEMMA AfterAllIsBook ==
  ASSUME NEW b \in Books, NEW q \in Seq(Msg)
  PROVE  AfterAll(b, q) \in Books
<1> DEFINE v(s, p) == IF Speaking(q, s, p) = {} THEN b[s][p]
                      ELSE Applied(EmptyBook, q[Max(Speaking(q, s, p))])[s][p]
<1>1. ASSUME NEW s \in Sides, NEW p \in Prices PROVE v(s, p) \in Stored
  <2>1. CASE Speaking(q, s, p) # {}
    <3>1. q[Max(Speaking(q, s, p))] \in Msg
      BY <2>1, LastSpeaking
    <3>2. Applied(EmptyBook, q[Max(Speaking(q, s, p))]) \in Books
      BY <3>1, AppliedAt, EmptyBookIsBook
    <3> QED BY <2>1, <3>2 DEF Books
  <2>2. b[s][p] \in Stored
    BY DEF Books
  <2> QED BY <2>1, <2>2
<1>2. AfterAll(b, q) = [s \in Sides |-> [p \in Prices |-> v(s, p)]]
  BY DEF AfterAll
<1> HIDE DEF v
<1> QED BY <1>1, <1>2 DEF Books

\* Two books are the same when they agree at every price.
LEMMA SameBook ==
  ASSUME NEW a \in Books, NEW b \in Books,
         \A s \in Sides, p \in Prices : a[s][p] = b[s][p]
  PROVE  a = b
<1>1. \A s \in Sides : a[s] \in [Prices -> Stored] /\ b[s] \in [Prices -> Stored]
  BY DEF Books
<1>2. \A s \in Sides : a[s] = b[s]
  BY <1>1
<1> QED BY <1>2 DEF Books

\* Messages in two parts.
LEMMA AfterConcat ==
  ASSUME NEW b \in Books, NEW q \in Seq(Msg), NEW r \in Seq(Msg)
  PROVE  AfterAll(b, q \o r) = AfterAll(AfterAll(b, q), r)
<1> DEFINE qr == q \o r
           n == Len(q)
<1>1. /\ qr \in Seq(Msg) /\ n \in Nat /\ Len(qr) = n + Len(r) /\ Len(r) \in Nat
      /\ DOMAIN qr = 1..n + Len(r) /\ DOMAIN q = 1..n /\ DOMAIN r = 1..Len(r)
      /\ \A i \in 1..n : qr[i] = q[i]
      /\ \A i \in 1..Len(r) : qr[n + i] = r[i]
  OBVIOUS
<1>2. AfterAll(b, qr) \in Books /\ AfterAll(AfterAll(b, q), r) \in Books
  BY <1>1, AfterAllIsBook
<1> HIDE DEF qr, n
<1>3. ASSUME NEW s \in Sides, NEW p \in Prices
      PROVE  AfterAll(b, qr)[s][p] = AfterAll(AfterAll(b, q), r)[s][p]
  <2> DEFINE A == Speaking(qr, s, p)
             Q == Speaking(q, s, p)
             R == Speaking(r, s, p)
  <2>1. /\ \A i \in Q : i \in A /\ i \in 1..n
        /\ \A i \in R : n + i \in A /\ i \in 1..Len(r)
        /\ \A i \in A : i \in 1..n + Len(r) /\ (i \in Q \/ i - n \in R)
    BY <1>1 DEF Speaking
  <2>2. /\ A # {} => Max(A) \in A /\ \A k \in A : k <= Max(A)
        /\ Q # {} => Max(Q) \in Q /\ \A k \in Q : k <= Max(Q)
        /\ R # {} => Max(R) \in R /\ \A k \in R : k <= Max(R)
    BY <1>1, LastSpeaking
  <2>3. /\ AfterAll(b, qr)[s][p] = IF A = {} THEN b[s][p] ELSE Applied(EmptyBook, qr[Max(A)])[s][p]
        /\ AfterAll(b, q)[s][p] = IF Q = {} THEN b[s][p] ELSE Applied(EmptyBook, q[Max(Q)])[s][p]
        /\ AfterAll(AfterAll(b, q), r)[s][p] =
             IF R = {} THEN AfterAll(b, q)[s][p] ELSE Applied(EmptyBook, r[Max(R)])[s][p]
    BY AfterAllAt
  <2> HIDE DEF A, Q, R
  <2>4. CASE R # {}
    <3>1. A # {} /\ Max(A) \in A /\ Max(R) \in R /\ Max(A) >= n + Max(R)
      BY <2>1, <2>2, <2>4
    <3>2. Max(A) - n \in R
      BY <1>1, <2>1, <3>1
    <3>3. Max(A) = n + Max(R)
      BY <1>1, <2>1, <2>2, <2>4, <3>1, <3>2
    <3>4. qr[Max(A)] = r[Max(R)]
      BY <1>1, <2>1, <3>1, <3>3
    <3> QED BY <2>3, <2>4, <3>1, <3>4
  <2>5. CASE R = {} /\ Q # {}
    <3>1. A = Q
      BY <2>1, <2>5
    <3>2. qr[Max(A)] = q[Max(Q)]
      BY <1>1, <2>1, <2>2, <2>5, <3>1
    <3> QED BY <2>3, <2>5, <3>1, <3>2
  <2>6. CASE R = {} /\ Q = {}
    BY <2>1, <2>3, <2>6
  <2> QED BY <2>4, <2>5, <2>6
<1> QED BY <1>2, <1>3, SameBook DEF qr

\* One message.
LEMMA AfterOne ==
  ASSUME NEW b \in Books, NEW m \in Msg
  PROVE  AfterAll(b, <<m>>) = Applied(b, m)
<1> DEFINE q == <<m>>
<1>1. q \in Seq(Msg) /\ DOMAIN q = {1} /\ q[1] = m /\ Len(q) = 1
  OBVIOUS
<1> HIDE DEF q
<1>2. ASSUME NEW s \in Sides, NEW p \in Prices PROVE AfterAll(b, q)[s][p] = Applied(b, m)[s][p]
  <2>1. CASE Speaks(m, s, p)
    <3>1. Speaking(q, s, p) # {}
      BY <1>1, <2>1 DEF Speaking
    <3>2. Max(Speaking(q, s, p)) = 1
      <4>1. Max(Speaking(q, s, p)) \in 1..1
        BY <1>1, <3>1, LastSpeaking
      <4> QED BY <4>1
    <3> QED BY <1>1, <2>1, <3>1, <3>2, AfterAllAt, AppliedAt
  <2>2. CASE ~Speaks(m, s, p)
    <3>1. Speaking(q, s, p) = {}
      BY <1>1, <2>2 DEF Speaking
    <3> QED BY <2>2, <3>1, AfterAllAt, AppliedAt
  <2> QED BY <2>1, <2>2
<1>3. AfterAll(b, q) \in Books /\ Applied(b, m) \in Books
  BY <1>1, AfterAllIsBook, AppliedAt
<1> QED BY <1>2, <1>3, SameBook DEF q

\* No message.
LEMMA AfterNone ==
  ASSUME NEW b \in Books
  PROVE  AfterAll(b, <<>>) = b
<1> DEFINE q == <<>>
<1>1. q \in Seq(Msg) /\ \A s, p : Speaking(q, s, p) = {}
  BY DEF Speaking
<1> HIDE DEF q
<1>2. AfterAll(b, q) \in Books
  BY <1>1, AfterAllIsBook
<1>3. \A s \in Sides, p \in Prices : AfterAll(b, q)[s][p] = b[s][p]
  BY <1>1, AfterAllAt
<1> QED BY <1>2, <1>3, SameBook DEF q

\* One more message, at the end or at the beginning.
LEMMA AfterAppend ==
  ASSUME NEW b \in Books, NEW q \in Seq(Msg), NEW m \in Msg
  PROVE  AfterAll(b, Append(q, m)) = Applied(AfterAll(b, q), m)
<1>1. Append(q, m) = q \o <<m>> /\ <<m>> \in Seq(Msg)
  OBVIOUS
<1>2. AfterAll(b, q \o <<m>>) = AfterAll(AfterAll(b, q), <<m>>)
  BY <1>1, AfterConcat, Zenon
<1>3. AfterAll(AfterAll(b, q), <<m>>) = Applied(AfterAll(b, q), m)
  BY AfterAllIsBook, AfterOne, Zenon
<1> QED BY <1>1, <1>2, <1>3, Zenon

LEMMA AfterHead ==
  ASSUME NEW b \in Books, NEW q \in Seq(Msg), q # <<>>
  PROVE  AfterAll(b, q) = AfterAll(Applied(b, Head(q)), Tail(q))
<1> DEFINE m == Head(q)
           t == Tail(q)
           o == <<m>>
<1>1. m \in Msg /\ t \in Seq(Msg) /\ q = o \o t /\ o \in Seq(Msg)
  OBVIOUS
<1>2. AfterAll(b, o) = Applied(b, m)
  BY <1>1, AfterOne
<1> HIDE DEF m, t, o
<1>3. AfterAll(b, q) = AfterAll(AfterAll(b, o), t)
  BY <1>1, AfterConcat
<1> QED BY <1>2, <1>3 DEF m, t

\* A message that is not about the book changes nothing.
LEMMA AppliedOther ==
  ASSUME NEW b, NEW m, ~m.data
  PROVE  Applied(b, m) = b
BY DEF Applied

\* After a whole book it does not matter what the book was before.
LEMMA WholeForgets ==
  ASSUME NEW b \in Books, NEW c \in Books, NEW q \in Seq(Msg),
         NEW i \in DOMAIN q, q[i].data, Whole(q[i])
  PROVE  AfterAll(b, q) = AfterAll(c, q)
<1>1. \A s, p : i \in Speaking(q, s, p)
  BY DEF Speaking, Speaks
<1>2. \A s \in Sides, p \in Prices : AfterAll(b, q)[s][p] = AfterAll(c, q)[s][p]
  BY <1>1, AfterAllAt
<1> QED BY <1>2, AfterAllIsBook, SameBook

-----------------------------------------------------------------------------
(* What the exchange sends.                                                *)

\* SetToSeq lists the elements of a finite set.
LEMMA Listed ==
  ASSUME NEW S, IsFiniteSet(S)
  PROVE  /\ SetToSeq(S) \in Seq(S)
         /\ \A x \in S : \E i \in DOMAIN SetToSeq(S) : SetToSeq(S)[i] = x
<1> DEFINE n == Cardinality(S)
           f == SetToSeq(S)
<1>1. n \in Nat /\ ExistsBijection(1..n, S)
  BY FS_CardinalityType
<1>2. \E g \in [1..n -> S] : IsInjective(g)
  BY <1>1 DEF ExistsBijection, Bijection, Injection
<1>3. f \in [1..n -> S] /\ IsInjective(f)
  BY <1>2 DEF SetToSeq
<1>4. f \in Injection(1..n, S)
  BY <1>3 DEF Injection
<1>5. Cardinality(1..n) = n
  BY <1>1, FS_Interval
<1> HIDE DEF n, f
<1>6. f \in Surjection(1..n, S)
  BY <1>4, <1>5, FS_Injection DEF n
<1>7. f \in Seq(S) /\ DOMAIN f = 1..n
  BY <1>1, <1>3
<1>8. \A x \in S : \E i \in DOMAIN f : f[i] = x
  BY <1>6, <1>7 DEF Surjection
<1> QED BY <1>7, <1>8 DEF f

\* The levels of a side list what the side holds.
LEMMA SideLevelsOf ==
  ASSUME NEW t \in Books, NEW s \in Sides
  PROVE  /\ SideLevels(t, s) \in Seq(Levels)
         /\ \A j \in DOMAIN SideLevels(t, s) :
              /\ SideLevels(t, s)[j].price \in OnSide(t, s)
              /\ SideLevels(t, s)[j].qty = t[s][SideLevels(t, s)[j].price]
         /\ \A p \in OnSide(t, s) :
              \E j \in DOMAIN SideLevels(t, s) : SideLevels(t, s)[j].price = p
<1> DEFINE O == OnSide(t, s)
           lev(p) == [price |-> p, qty |-> t[s][p]]
           S == {lev(p) : p \in O}
           f == [p \in O |-> lev(p)]
<1>1. IsFiniteSet(O)
  <2>1. O \in SUBSET Prices
    BY DEF OnSide
  <2> QED BY <2>1, FS_Subset, PathAssumption
<1>2. f \in Surjection(O, S)
  BY DEF Surjection
<1>3. IsFiniteSet(S)
  <2> HIDE DEF O, S, f
  <2> QED BY <1>1, <1>2, FS_Surjection
<1>4. SideLevels(t, s) = SetToSeq(S)
  BY DEF SideLevels
<1>5. \A p \in O : lev(p) \in Levels
  <2> TAKE p \in O
  <2>1. p \in Prices /\ t[s][p] > 0 /\ t[s][p] \in Stored
    BY DEF OnSide, Books
  <2>2. t[s][p] \in Quantities
    BY <2>1 DEF Stored
  <2> QED BY <2>1, <2>2 DEF Levels
<1>6. S \subseteq Levels
  BY <1>5
<1>7. \A x \in S : x.price \in O /\ x.qty = t[s][x.price]
  OBVIOUS
<1>8. \A p \in O : lev(p) \in S /\ lev(p).price = p
  OBVIOUS
<1> HIDE DEF S, O
<1> DEFINE q == SetToSeq(S)
<1>9. q \in Seq(S) /\ \A x \in S : \E i \in DOMAIN q : q[i] = x
  BY <1>3, Listed
<1> HIDE DEF q
<1>10. \A i \in DOMAIN q : q[i] \in S
  BY <1>9
<1>11. q \in Seq(Levels)
  BY <1>6, <1>9
<1>12. \A p \in O : \E j \in DOMAIN q : q[j].price = p
  BY <1>8, <1>9
<1> QED BY <1>4, <1>7, <1>10, <1>11, <1>12 DEF q, O

\* A whole book, applied, is that book.
LEMMA WholeBookApplied ==
  ASSUME NEW b \in Books, NEW t \in Books, venue \in {"OKX", "BYBIT"}
  PROVE  /\ WholeBook(t) \in Msg /\ WholeBook(t).data /\ Whole(WholeBook(t))
         /\ Applied(b, WholeBook(t)) = t
<1> DEFINE m == WholeBook(t)
           us == ToUpdates(m.bids, m.asks)
           L(s) == SideLevels(t, s)
<1>0. "bid" \in Sides /\ "ask" \in Sides /\ \A s \in Sides : s \in {"bid", "ask"}
  BY DEF Sides
<1>1. L("bid") \in Seq(Levels) /\ L("ask") \in Seq(Levels)
  BY <1>0, SideLevelsOf
<1>2. /\ m \in Msg /\ m.data /\ Whole(m)
      /\ m.bids = L("bid") /\ m.asks = L("ask")
  <2> HIDE DEF L
  <2>1. m = [Blank EXCEPT !.channel = IF venue = "OKX" THEN "books5" ELSE "orderbook",
                          !.action = IF venue = "OKX" THEN "none" ELSE "snapshot",
                          !.data = TRUE, !.bids = L("bid"), !.asks = L("ask")]
    BY DEF WholeBook, L
  <2> QED BY <1>1, <2>1 DEF Blank, Msg, Whole
<1>3. /\ us \in Seq(Updates)
      /\ \A i \in DOMAIN us :
           \/ \E j \in DOMAIN L("bid") : us[i] = LevelUpdate("bid", L("bid")[j])
           \/ \E j \in DOMAIN L("ask") : us[i] = LevelUpdate("ask", L("ask")[j])
      /\ \A j \in DOMAIN L("bid") : \E i \in DOMAIN us : us[i] = LevelUpdate("bid", L("bid")[j])
      /\ \A j \in DOMAIN L("ask") : \E i \in DOMAIN us : us[i] = LevelUpdate("ask", L("ask")[j])
  <2>1. us = ToUpdates(L("bid"), L("ask"))
    BY <1>2
  <2> HIDE DEF L, us
  <2> QED BY <1>1, <2>1, ToUpdatesOf
<1>4. \A s \in Sides : /\ \A j \in DOMAIN L(s) : L(s)[j].price \in OnSide(t, s) /\ L(s)[j].qty = t[s][L(s)[j].price]
                       /\ \A p \in OnSide(t, s) : \E j \in DOMAIN L(s) : L(s)[j].price = p
  BY SideLevelsOf
<1>5. Applied(b, m) = ApplyBatch(b, TRUE, us)
  BY <1>2 DEF Applied
<1> HIDE DEF m, us, L
<1>6. ASSUME NEW s \in Sides, NEW p \in Prices PROVE Applied(b, m)[s][p] = t[s][p]
  <2>1. Applied(b, m)[s][p] = IF About(us, s, p) # {} THEN QuantityLeft(us[Max(About(us, s, p))]) ELSE 0
    BY <1>5 DEF ApplyBatch
  <2>2. t[s][p] \in Nat
    <3>1. t[s][p] \in Stored
      BY DEF Books
    <3>2. \A x \in Stored : x \in Nat
      BY BookAssumption DEF Stored
    <3> QED BY <3>1, <3>2
  <2>3. ASSUME NEW i \in DOMAIN us, us[i].side = s, us[i].price = p
        PROVE  QuantityLeft(us[i]) = t[s][p]
    <3>1. PICK j \in DOMAIN L(s) : us[i] = LevelUpdate(s, L(s)[j])
      BY <1>0, <1>3, <2>3 DEF LevelUpdate
    <3>2. L(s)[j].price = p
      BY <2>3, <3>1 DEF LevelUpdate
    <3>3. L(s)[j].qty = t[s][p]
      BY <1>4, <3>2
    <3> QED BY <2>2, <3>1, <3>3, LeftOfLevel
  <2>4. CASE About(us, s, p) # {}
    <3>1. Max(About(us, s, p)) \in About(us, s, p)
      BY <1>3, <2>4, LastAbout
    <3> QED BY <2>1, <2>3, <2>4, <3>1 DEF About
  <2>5. CASE About(us, s, p) = {}
    <3>1. p \notin OnSide(t, s)
      <4> SUFFICES ASSUME p \in OnSide(t, s) PROVE FALSE
        OBVIOUS
      <4>1. PICK j \in DOMAIN L(s) : L(s)[j].price = p
        BY <1>4
      <4>2. \E i \in DOMAIN us : us[i].side = s /\ us[i].price = p
        BY <1>0, <1>3, <4>1 DEF LevelUpdate
      <4> QED BY <2>5, <4>2 DEF About
    <3>2. t[s][p] = 0
      BY <2>2, <3>1 DEF OnSide
    <3> QED BY <2>1, <2>5, <3>2
  <2> QED BY <2>4, <2>5
<1>7. Applied(b, m) \in Books
  BY <1>2, AppliedAt
<1> QED BY <1>2, <1>6, <1>7, SameBook DEF m

\* A change, applied, is that change.
LEMMA DeltaApplied ==
  ASSUME NEW b \in Books, NEW c \in Changes
  PROVE  /\ Delta(c) \in Msg /\ Delta(c).data /\ ~Whole(Delta(c))
         /\ Applied(b, Delta(c)) = [b EXCEPT ![c.side][c.price] = c.qty]
         /\ [b EXCEPT ![c.side][c.price] = c.qty] \in Books
<1> DEFINE m == Delta(c)
           l == [price |-> c.price, qty |-> c.qty]
           us == ToUpdates(m.bids, m.asks)
           u == LevelUpdate(c.side, l)
           d == [b EXCEPT ![c.side][c.price] = c.qty]
<1>1. c.side \in Sides /\ c.price \in Prices /\ c.qty \in Quantities /\ c.qty \in Nat
  BY PathAssumption
<1>2. c.qty \in Stored /\ l \in Levels
  BY <1>1 DEF Stored, Levels
<1>3. d \in Books /\ \A s \in Sides, p \in Prices :
        d[s][p] = IF s = c.side /\ p = c.price THEN c.qty ELSE b[s][p]
  <2>1. d = [b EXCEPT ![c.side] = [b[c.side] EXCEPT ![c.price] = c.qty]]
    OBVIOUS
  <2> HIDE DEF d
  <2>2. b[c.side] \in [Prices -> Stored]
    BY <1>1 DEF Books
  <2>3. [b[c.side] EXCEPT ![c.price] = c.qty] \in [Prices -> Stored]
    BY <1>1, <1>2, <2>2
  <2> QED BY <1>1, <2>1, <2>2, <2>3 DEF Books
<1>4. <<l>> \in Seq(Levels) /\ <<>> \in Seq(Levels) /\ DOMAIN <<l>> = {1} /\ <<l>>[1] = l
      /\ DOMAIN <<>> = {}
  <2> HIDE DEF l
  <2> QED BY <1>2
<1>5. m = [Blank EXCEPT !.channel = "orderbook", !.action = "delta", !.data = TRUE,
                        !.bids = IF c.side = "bid" THEN <<l>> ELSE <<>>,
                        !.asks = IF c.side = "ask" THEN <<l>> ELSE <<>>]
  BY DEF Delta
<1> HIDE DEF m, l, d
<1>6. /\ m \in Msg /\ m.data /\ ~Whole(m)
      /\ m.bids = IF c.side = "bid" THEN <<l>> ELSE <<>>
      /\ m.asks = IF c.side = "ask" THEN <<l>> ELSE <<>>
  BY <1>4, <1>5 DEF Blank, Msg, Whole
<1>7. /\ us \in Seq(Updates)
      /\ \A i \in DOMAIN us : us[i] = u
      /\ \E i \in DOMAIN us : us[i] = u
  <2>1. /\ us \in Seq(Updates)
        /\ \A i \in DOMAIN us :
             \/ \E j \in DOMAIN m.bids : us[i] = LevelUpdate("bid", m.bids[j])
             \/ \E j \in DOMAIN m.asks : us[i] = LevelUpdate("ask", m.asks[j])
        /\ \A j \in DOMAIN m.bids : \E i \in DOMAIN us : us[i] = LevelUpdate("bid", m.bids[j])
        /\ \A j \in DOMAIN m.asks : \E i \in DOMAIN us : us[i] = LevelUpdate("ask", m.asks[j])
    <3>1. m.bids \in Seq(Levels) /\ m.asks \in Seq(Levels)
      BY <1>4, <1>6
    <3> QED BY <3>1, ToUpdatesOf
  <2>2. CASE c.side = "bid"
    BY <1>4, <1>6, <2>1, <2>2
  <2>3. CASE c.side = "ask"
    BY <1>4, <1>6, <2>1, <2>3
  <2> QED BY <1>1, <2>2, <2>3 DEF Sides
<1>8. u.side = c.side /\ u.price = c.price /\ QuantityLeft(u) = c.qty
  <2>1. l.price = c.price /\ l.qty = c.qty
    BY DEF l
  <2> QED BY <1>1, <2>1, LeftOfLevel DEF LevelUpdate
<1>9. Applied(b, m) = ApplyBatch(b, FALSE, us)
  <2>1. Whole(m) = FALSE
    BY <1>6 DEF Whole
  <2> QED BY <1>6, <2>1 DEF Applied
<1> HIDE DEF us, u
<1>10. ASSUME NEW s \in Sides, NEW p \in Prices PROVE Applied(b, m)[s][p] = d[s][p]
  <2>1. Applied(b, m)[s][p] =
          IF About(us, s, p) # {} THEN QuantityLeft(us[Max(About(us, s, p))]) ELSE b[s][p]
    BY <1>9 DEF ApplyBatch
  <2>2. CASE s = c.side /\ p = c.price
    <3>1. About(us, s, p) # {}
      BY <1>7, <1>8, <2>2 DEF About
    <3>2. us[Max(About(us, s, p))] = u
      BY <1>7, <3>1, LastAbout
    <3> QED BY <1>3, <1>8, <2>1, <2>2, <3>1, <3>2
  <2>3. CASE ~(s = c.side /\ p = c.price)
    <3>1. About(us, s, p) = {}
      BY <1>7, <1>8, <2>3 DEF About
    <3> QED BY <1>3, <2>1, <2>3, <3>1
  <2> QED BY <2>2, <2>3
<1>11. Applied(b, m) = d
  BY <1>3, <1>6, <1>10, AppliedAt, SameBook
<1> QED BY <1>3, <1>6, <1>11 DEF m, d

\* What the exchange of this venue sends.
Sent ==
  {Response, Ping} \cup {WholeBook(t) : t \in Books}
    \cup (IF venue = "OKX" THEN {} ELSE {Delta(c) : c \in Changes})

\* What poll() may meet: what was sent, or what buffer_ made of it.
Received == Sent \cup {Garbled}

\* How process_message() sees them: every message about the book gets to the
\* callback, with the right idea of whether it is a snapshot, and a ping is
\* the only message that is answered as one.
LEMMA Classified ==
  ASSUME venue \in {"OKX", "BYBIT"}, NEW m \in Received
  PROVE  /\ m \in Msg /\ m # None
         /\ m.data => /\ ~is_ping_message(m) /\ ~is_subscription_response(m)
                      /\ parse_orderbook_message(m)
                      /\ ParsedSnapshot(m) = Whole(m)
         /\ parse_orderbook_message(m) => m.data
         /\ is_ping_message(m) <=> m = Ping
<1> DEFINE Fine == /\ m \in Msg /\ m # None
                   /\ m.data => /\ ~is_ping_message(m) /\ ~is_subscription_response(m)
                                /\ parse_orderbook_message(m)
                                /\ ParsedSnapshot(m) = Whole(m)
                   /\ parse_orderbook_message(m) => m.data
                   /\ is_ping_message(m) <=> m = Ping
<1> USE DEF Blank, None, is_ping_message, is_subscription_response,
            parse_orderbook_message, ParsedSnapshot, Whole, OkxBookChannels
<1>0. <<>> \in Seq(Levels)
  OBVIOUS
<1>1. CASE m = Response
  BY <1>0, <1>1 DEF Response, Ping, Msg
<1>2. CASE m = Ping
  BY <1>0, <1>2 DEF Ping, Msg
<1>3. CASE m = Garbled
  BY <1>0, <1>3 DEF Garbled, Ping, Msg
<1>4. ASSUME NEW t \in Books, m = WholeBook(t) PROVE Fine
  <2>1. m \in Msg
    BY <1>4, WholeBookApplied
  <2>2. m = [Blank EXCEPT !.channel = IF venue = "OKX" THEN "books5" ELSE "orderbook",
                          !.action = IF venue = "OKX" THEN "none" ELSE "snapshot",
                          !.data = TRUE,
                          !.bids = SideLevels(t, "bid"), !.asks = SideLevels(t, "ask")]
    BY <1>4 DEF WholeBook
  <2> QED BY <2>1, <2>2 DEF Ping
<1>5. ASSUME NEW c \in Changes, m = Delta(c), venue # "OKX" PROVE Fine
  <2>1. m \in Msg
    BY <1>5, DeltaApplied, EmptyBookIsBook
  <2>2. \E x, y : m = [Blank EXCEPT !.channel = "orderbook", !.action = "delta", !.data = TRUE,
                          !.bids = x, !.asks = y]
    BY <1>5 DEF Delta
  <2> QED BY <1>5, <2>1, <2>2 DEF Ping
<1> QED BY <1>1, <1>2, <1>3, <1>4, <1>5 DEF Received, Sent

-----------------------------------------------------------------------------
(* Types.                                                                  *)

\* The types of the variables, finer than TypeOK: where which messages are,
\* and that room found under the first lock is still there under the second.
PathTypes ==
  /\ venue \in {"OKX", "BYBIT"}
  /\ truth \in Books /\ book \in Books /\ feed \in Books
  /\ wire \in Seq(Sent) /\ Len(wire) <= MaxWire
  /\ queue \in Seq(Received) /\ Len(queue) <= QueueMax
  /\ rx.pc \in {"waiting", "room", "full"}
  /\ rx.pc = "room" => Len(queue) < QueueMax
  /\ rx.pc # "waiting" => rx.msg \in Received
  /\ cur \in Received \cup {None}
  /\ step \in {"idle", "classify", "callback"}
  /\ cur = None <=> step = "idle"
  /\ step = "callback" => cur.data
  /\ sub \in {"no", "asked", "answered", "live"}

\* What is sent depends on the venue only, which never changes.
LEMMA VenueFixed ==
  ASSUME [Next]_vars
  PROVE  /\ venue' = venue
         /\ Sent' = Sent /\ Received' = Received /\ Ping' = Ping
<1> USE DEF wireVars
<1>1. ASSUME NEW c \in Changes, ExchangeChanges(c) PROVE venue' = venue
  BY <1>1, Zenon DEF ExchangeChanges
<1>2. ASSUME NEW b, HandlesRead(b) PROVE venue' = venue
  BY <1>2, Zenon DEF HandlesRead
<1>3. venue' = venue
  BY <1>1, <1>2, Zenon
  DEF Next, Exchange, Io, Poll, ExchangeAnswers, ExchangeSendsBook, ExchangePings,
      StreamBreaks, Reconnects, ReadCompletes, EnqueueRead, DropRead, Dequeue,
      ProcessPing, ProcessOther, ProcessBook, Callback, vars
<1> QED BY <1>3 DEF Sent, Received, Response, Ping, WholeBook

\* One more message under way.
LEMMA WireGrows ==
  ASSUME PathTypes, NEW m \in Sent, Len(wire) < MaxWire, wire' = Append(wire, m)
  PROVE  wire' \in Seq(Sent) /\ Len(wire') <= MaxWire
<1>1. wire \in Seq(Sent) /\ MaxWire \in Nat
  BY PathAssumption DEF PathTypes
<1> QED BY <1>1

\* What a message about the book makes of a book is a book.
LEMMA MsgKeepsBook ==
  ASSUME NEW b \in Books, NEW m \in Received, venue \in {"OKX", "BYBIT"}
  PROVE  ApplyBatch(b, ParsedSnapshot(m), ToUpdates(m.bids, m.asks)) \in Books
<1>1. m \in Msg
  BY Classified
<1>2. ToUpdates(m.bids, m.asks) \in Seq(Updates)
  BY <1>1, MsgUpdates
<1>3. ParsedSnapshot(m) \in BOOLEAN
  BY DEF ParsedSnapshot
<1> QED BY <1>2, <1>3, BatchKeepsBook

\* Every action keeps the types.
LEMMA PathTypesStep ==
  ASSUME PathTypes, [Next]_vars
  PROVE  PathTypes'
<1> USE DEF wireVars, ioVars, pollVars
<1>a. venue' = venue /\ Sent' = Sent /\ Received' = Received /\ None' = None
  BY VenueFixed
<1>b. wire \in Seq(Sent) /\ queue \in Seq(Received)
  BY DEF PathTypes
<1>c. None \notin Received
  BY Classified DEF PathTypes
<1>1. CASE ExchangeAnswers
  <2>1. wire' \in Seq(Sent) /\ Len(wire') <= MaxWire
    BY <1>1, WireGrows DEF ExchangeAnswers, Sent
  <2> QED BY <1>1, <1>a, <2>1 DEF ExchangeAnswers, PathTypes
<1>2. CASE ExchangeSendsBook
  <2>1. WholeBook(truth) \in Sent
    BY DEF PathTypes, Sent
  <2>2. wire' \in Seq(Sent) /\ Len(wire') <= MaxWire
    BY <1>2, <2>1, WireGrows DEF ExchangeSendsBook
  <2> QED BY <1>2, <1>a, <2>2 DEF ExchangeSendsBook, PathTypes
<1>3. CASE ExchangePings
  <2>1. wire' \in Seq(Sent) /\ Len(wire') <= MaxWire
    BY <1>3, WireGrows DEF ExchangePings, Sent
  <2> QED BY <1>3, <1>a, <2>1 DEF ExchangePings, PathTypes
<1>4. ASSUME NEW c \in Changes, ExchangeChanges(c) PROVE PathTypes'
  <2>1. truth' \in Books
    BY <1>4, DeltaApplied DEF ExchangeChanges, PathTypes
  <2>2. wire' \in Seq(Sent) /\ Len(wire') <= MaxWire
    <3>1. CASE up /\ sub = "live"
      <4>1. (IF venue = "OKX" THEN WholeBook(truth') ELSE Delta(c)) \in Sent
        BY <2>1 DEF Sent
      <4> QED BY <1>4, <3>1, <4>1, WireGrows DEF ExchangeChanges
    <3>2. CASE ~(up /\ sub = "live")
      BY <1>4, <3>2 DEF ExchangeChanges, PathTypes
    <3> QED BY <3>1, <3>2
  <2>3. UNCHANGED <<sub, ioVars, queue, pollVars>>
    BY <1>4 DEF ExchangeChanges
  <2> QED BY <1>a, <2>1, <2>2, <2>3 DEF PathTypes
<1>5. CASE StreamBreaks
  <2>1. wire' \in Seq(Sent) /\ Len(wire') <= MaxWire
    BY <1>5, PathAssumption DEF StreamBreaks
  <2>2. UNCHANGED <<truth, rx, queue, pollVars>> /\ sub' = "no"
    BY <1>5 DEF StreamBreaks
  <2> QED BY <1>a, <2>1, <2>2 DEF PathTypes
<1>6. CASE Reconnects
  BY <1>6, <1>a DEF Reconnects, PathTypes
<1>7. CASE ReadCompletes
  <2>1. wire' \in Seq(Sent) /\ Len(wire') <= MaxWire /\ Head(wire) \in Sent
    BY <1>7, <1>b, PathAssumption DEF ReadCompletes, PathTypes
  <2>2. rx'.msg \in Received
    BY <1>7, <2>1 DEF ReadCompletes, Received
  <2>3. rx'.pc \in {"room", "full"} /\ (rx'.pc = "room" => Len(queue) < QueueMax)
    BY <1>7 DEF ReadCompletes
  <2>4. UNCHANGED <<truth, sub, queue, pollVars>>
    BY <1>7 DEF ReadCompletes
  <2> QED BY <1>a, <2>1, <2>2, <2>3, <2>4 DEF PathTypes
<1>8. CASE EnqueueRead \/ DropRead
  <2>1. rx'.pc = "waiting"
    BY <1>8 DEF EnqueueRead, DropRead, HandlesRead
  <2>2. queue' \in Seq(Received) /\ Len(queue') <= QueueMax
    <3>1. CASE EnqueueRead
      <4>1. queue' = Append(queue, rx.msg) /\ rx.msg \in Received /\ Len(queue) < QueueMax
        BY <3>1 DEF EnqueueRead, HandlesRead, PathTypes
      <4> QED BY <1>b, <4>1, PathAssumption
    <3>2. CASE DropRead
      BY <3>2 DEF DropRead, HandlesRead, PathTypes
    <3> QED BY <1>8, <3>1, <3>2
  <2>3. UNCHANGED <<wireVars, pollVars>>
    BY <1>8 DEF EnqueueRead, DropRead, HandlesRead
  <2> QED BY <1>a, <2>1, <2>2, <2>3 DEF PathTypes
<1>9. CASE Dequeue
  <2>1. queue' \in Seq(Received) /\ cur' \in Received /\ Len(queue') < Len(queue) /\ Len(queue') \in Nat
    BY <1>9, <1>b DEF Dequeue
  <2>2. Len(queue') <= QueueMax /\ (rx.pc = "room" => Len(queue') < QueueMax)
    BY <1>b, <2>1, PathAssumption DEF PathTypes
  <2>3. step' = "classify" /\ UNCHANGED <<wireVars, ioVars, book, feed>>
    BY <1>9 DEF Dequeue
  <2> QED BY <1>a, <1>c, <2>1, <2>2, <2>3 DEF PathTypes
<1>10. CASE ProcessPing \/ ProcessOther
  <2>1. cur' = None /\ step' = "idle" /\ UNCHANGED <<wireVars, ioVars, queue, book, feed>>
    BY <1>10 DEF ProcessPing, ProcessOther
  <2> QED BY <1>a, <2>1 DEF PathTypes
<1>11. CASE ProcessBook
  <2>1. cur \in Received /\ cur.data
    BY <1>11, Classified DEF ProcessBook, PathTypes
  <2>2. feed' \in Books
    BY <1>11, <2>1, MsgKeepsBook DEF ProcessBook, Publish, PathTypes
  <2>3. step' = "callback" /\ UNCHANGED <<wireVars, ioVars, queue, cur, book>>
    BY <1>11 DEF ProcessBook
  <2> QED BY <1>a, <1>c, <2>1, <2>2, <2>3 DEF PathTypes
<1>12. CASE Callback
  <2>1. cur \in Received
    BY <1>12 DEF Callback, PathTypes
  <2>2. book' \in Books
    BY <1>12, <2>1, MsgKeepsBook DEF Callback, PathTypes
  <2>3. cur' = None /\ step' = "idle" /\ UNCHANGED <<wireVars, ioVars, queue, feed>>
    BY <1>12 DEF Callback
  <2> QED BY <1>a, <2>2, <2>3 DEF PathTypes
<1>13. CASE UNCHANGED vars
  BY <1>13, <1>a DEF vars, PathTypes
<1> QED
  BY <1>1, <1>2, <1>3, <1>4, <1>5, <1>6, <1>7, <1>8, <1>9, <1>10, <1>11, <1>12, <1>13
  DEF Next, Exchange, Io, Poll

LEMMA PathTypesInit == Init => PathTypes
<1> SUFFICES ASSUME Init PROVE PathTypes
  OBVIOUS
<1>1. venue \in {"OKX", "BYBIT"} /\ 0 <= MaxWire /\ 0 <= QueueMax
  BY PathAssumption DEF Init
<1>2. truth \in Books /\ book \in Books /\ feed \in Books
  BY EmptyBookIsBook DEF Init
<1>3. wire \in Seq(Sent) /\ queue \in Seq(Received) /\ Len(wire) = 0 /\ Len(queue) = 0
  BY DEF Init
<1> QED BY <1>1, <1>2, <1>3 DEF Init, PathTypes

-----------------------------------------------------------------------------
(* The receiver of the UDP feed.                                           *)

\* What the callback will make of a book.
Called(b) == ApplyBatch(b, ParsedSnapshot(cur), ToUpdates(cur.bids, cur.asks))

\* In the callback the receiver is one message ahead.
FeedInv ==
  UdpEnabled /\ ~feedGap => feed = IF step = "callback" THEN Called(book) ELSE book

LEMMA FeedStep ==
  ASSUME PathTypes, FeedInv, [Next]_vars
  PROVE  FeedInv'
<1> USE DEF wireVars, ioVars, pollVars
<1>a. venue' = venue
  BY VenueFixed
<1>1. CASE ProcessBook
  <2>1. /\ step = "classify" /\ step' = "callback" /\ UNCHANGED <<cur, book>>
        /\ IF UdpEnabled THEN Publish ELSE UNCHANGED <<feed, feedGap>>
    BY <1>1 DEF ProcessBook
  <2>2. Called(book)' = Called(book)
    BY <1>a, <2>1 DEF Called, ParsedSnapshot
  <2> SUFFICES ASSUME UdpEnabled, ~feedGap' PROVE feed' = Called(book)
    BY <2>1, <2>2 DEF FeedInv
  <2>3. feed' = Called(feed) /\ (feedGap' = (feedGap /\ ~ParsedSnapshot(cur)))
    BY <2>1 DEF Publish, Called
  <2>4. CASE ~feedGap
    BY <2>1, <2>3, <2>4 DEF FeedInv
  <2>5. CASE ParsedSnapshot(cur)
    <3>1. ParsedSnapshot(cur) = TRUE
      BY <2>5 DEF ParsedSnapshot
    <3>2. \A b : Called(b) = ApplyBatch(EmptyBook, FALSE, ToUpdates(cur.bids, cur.asks))
      BY <3>1, SnapshotStartsEmpty DEF Called
    <3> QED BY <2>3, <3>2
  <2> QED BY <2>3, <2>4, <2>5
<1>2. CASE Callback
  <2>1. step = "callback" /\ step' = "idle" /\ book' = Called(book) /\ UNCHANGED <<feed, feedGap>>
    BY <1>2 DEF Callback, Called
  <2> QED BY <2>1 DEF FeedInv
<1>3. CASE Dequeue
  <2>1. step # "callback" /\ step' = "classify" /\ UNCHANGED <<book, feed, feedGap>>
    BY <1>3 DEF Dequeue, PathTypes
  <2> QED BY <2>1 DEF FeedInv
<1>4. CASE ProcessPing \/ ProcessOther
  <2>1. step = "classify" /\ step' = "idle" /\ UNCHANGED <<book, feed, feedGap>>
    BY <1>4 DEF ProcessPing, ProcessOther
  <2> QED BY <2>1 DEF FeedInv
<1>5. CASE UNCHANGED pollVars
  <2>1. Called(book)' = Called(book)
    BY <1>a, <1>5 DEF Called, ParsedSnapshot
  <2> QED BY <1>5, <2>1 DEF FeedInv
<1>6. ASSUME NEW c \in Changes, ExchangeChanges(c) PROVE UNCHANGED pollVars
  BY <1>6 DEF ExchangeChanges
<1>7. ASSUME Exchange \/ StreamBreaks \/ Reconnects \/ Io PROVE UNCHANGED pollVars
  BY <1>6, <1>7 DEF Exchange, Io, ExchangeAnswers, ExchangeSendsBook, ExchangePings,
      StreamBreaks, Reconnects, ReadCompletes, EnqueueRead, DropRead, HandlesRead
<1>8. ASSUME UNCHANGED vars PROVE UNCHANGED pollVars
  BY <1>8 DEF vars
<1> QED BY <1>1, <1>2, <1>3, <1>4, <1>5, <1>7, <1>8 DEF Next, Poll

\* Between two messages a receiver of the UDP feed (UdpPublisher::publish)
\* that has missed no datagram since the last snapshot has the application's
\* book, whatever was lost before that snapshot.
THEOREM FeedCorrect == Spec => []FeedInSync
<1>1. Init => PathTypes /\ FeedInv
  BY PathTypesInit DEF Init, FeedInv
<1>2. (PathTypes /\ FeedInv) /\ [Next]_vars => (PathTypes /\ FeedInv)'
  BY PathTypesStep, FeedStep
<1>3. PathTypes /\ FeedInv => FeedInSync
  BY DEF FeedInv, FeedInSync
<1> QED BY <1>1, <1>2, <1>3, PTL DEF Spec

-----------------------------------------------------------------------------
(* The application's book and the exchange's.                              *)

\* The book once poll() is through with what it works on, once it has emptied
\* the queue, and once it has had what the read handler found room for.
Worked == IF cur = None THEN book ELSE Applied(book, cur)
Queued == AfterAll(Worked, queue)
Held == IF rx.pc = "room" THEN Applied(Queued, rx.msg) ELSE Queued

\* These are books, and what is pending is what they are made of and the wire.
LEMMA HeldIsBook ==
  ASSUME PathTypes
  PROVE  /\ Worked \in Books /\ Queued \in Books /\ Held \in Books
         /\ wire \in Seq(Msg) /\ queue \in Seq(Msg)
         /\ rx.pc # "waiting" => rx.msg \in Msg
         /\ cur # None => cur \in Msg
<1>1. \A m \in Received : m \in Msg
  BY Classified DEF PathTypes
<1>2. wire \in Seq(Msg) /\ queue \in Seq(Msg)
  <2>1. \A m \in Sent : m \in Msg
    BY <1>1 DEF Received
  <2> QED BY <1>1, <2>1 DEF PathTypes
<1>3. (rx.pc # "waiting" => rx.msg \in Msg) /\ (cur # None => cur \in Msg)
  BY <1>1 DEF PathTypes
<1>4. Worked \in Books
  BY <1>3, AppliedAt DEF Worked, PathTypes
<1>5. Queued \in Books
  BY <1>2, <1>4, AfterAllIsBook DEF Queued
<1>6. Held \in Books
  BY <1>3, <1>5, AppliedAt DEF Held
<1> QED BY <1>2, <1>3, <1>4, <1>5, <1>6

LEMMA PendingHeld ==
  ASSUME PathTypes
  PROVE  AfterAll(book, Pending) = AfterAll(Held, wire)
<1> DEFINE A == IF cur = None THEN <<>> ELSE <<cur>>
           C == IF rx.pc = "room" THEN <<rx.msg>> ELSE <<>>
<1>1. book \in Books /\ rx.pc \in {"waiting", "room", "full"}
  BY DEF PathTypes
<1>2. A \in Seq(Msg) /\ AfterAll(book, A) = Worked
  BY <1>1, HeldIsBook, AfterNone, AfterOne DEF Worked
<1>3. C \in Seq(Msg) /\ AfterAll(Queued, C) = Held
  BY <1>1, HeldIsBook, AfterNone, AfterOne DEF Held
<1>4. Pending = ((A \o queue) \o C) \o wire
  BY DEF Pending
<1> HIDE DEF A, C
<1>5. queue \in Seq(Msg) /\ wire \in Seq(Msg)
  BY HeldIsBook
<1>6. A \o queue \in Seq(Msg) /\ (A \o queue) \o C \in Seq(Msg)
  BY <1>2, <1>3, <1>5
<1>7. AfterAll(book, A \o queue) = Queued
  BY <1>1, <1>2, <1>5, AfterConcat, Zenon DEF Queued
<1>8. AfterAll(book, (A \o queue) \o C) = Held
  BY <1>1, <1>3, <1>6, <1>7, AfterConcat, Zenon
<1> QED BY <1>1, <1>4, <1>5, <1>6, <1>8, AfterConcat, Zenon

\* Only a read adds to what is held: handing a message on, from the handler to
\* the queue, to poll() and to the book, loses and reorders nothing.
LEMMA HeldStep ==
  ASSUME PathTypes, [Next]_vars
  PROVE  Held' = IF ReadCompletes /\ rx'.pc = "room" THEN Applied(Held, rx'.msg) ELSE Held
<1> USE DEF wireVars, ioVars, pollVars
<1>a. venue' = venue
  BY VenueFixed
<1>b. /\ Worked \in Books /\ Queued \in Books /\ Held \in Books /\ book \in Books
      /\ queue \in Seq(Msg) /\ (rx.pc # "waiting" => rx.msg \in Msg)
  BY HeldIsBook DEF PathTypes
<1>1. CASE ReadCompletes
  <2>1. rx.pc = "waiting" /\ UNCHANGED <<queue, cur, book>>
    BY <1>1 DEF ReadCompletes
  <2>2. Queued' = Queued
    BY <2>1 DEF Queued, Worked
  <2> QED BY <1>1, <2>1, <2>2 DEF Held
<1>2. ASSUME UNCHANGED <<rx, queue, cur, book>> PROVE Held' = Held
  BY <1>2 DEF Held, Queued, Worked
<1>3. ASSUME NEW c \in Changes, ExchangeChanges(c) PROVE UNCHANGED <<rx, queue, cur, book>>
  BY <1>3 DEF ExchangeChanges
<1>4. ASSUME Exchange \/ StreamBreaks \/ Reconnects \/ ProcessBook
      PROVE  UNCHANGED <<rx, queue, cur, book>> /\ ~ReadCompletes
  <2>1. UNCHANGED <<rx, queue, cur, book>>
    BY <1>3, <1>4 DEF Exchange, ExchangeAnswers, ExchangeSendsBook, ExchangePings,
        StreamBreaks, Reconnects, ProcessBook
  <2>2. ReadCompletes => rx' # rx
    BY DEF ReadCompletes
  <2> QED BY <2>1, <2>2
<1>5. ASSUME UNCHANGED vars PROVE UNCHANGED <<rx, queue, cur, book>> /\ ~ReadCompletes
  <2>1. UNCHANGED <<rx, queue, cur, book>>
    BY <1>5 DEF vars
  <2>2. ReadCompletes => rx' # rx
    BY DEF ReadCompletes
  <2> QED BY <2>1, <2>2
<1>6. ASSUME rx' = rx \/ rx'.pc = "waiting" PROVE ~(ReadCompletes /\ rx'.pc = "room")
  BY <1>6 DEF ReadCompletes
<1>7. CASE EnqueueRead
  <2>1. rx.pc = "room" /\ rx'.pc = "waiting" /\ queue' = Append(queue, rx.msg) /\ UNCHANGED <<cur, book>>
    BY <1>7 DEF EnqueueRead, HandlesRead
  <2>2. Worked' = Worked
    BY <2>1 DEF Worked
  <2>3. Queued' = Applied(Queued, rx.msg)
    BY <1>b, <2>1, <2>2, AfterAppend DEF Queued
  <2> QED BY <1>6, <2>1, <2>3 DEF Held
<1>8. CASE DropRead
  <2>1. rx.pc = "full" /\ rx'.pc = "waiting" /\ UNCHANGED <<queue, cur, book>>
    BY <1>8 DEF DropRead, HandlesRead
  <2> QED BY <1>6, <2>1 DEF Held, Queued, Worked
<1>9. CASE Dequeue
  <2>1. /\ cur = None /\ queue # <<>> /\ cur' = Head(queue) /\ queue' = Tail(queue)
        /\ UNCHANGED <<rx, book>>
    BY <1>9 DEF Dequeue
  <2>2. cur' # None
    BY <2>1, Classified DEF PathTypes
  <2>3. Queued' = Queued
    BY <1>b, <2>1, <2>2, AfterHead DEF Queued, Worked
  <2> QED BY <1>6, <2>1, <2>3 DEF Held
<1>10. CASE ProcessPing \/ ProcessOther
  <2>1. cur # None /\ cur' = None /\ UNCHANGED <<rx, queue, book>>
    BY <1>10 DEF ProcessPing, ProcessOther, PathTypes
  <2>2. ~cur.data
    BY <1>10, <2>1, Classified DEF ProcessPing, ProcessOther, PathTypes
  <2>3. Worked' = Worked
    BY <2>1, <2>2, AppliedOther DEF Worked
  <2> QED BY <1>6, <2>1, <2>3 DEF Held, Queued
<1>11. CASE Callback
  <2>1. /\ cur # None /\ cur' = None /\ cur.data /\ UNCHANGED <<rx, queue>>
        /\ book' = ApplyBatch(book, ParsedSnapshot(cur), ToUpdates(cur.bids, cur.asks))
    BY <1>11 DEF Callback, PathTypes
  <2>2. ParsedSnapshot(cur) = Whole(cur)
    BY <2>1, Classified DEF PathTypes
  <2>3. Worked' = Worked
    BY <2>1, <2>2 DEF Worked, Applied
  <2> QED BY <1>6, <2>1, <2>3 DEF Held, Queued
<1> QED BY <1>1, <1>2, <1>4, <1>5, <1>7, <1>8, <1>9, <1>10, <1>11 DEF Next, Io, Poll

\* A whole book under way brings any book up to date, so that it repairs what
\* was lost before it; and nothing is lost when gap says so.
WireHeals ==
  (\E i \in DOMAIN wire : wire[i].data /\ Whole(wire[i])) =>
    \A b \in Books : AfterAll(b, wire) = truth
SyncInv ==
  /\ sub = "live" => up
  /\ sub = "live" => WireHeals
  /\ sub = "live" /\ ~gap => AfterAll(Held, wire) = truth

\* A whole book of the exchange at the end of the wire brings any book up to
\* date; what is not a whole book does so if something before it did.
LEMMA WholeSent ==
  ASSUME PathTypes, NEW t \in Books, wire' = Append(wire, WholeBook(t)),
         NEW b \in Books
  PROVE  AfterAll(b, wire') = t
<1>1. WholeBook(t) \in Msg /\ wire \in Seq(Msg) /\ AfterAll(b, wire) \in Books
  BY HeldIsBook, AfterAllIsBook, WholeBookApplied DEF PathTypes
<1>2. AfterAll(b, wire') = Applied(AfterAll(b, wire), WholeBook(t))
  BY <1>1, AfterAppend
<1> QED BY <1>1, <1>2, WholeBookApplied DEF PathTypes

LEMMA OtherSent ==
  ASSUME PathTypes, NEW m \in Msg, ~(m.data /\ Whole(m)), wire' = Append(wire, m)
  PROVE  /\ \A b \in Books : AfterAll(b, wire') = Applied(AfterAll(b, wire), m)
         /\ (\E i \in DOMAIN wire' : wire'[i].data /\ Whole(wire'[i])) =>
              (\E i \in DOMAIN wire : wire[i].data /\ Whole(wire[i]))
<1>1. wire \in Seq(Msg)
  BY HeldIsBook
<1>2. \A i \in DOMAIN wire' : (i \in DOMAIN wire /\ wire'[i] = wire[i]) \/ wire'[i] = m
  BY <1>1
<1> QED BY <1>1, <1>2, AfterAppend

\* A read takes the first message off the wire.
LEMMA SyncRead ==
  ASSUME PathTypes, SyncInv, ReadCompletes, sub = "live"
  PROVE  WireHeals' /\ (~gap' => AfterAll(Held', wire') = truth')
<1> DEFINE h == Head(wire)
           t == Tail(wire)
<1>1. /\ wire # <<>> /\ wire' = t /\ UNCHANGED <<truth, sub>>
      /\ gap' = IF ~h.data THEN gap ELSE partial \/ rx'.pc = "full" \/ (gap /\ ~Whole(h))
      /\ rx'.msg = IF partial THEN Garbled ELSE h
      /\ rx'.pc \in {"room", "full"}
  BY DEF ReadCompletes
<1>2. wire \in Seq(Msg) /\ Held \in Books
  BY HeldIsBook
<1>3. /\ h \in Msg /\ t \in Seq(Msg) /\ 1 \in DOMAIN wire /\ wire[1] = h
      /\ \A i \in DOMAIN t : i + 1 \in DOMAIN wire /\ wire[i + 1] = t[i]
  BY <1>1, <1>2
<1>4. \A b \in Books : Applied(b, h) \in Books /\ AfterAll(b, wire) = AfterAll(Applied(b, h), t)
  BY <1>1, <1>2, <1>3, AfterHead, AppliedAt
<1>5. Held' = IF rx'.pc = "room" THEN Applied(Held, rx'.msg) ELSE Held
  <2>1. [Next]_vars
    BY DEF Next, Io
  <2> QED BY <2>1, HeldStep
<1> HIDE DEF h, t
<1>6. WireHeals'
  <2> SUFFICES ASSUME NEW i \in DOMAIN t, t[i].data, Whole(t[i]), NEW b \in Books
               PROVE  AfterAll(b, t) = truth
    BY <1>1 DEF WireHeals
  <2>1. AfterAll(b, wire) = truth
    BY <1>3 DEF SyncInv, WireHeals
  <2> QED BY <1>3, <1>4, <2>1, WholeForgets
<1>7. ASSUME ~gap' PROVE AfterAll(Held', wire') = truth'
  <2>1. CASE ~h.data
    <3>1. AfterAll(Held, wire) = truth
      BY <1>1, <1>7, <2>1 DEF SyncInv
    <3>2. ~rx'.msg.data
      BY <1>1, <2>1 DEF Garbled, Blank
    <3>3. Held' = Held /\ Applied(Held, h) = Held
      BY <1>5, <2>1, <3>2, AppliedOther
    <3> QED BY <1>1, <1>2, <1>4, <3>1, <3>3
  <2>2. CASE h.data
    <3>1. rx'.pc = "room" /\ rx'.msg = h /\ (~gap \/ Whole(h))
      BY <1>1, <1>7, <2>2
    <3>2. AfterAll(Held, wire) = truth
      BY <1>2, <1>3, <2>2, <3>1 DEF SyncInv, WireHeals
    <3> QED BY <1>1, <1>2, <1>4, <1>5, <3>1, <3>2
  <2> QED BY <2>1, <2>2
<1> QED BY <1>6, <1>7

LEMMA SyncStep ==
  ASSUME PathTypes, SyncInv, [Next]_vars
  PROVE  SyncInv'
<1> USE DEF wireVars, ioVars, pollVars
<1>a. truth \in Books /\ venue \in {"OKX", "BYBIT"} /\ wire \in Seq(Msg) /\ Held \in Books
  BY HeldIsBook DEF PathTypes
<1>b. \A b \in Books : AfterAll(b, wire) \in Books
  BY <1>a, AfterAllIsBook
<1>1. CASE ReadCompletes
  <2>1. UNCHANGED <<sub, up>>
    BY <1>1 DEF ReadCompletes
  <2> QED BY <1>1, <2>1, SyncRead DEF SyncInv
<1>2. CASE ~ReadCompletes
  <2>0. Held' = Held
    BY <1>2, HeldStep
  <2>1. CASE ExchangeAnswers \/ StreamBreaks \/ Reconnects
    <3>1. sub' # "live"
      BY <2>1 DEF ExchangeAnswers, StreamBreaks, Reconnects
    <3> QED BY <3>1 DEF SyncInv
  <2>2. CASE ExchangeSendsBook
    <3>1. up' /\ truth' = truth /\ wire' = Append(wire, WholeBook(truth))
      BY <2>2 DEF ExchangeSendsBook
    <3>2. \A b \in Books : AfterAll(b, wire') = truth'
      BY <1>a, <3>1, WholeSent
    <3> QED BY <1>a, <2>0, <3>1, <3>2 DEF SyncInv, WireHeals
  <2>3. CASE ExchangePings
    <3>1. wire' = Append(wire, Ping) /\ UNCHANGED <<truth, sub, up, gap>>
      BY <2>3 DEF ExchangePings
    <3>2. Ping \in Msg /\ ~Ping.data
      <4>1. Ping \in Received
        BY DEF Received, Sent
      <4> QED BY <1>a, <4>1, Classified DEF Ping, Blank
    <3>3. \A b \in Books : AfterAll(b, wire') = AfterAll(b, wire)
      BY <3>1, <3>2, OtherSent, AppliedOther
    <3>4. (\E i \in DOMAIN wire' : wire'[i].data /\ Whole(wire'[i])) =>
            (\E i \in DOMAIN wire : wire[i].data /\ Whole(wire[i]))
      BY <3>1, <3>2, OtherSent
    <3> QED BY <1>a, <2>0, <3>1, <3>3, <3>4 DEF SyncInv, WireHeals
  <2>4. ASSUME NEW c \in Changes, ExchangeChanges(c) PROVE SyncInv'
    <3> DEFINE d == [truth EXCEPT ![c.side][c.price] = c.qty]
    <3>1. truth' = d /\ d \in Books /\ UNCHANGED <<sub, up, gap>>
      BY <1>a, <2>4, DeltaApplied DEF ExchangeChanges
    <3>2. CASE sub # "live"
      BY <3>1, <3>2 DEF SyncInv
    <3>3. CASE sub = "live" /\ venue = "OKX"
      <4>1. wire' = Append(wire, WholeBook(truth'))
        BY <2>4, <3>3 DEF ExchangeChanges, SyncInv
      <4>2. \A b \in Books : AfterAll(b, wire') = truth'
        BY <3>1, <4>1, WholeSent
      <4> QED BY <1>a, <2>0, <3>1, <4>2 DEF SyncInv, WireHeals
    <3>4. CASE sub = "live" /\ venue # "OKX"
      <4>1. wire' = Append(wire, Delta(c))
        BY <2>4, <3>4 DEF ExchangeChanges, SyncInv
      <4>2. Delta(c) \in Msg /\ ~Whole(Delta(c)) /\ Applied(truth, Delta(c)) = truth'
        BY <1>a, <3>1, DeltaApplied
      <4>3. \A b \in Books : AfterAll(b, wire') = Applied(AfterAll(b, wire), Delta(c))
        BY <4>1, <4>2, OtherSent
      <4>4. (\E i \in DOMAIN wire' : wire'[i].data /\ Whole(wire'[i])) =>
              (\E i \in DOMAIN wire : wire[i].data /\ Whole(wire[i]))
        BY <4>1, <4>2, OtherSent
      <4> QED BY <1>a, <2>0, <3>1, <4>2, <4>3, <4>4 DEF SyncInv, WireHeals
    <3> QED BY <3>2, <3>3, <3>4
  <2>5. CASE EnqueueRead \/ DropRead \/ Poll \/ UNCHANGED vars
    <3>1. UNCHANGED <<wireVars, gap>>
      BY <2>5 DEF EnqueueRead, DropRead, HandlesRead, Poll, Dequeue, ProcessPing,
         ProcessOther, ProcessBook, Callback, vars
    <3> QED BY <2>0, <3>1 DEF SyncInv, WireHeals
  <2> QED BY <1>2, <2>1, <2>2, <2>3, <2>4, <2>5 DEF Next, Exchange, Io
<1> QED BY <1>1, <1>2

\* As long as gap does not say that a message about the book was lost, the
\* book of the application, once it has worked off what the read handler and
\* incoming_queue_ hold and what is under way, is the book of the exchange:
\* for both exchanges, any prices and changes, any number of broken streams,
\* pings and messages under way, and every size of the queue.
THEOREM BookCorrect == Spec => []InSync
<1>1. Init => PathTypes /\ SyncInv
  BY PathTypesInit DEF Init, SyncInv
<1>2. (PathTypes /\ SyncInv) /\ [Next]_vars => (PathTypes /\ SyncInv)'
  BY PathTypesStep, SyncStep
<1>3. PathTypes /\ SyncInv => InSync
  BY PendingHeld DEF SyncInv, InSync
<1> QED BY <1>1, <1>2, <1>3, PTL DEF Spec

\* The state is well-formed: incoming_queue_ never outgrows its limit although
\* the size is compared and the message pushed under two separate locks.
THEOREM PathTypeCorrect == Spec => []TypeOK
<1>1. PathTypes => TypeOK
  BY DEF PathTypes, TypeOK
<1> QED BY <1>1, PathTypesInit, PathTypesStep, PTL DEF Spec

-----------------------------------------------------------------------------
(* The books the application goes through.                                 *)

\* The book, and what it becomes message by message.
Track(b, q) == [i \in 1..Len(q) + 1 |-> AfterAll(b, SubSeq(q, 1, i - 1))]

\* The beginning of a sequence of messages.
LEMMA Prefix ==
  ASSUME NEW q \in Seq(Msg), NEW i \in 0..Len(q)
  PROVE  /\ SubSeq(q, 1, i) \in Seq(Msg) /\ Len(SubSeq(q, 1, i)) = i
         /\ \A k \in 1..i : SubSeq(q, 1, i)[k] = q[k]
OBVIOUS

\* Two sequences of messages with the same messages are the same.
LEMMA SameMsgs ==
  ASSUME NEW q \in Seq(Msg), NEW r \in Seq(Msg), Len(q) = Len(r),
         \A k \in 1..Len(q) : q[k] = r[k]
  PROVE  q = r
OBVIOUS

\* One after the other.
LEMMA JoinMsgs ==
  ASSUME NEW q \in Seq(Msg), NEW r \in Seq(Msg)
  PROVE  /\ q \o r \in Seq(Msg) /\ Len(q \o r) = Len(q) + Len(r)
         /\ Len(q) \in Nat /\ Len(r) \in Nat
         /\ \A k \in 1..Len(q) : (q \o r)[k] = q[k]
         /\ \A k \in 1..Len(r) : (q \o r)[Len(q) + k] = r[k]
OBVIOUS

\* One message between two sequences, and in front of three.
LEMMA Regroup ==
  ASSUME NEW q \in Seq(Msg), NEW m \in Msg, NEW r \in Seq(Msg)
  PROVE  q \o (<<m>> \o r) = Append(q, m) \o r /\ q \o (<<m>> \o r) = (q \o <<m>>) \o r
OBVIOUS

\* The messages of all are m and then those of rest.
Begins(all, m, rest) == all # <<>> /\ Head(all) = m /\ Tail(all) = rest

LEMMA FirstOf ==
  ASSUME NEW m \in Msg, NEW q \in Seq(Msg), NEW r \in Seq(Msg), NEW s \in Seq(Msg)
  PROVE  Begins(<<m>> \o q \o r \o s, m, <<>> \o q \o r \o s)
<1> DEFINE x == (q \o r) \o s
<1>1. x \in Seq(Msg) /\ <<>> \o q = q
  OBVIOUS
<1>2. <<m>> \o q \o r \o s = <<m>> \o x
  OBVIOUS
<1> HIDE DEF x
<1>3. <<m>> \o x # <<>> /\ Head(<<m>> \o x) = m /\ Tail(<<m>> \o x) = x
  BY <1>1
<1> QED BY <1>1, <1>2, <1>3 DEF x, Begins

\* Where a track leads to.
LEMMA TrackEnd ==
  ASSUME NEW b \in Books, NEW q \in Seq(Msg)
  PROVE  /\ Track(b, q) \in Seq(Books) /\ Len(Track(b, q)) = Len(q) + 1
         /\ Track(b, q)[1] = b
         /\ Track(b, q)[Len(q) + 1] = AfterAll(b, q)
         /\ \A i \in 1..Len(q) + 1 : Track(b, q)[i] = AfterAll(b, SubSeq(q, 1, i - 1))
<1>1. \A i \in 1..Len(q) + 1 : AfterAll(b, SubSeq(q, 1, i - 1)) \in Books
  <2> TAKE i \in 1..Len(q) + 1
  <2>1. SubSeq(q, 1, i - 1) \in Seq(Msg)
    BY Prefix
  <2> QED BY <2>1, AfterAllIsBook
<1>2. Len(q) \in Nat
  OBVIOUS
<1>3. SubSeq(q, 1, 0) = <<>> /\ SubSeq(q, 1, Len(q)) = q
  <2>1. SubSeq(q, 1, Len(q)) = q
    BY <1>2, Prefix, SameMsgs
  <2> QED BY <2>1
<1>4. AfterAll(b, <<>>) = b
  BY AfterNone
<1>5. \A i \in 1..Len(q) + 1 : Track(b, q)[i] = AfterAll(b, SubSeq(q, 1, i - 1))
  BY DEF Track
<1>6. Track(b, q) \in Seq(Books) /\ Len(Track(b, q)) = Len(q) + 1
  BY <1>1, <1>2 DEF Track
<1>7. Track(b, q)[1] = AfterAll(b, SubSeq(q, 1, 0))
  BY <1>2, <1>5
<1>8. Track(b, q)[Len(q) + 1] = AfterAll(b, SubSeq(q, 1, Len(q)))
  BY <1>2, <1>5
<1> QED BY <1>3, <1>4, <1>5, <1>6, <1>7, <1>8

\* The same messages lead through the same books.
LEMMA SameTrack ==
  ASSUME NEW b \in Books, NEW q \in Seq(Msg), NEW r \in Seq(Msg), NEW n \in Nat,
         n <= Len(q), n <= Len(r), \A k \in 1..n : q[k] = r[k]
  PROVE  \A i \in 1..n + 1 : Track(b, q)[i] = Track(b, r)[i]
<1> TAKE i \in 1..n + 1
<1>1. i - 1 \in 0..Len(q) /\ i - 1 \in 0..Len(r) /\ i \in 1..Len(q) + 1 /\ i \in 1..Len(r) + 1
  OBVIOUS
<1>2. /\ SubSeq(q, 1, i - 1) \in Seq(Msg) /\ Len(SubSeq(q, 1, i - 1)) = i - 1
      /\ SubSeq(r, 1, i - 1) \in Seq(Msg) /\ Len(SubSeq(r, 1, i - 1)) = i - 1
      /\ \A k \in 1..i - 1 : SubSeq(q, 1, i - 1)[k] = q[k] /\ SubSeq(r, 1, i - 1)[k] = r[k]
  BY <1>1, Prefix
<1>3. \A k \in 1..i - 1 : q[k] = r[k]
  OBVIOUS
<1>4. SubSeq(q, 1, i - 1) = SubSeq(r, 1, i - 1)
  BY <1>2, <1>3, SameMsgs
<1>5. Track(b, q)[i] = AfterAll(b, SubSeq(q, 1, i - 1))
  BY <1>1, TrackEnd, Zenon
<1>6. Track(b, r)[i] = AfterAll(b, SubSeq(r, 1, i - 1))
  BY <1>1, TrackEnd, Zenon
<1> QED BY <1>4, <1>5, <1>6

\* One message more leads one book further.
LEMMA TrackAppend ==
  ASSUME NEW b \in Books, NEW q \in Seq(Msg), NEW m \in Msg
  PROVE  Track(b, Append(q, m)) = Append(Track(b, q), Applied(AfterAll(b, q), m))
<1> DEFINE a == Append(q, m)
           u == Track(b, q)
           x == Applied(AfterAll(b, q), m)
<1>1. a \in Seq(Msg) /\ Len(a) = Len(q) + 1 /\ Len(q) \in Nat /\ \A k \in 1..Len(q) : a[k] = q[k]
  OBVIOUS
<1>2. AfterAll(b, a) = x
  BY AfterAppend
<1>3. u \in Seq(Books) /\ Len(u) = Len(q) + 1
      /\ \A i \in 1..Len(q) + 1 : u[i] = AfterAll(b, SubSeq(q, 1, i - 1))
  BY TrackEnd
<1>4. Track(b, a) \in Seq(Books) /\ Len(Track(b, a)) = Len(q) + 2
      /\ Track(b, a)[Len(q) + 2] = x
      /\ \A i \in 1..Len(q) + 2 : Track(b, a)[i] = AfterAll(b, SubSeq(a, 1, i - 1))
  <2> HIDE DEF a, x
  <2>1. Track(b, a) \in Seq(Books) /\ Len(Track(b, a)) = Len(a) + 1
        /\ Track(b, a)[Len(a) + 1] = AfterAll(b, a)
        /\ \A i \in 1..Len(a) + 1 : Track(b, a)[i] = AfterAll(b, SubSeq(a, 1, i - 1))
    BY <1>1, TrackEnd
  <2> QED BY <1>1, <1>2, <2>1
<1>5. x \in Books
  BY AfterAllIsBook, AppliedAt
<1> HIDE DEF a, u, x
<1>6. \A i \in 1..Len(q) + 1 : Track(b, a)[i] = Track(b, q)[i]
  BY <1>1, SameTrack
<1>7. \A i \in 1..Len(q) + 1 : Track(b, a)[i] = u[i]
  BY <1>6 DEF u
<1>8. Track(b, a) = Append(u, x)
  BY <1>1, <1>3, <1>4, <1>5, <1>7
<1> QED BY <1>8 DEF a, u, x

\* Working off the first message is one step on the track.
LEMMA TrackTail ==
  ASSUME NEW b \in Books, NEW q \in Seq(Msg), q # <<>>
  PROVE  Track(Applied(b, Head(q)), Tail(q)) = Tail(Track(b, q))
<1> DEFINE c == Applied(b, Head(q))
           t == Tail(q)
           n == Len(q)
<1>1. Head(q) \in Msg /\ t \in Seq(Msg) /\ n \in Nat \ {0} /\ Len(t) = n - 1
      /\ \A k \in 1..n - 1 : t[k] = q[k + 1]
  OBVIOUS
<1>2. c \in Books
  BY <1>1, AppliedAt
<1>3. Track(b, q) \in Seq(Books) /\ Len(Track(b, q)) = n + 1
      /\ \A i \in 1..n + 1 : Track(b, q)[i] = AfterAll(b, SubSeq(q, 1, i - 1))
  BY TrackEnd
<1> HIDE DEF c, t
<1>4. Track(c, t) \in Seq(Books) /\ Len(Track(c, t)) = Len(t) + 1
      /\ \A i \in 1..Len(t) + 1 : Track(c, t)[i] = AfterAll(c, SubSeq(t, 1, i - 1))
  BY <1>1, <1>2, TrackEnd
<1>5. ASSUME NEW i \in 1..n PROVE AfterAll(c, SubSeq(t, 1, i - 1)) = AfterAll(b, SubSeq(q, 1, i))
  <2> DEFINE s == SubSeq(q, 1, i)
             r == SubSeq(t, 1, i - 1)
  <2>1. i \in 0..Len(q) /\ i - 1 \in 0..Len(t)
    BY <1>1
  <2>2. s \in Seq(Msg) /\ Len(s) = i /\ \A k \in 1..i : s[k] = q[k]
    BY <2>1, Prefix
  <2>3. r \in Seq(Msg) /\ Len(r) = i - 1 /\ \A k \in 1..i - 1 : r[k] = t[k]
    BY <1>1, <2>1, Prefix
  <2> HIDE DEF s, r
  <2>4. s # <<>> /\ Head(s) = Head(q) /\ Tail(s) \in Seq(Msg) /\ Len(Tail(s)) = i - 1
        /\ \A k \in 1..i - 1 : Tail(s)[k] = s[k + 1]
    BY <1>1, <2>2
  <2>5. \A k \in 1..i - 1 : Tail(s)[k] = r[k]
    BY <1>1, <2>2, <2>3, <2>4
  <2>6. Tail(s) = r
    BY <2>3, <2>4, <2>5, SameMsgs
  <2>7. AfterAll(b, s) = AfterAll(c, r)
    BY <2>2, <2>4, <2>6, AfterHead DEF c
  <2> QED BY <2>7 DEF s, r
<1>6. \A i \in 1..n : Track(c, t)[i] = Track(b, q)[i + 1]
  <2> TAKE i \in 1..n
  <2>1. i \in 1..Len(t) + 1 /\ i + 1 \in 1..n + 1 /\ (i + 1) - 1 = i
    BY <1>1
  <2>2. Track(c, t)[i] = AfterAll(c, SubSeq(t, 1, i - 1))
    BY <1>4, <2>1
  <2>3. Track(b, q)[i + 1] = AfterAll(b, SubSeq(q, 1, i))
    BY <1>3, <2>1
  <2> QED BY <1>5, <2>2, <2>3
<1> HIDE DEF n
<1>7. Track(c, t) = Tail(Track(b, q))
  BY <1>1, <1>3, <1>4, <1>6
<1> QED BY <1>7 DEF c, t

\* Without its last messages, the track ends earlier.
LEMMA TrackCut ==
  ASSUME NEW b \in Books, NEW q \in Seq(Msg), NEW r \in Seq(Msg)
  PROVE  Track(b, q) = SubSeq(Track(b, q \o r), 1, Len(q) + 1)
<1> DEFINE a == q \o r
           n == Len(q)
<1>1. a \in Seq(Msg) /\ n \in Nat /\ Len(a) = n + Len(r) /\ Len(r) \in Nat
      /\ \A k \in 1..n : a[k] = q[k]
  OBVIOUS
<1>2. Track(b, q) \in Seq(Books) /\ Len(Track(b, q)) = n + 1
  BY TrackEnd
<1> HIDE DEF a
<1>3. Track(b, a) \in Seq(Books) /\ Len(Track(b, a)) = Len(a) + 1
  BY <1>1, TrackEnd
<1>4. \A i \in 1..n + 1 : Track(b, q)[i] = Track(b, a)[i]
  <2>1. n <= Len(q) /\ n <= Len(a) /\ \A k \in 1..n : q[k] = a[k]
    BY <1>1
  <2> QED BY <1>1, <2>1, SameTrack, Zenon
<1> HIDE DEF n
<1>5. Track(b, q) = SubSeq(Track(b, a), 1, n + 1)
  BY <1>1, <1>2, <1>3, <1>4
<1> QED BY <1>5 DEF a, n

\* Messages that are not about the book leave it alone.
LEMMA AfterQuiet ==
  ASSUME NEW b \in Books, NEW q \in Seq(Msg), \A k \in DOMAIN q : ~q[k].data
  PROVE  AfterAll(b, q) = b
<1>1. \A s, p : Speaking(q, s, p) = {}
  BY DEF Speaking, Speaks
<1>2. \A s \in Sides, p \in Prices : AfterAll(b, q)[s][p] = b[s][p]
  BY <1>1, AfterAllAt
<1> QED BY <1>2, AfterAllIsBook, SameBook

\* The second part of a track starts where the first part leads to.
LEMMA TrackConcat ==
  ASSUME NEW b \in Books, NEW q \in Seq(Msg), NEW r \in Seq(Msg), NEW w \in 0..Len(r)
  PROVE  Track(b, q \o r)[Len(q) + 1 + w] = AfterAll(AfterAll(b, q), SubSeq(r, 1, w))
<1> DEFINE a == q \o r
           n == Len(q)
           h == SubSeq(r, 1, w)
           g == SubSeq(a, 1, n + w)
<1>1. a \in Seq(Msg) /\ n \in Nat /\ Len(a) = n + Len(r) /\ Len(r) \in Nat
      /\ (\A k \in 1..n : a[k] = q[k]) /\ (\A k \in 1..Len(r) : a[n + k] = r[k])
  BY JoinMsgs, Zenon
<1>2. h \in Seq(Msg) /\ Len(h) = w /\ \A k \in 1..w : h[k] = r[k]
  BY Prefix
<1> HIDE DEF a, h
<1>3. n + w \in 0..Len(a)
  BY <1>1
<1>4. g \in Seq(Msg) /\ Len(g) = n + w /\ \A k \in 1..n + w : g[k] = a[k]
  BY <1>1, <1>3, Prefix
<1> HIDE DEF g
<1>5. q \o h \in Seq(Msg) /\ Len(q \o h) = n + w
      /\ (\A k \in 1..n : (q \o h)[k] = q[k]) /\ (\A k \in 1..w : (q \o h)[n + k] = h[k])
  <2>1. h \in Seq(Msg) /\ Len(h) = w
    BY <1>2
  <2>2. /\ q \o h \in Seq(Msg) /\ Len(q \o h) = Len(q) + Len(h)
        /\ \A k \in 1..Len(q) : (q \o h)[k] = q[k]
        /\ \A k \in 1..Len(h) : (q \o h)[Len(q) + k] = h[k]
    BY <2>1, JoinMsgs, Zenon
  <2> QED BY <2>1, <2>2, Zenon
<1> HIDE DEF n
<1>6. \A k \in 1..n + w : g[k] = (q \o h)[k]
  <2> TAKE k \in 1..n + w
  <2>1. CASE k <= n
    BY <1>1, <1>4, <1>5, <2>1
  <2>2. CASE k > n
    <3>1. k - n \in 1..w /\ k - n \in 1..Len(r) /\ n + (k - n) = k
      BY <1>1, <2>2
    <3>2. a[k] = r[k - n] /\ (q \o h)[k] = h[k - n] /\ h[k - n] = r[k - n]
      BY <1>1, <1>2, <1>5, <3>1
    <3> QED BY <1>4, <3>2
  <2>3. k <= n \/ k > n
    BY <1>1
  <2> QED BY <2>1, <2>2, <2>3
<1>7. g = q \o h
  BY <1>4, <1>5, <1>6, SameMsgs
<1>8. AfterAll(b, q \o h) = AfterAll(AfterAll(b, q), h)
  BY <1>2, AfterConcat
<1>9. n + w + 1 \in 1..Len(a) + 1 /\ (n + w + 1) - 1 = n + w /\ n + 1 + w = n + w + 1
  BY <1>1
<1>10. Track(b, a)[n + w + 1] = AfterAll(b, SubSeq(a, 1, (n + w + 1) - 1))
  BY <1>1, <1>9, TrackEnd, Zenon
<1>11. Track(b, a)[n + 1 + w] = AfterAll(b, g)
  BY <1>9, <1>10 DEF g
<1>12. Track(b, a)[n + 1 + w] = AfterAll(AfterAll(b, q), h)
  BY <1>7, <1>8, <1>11
<1> QED BY <1>12 DEF a, n, h

\* Book n + 1 stays where book n + 2 and those up to j are missing.
LEMMA LossShape ==
  ASSUME NEW u \in Seq(Books), NEW v \in Seq(Books), NEW n \in Nat, NEW l \in Nat,
         NEW gone \in {0, 1}, NEW j \in 1..n + 2 + l,
         Len(u) = n + 2 + l, Len(v) = n + 2 + l - gone,
         \A k \in 1..n + 1 : v[k] = u[k],
         \A k \in n + 2 .. n + 2 + l - gone :
           v[k] = IF k + gone <= j THEN u[n + 1] ELSE u[k + gone]
  PROVE  v \in Delayed!Lossy(u)
<1>1. \A k \in 1..Len(u) - gone :
        v[k] = IF k <= n + 1 THEN u[k] ELSE IF k + gone <= j THEN u[n + 1] ELSE u[k + gone]
  <2> TAKE k \in 1..Len(u) - gone
  <2>1. k \in 1..n + 1 \/ k \in n + 2 .. n + 2 + l - gone
    OBVIOUS
  <2>2. CASE k \in 1..n + 1
    BY <2>2
  <2>3. CASE k \in n + 2 .. n + 2 + l - gone
    <3>1. ~(k <= n + 1)
      BY <2>3
    <3>2. v[k] = IF k + gone <= j THEN u[n + 1] ELSE u[k + gone]
      BY <2>3
    <3> QED BY <3>1, <3>2
  <2> QED BY <2>1, <2>2, <2>3
<1>2. DOMAIN v = 1..Len(u) - gone
  OBVIOUS
<1>3. v = Delayed!Missing(u, n + 1, j, gone)
  BY <1>1, <1>2 DEF Delayed!Missing
<1>4. n + 1 \in 1..Len(u) - 1 /\ j \in 1..Len(u)
  OBVIOUS
<1> QED BY <1>3, <1>4 DEF Delayed!Lossy

\* When a message is lost that is not about the book, or after which whole
\* books come, the track misses some of its books and no other changes.
LEMMA TrackLoss ==
  ASSUME NEW b \in Books, NEW P \in Seq(Msg), NEW m \in Msg, NEW X \in Seq(Msg),
         NEW W \in Seq(Msg), NEW gone \in {0, 1}, Len(X) = 1 - gone,
         \A k \in DOMAIN X : ~X[k].data,
         ~m.data \/ \A k \in DOMAIN W : W[k].data => Whole(W[k])
  PROVE  Track(b, (P \o X) \o W) \in Delayed!Lossy(Track(b, Append(P, m) \o W))
<1> DEFINE n == Len(P)
           l == Len(W)
           B == AfterAll(b, P)
           C == Applied(B, m)
           A == P \o X
           D == Append(P, m)
           u == Track(b, D \o W)
           v == Track(b, A \o W)
<1> SUFFICES v \in Delayed!Lossy(u)
  OBVIOUS
<1>0. n \in Nat /\ l \in Nat /\ DOMAIN W = 1..l
  OBVIOUS
<1>1. /\ A \in Seq(Msg) /\ Len(A) = n + 1 - gone /\ \A k \in 1..n : A[k] = P[k]
      /\ D \in Seq(Msg) /\ Len(D) = n + 1 /\ \A k \in 1..n : D[k] = P[k]
  BY JoinMsgs
<1>2. B \in Books /\ C \in Books /\ AfterAll(b, D) = C
  BY AfterAllIsBook, AppliedAt, AfterAppend
<1>3. AfterAll(b, A) = B
  BY <1>2, AfterConcat, AfterQuiet
<1>9. u[n + 1] = B
  <2>1. D \o W = P \o (<<m>> \o W) /\ <<m>> \o W \in Seq(Msg)
    OBVIOUS
  <2>2. 0 \in 0..Len(<<m>> \o W) /\ n + 1 + 0 = n + 1 /\ SubSeq(<<m>> \o W, 1, 0) = <<>>
    BY <2>1
  <2> HIDE DEF D
  <2>3. Track(b, P \o (<<m>> \o W))[n + 1 + 0] = AfterAll(B, SubSeq(<<m>> \o W, 1, 0))
    BY <2>1, <2>2, TrackConcat, Zenon
  <2>4. AfterAll(B, <<>>) = B
    BY <1>2, AfterNone
  <2> QED BY <2>1, <2>2, <2>3, <2>4
<1> HIDE DEF A, D
<1>4. /\ A \o W \in Seq(Msg) /\ Len(A \o W) = Len(A) + l
      /\ D \o W \in Seq(Msg) /\ Len(D \o W) = Len(D) + l
      /\ \A k \in 1..Len(A) : (A \o W)[k] = A[k]
      /\ \A k \in 1..Len(D) : (D \o W)[k] = D[k]
  BY <1>1, JoinMsgs
<1>5. v \in Seq(Books) /\ Len(v) = Len(A) + l + 1 /\ u \in Seq(Books) /\ Len(u) = Len(D) + l + 1
  <2>1. v \in Seq(Books) /\ Len(v) = Len(A \o W) + 1
    BY <1>4, TrackEnd, Zenon
  <2>2. u \in Seq(Books) /\ Len(u) = Len(D \o W) + 1
    BY <1>4, TrackEnd, Zenon
  <2> QED BY <1>4, <2>1, <2>2
<1>6. \A k \in 1..n + 1 : v[k] = u[k]
  <2>1. n <= Len(A \o W) /\ n <= Len(D \o W)
    BY <1>0, <1>1, <1>4
  <2>2. \A k \in 1..n : (A \o W)[k] = (D \o W)[k]
    <3> TAKE k \in 1..n
    <3>1. k \in 1..Len(A) /\ k \in 1..Len(D)
      BY <1>0, <1>1
    <3> QED BY <1>1, <1>4, <3>1
  <2> QED BY <1>0, <1>4, <2>1, <2>2, SameTrack, Zenon
<1>7. \A w \in 0..l : v[n + 2 - gone + w] = AfterAll(B, SubSeq(W, 1, w))
  <2> TAKE w \in 0..l
  <2>1. Track(b, A \o W)[Len(A) + 1 + w] = AfterAll(AfterAll(b, A), SubSeq(W, 1, w))
    BY <1>1, TrackConcat
  <2>2. Len(A) + 1 + w = n + 2 - gone + w
    BY <1>0, <1>1
  <2> QED BY <1>3, <2>1, <2>2
<1>8. \A w \in 0..l : u[n + 2 + w] = AfterAll(C, SubSeq(W, 1, w))
  <2> TAKE w \in 0..l
  <2>1. Track(b, D \o W)[Len(D) + 1 + w] = AfterAll(AfterAll(b, D), SubSeq(W, 1, w))
    BY <1>1, TrackConcat
  <2>2. Len(D) + 1 + w = n + 2 + w
    BY <1>0, <1>1
  <2> QED BY <1>2, <2>1, <2>2
<1>10. ASSUME NEW w \in 0..l, \A k \in 1..w : ~W[k].data
       PROVE  AfterAll(B, SubSeq(W, 1, w)) = B
  <2>1. SubSeq(W, 1, w) \in Seq(Msg) /\ \A k \in DOMAIN SubSeq(W, 1, w) : ~SubSeq(W, 1, w)[k].data
    BY <1>10, Prefix
  <2> QED BY <1>2, <2>1, AfterQuiet
<1>11. ASSUME NEW w \in 0..l, NEW k \in 1..w, W[k].data, m.data
       PROVE  AfterAll(B, SubSeq(W, 1, w)) = AfterAll(C, SubSeq(W, 1, w))
  <2>1. Whole(W[k])
    BY <1>0, <1>11
  <2>2. SubSeq(W, 1, w) \in Seq(Msg) /\ k \in DOMAIN SubSeq(W, 1, w) /\ SubSeq(W, 1, w)[k] = W[k]
    BY <1>11, Prefix
  <2> QED BY <1>2, <1>11, <2>1, <2>2, WholeForgets
<1>12. ~m.data => C = B
  BY AppliedOther
<1>13. Len(u) = n + 2 + l /\ Len(v) = n + 2 + l - gone
  BY <1>0, <1>1, <1>5
<1> HIDE DEF n, l, B, C, u, v
<1>14. ASSUME NEW j \in 1..n + 2 + l,
              \A w \in 0..l : AfterAll(B, SubSeq(W, 1, w)) =
                IF n + 2 + w <= j THEN B ELSE AfterAll(C, SubSeq(W, 1, w))
       PROVE  v \in Delayed!Lossy(u)
  <2>1. ASSUME NEW k \in n + 2 .. n + 2 + l - gone
        PROVE  v[k] = IF k + gone <= j THEN u[n + 1] ELSE u[k + gone]
    <3>1. PICK w \in 0..l : k = n + 2 - gone + w /\ k + gone = n + 2 + w
      <4>1. k + gone - (n + 2) \in 0..l
        BY <1>0
      <4>2. k = n + 2 - gone + (k + gone - (n + 2)) /\ k + gone = n + 2 + (k + gone - (n + 2))
        BY <1>0
      <4> QED BY <4>1, <4>2
    <3>2. v[k] = AfterAll(B, SubSeq(W, 1, w)) /\ u[k + gone] = AfterAll(C, SubSeq(W, 1, w))
      BY <1>7, <1>8, <3>1
    <3> QED BY <1>9, <1>14, <3>1, <3>2
  <2> QED BY <1>0, <1>5, <1>6, <1>13, <2>1, LossShape
<1>15. CASE ~m.data
  <2>1. 1 \in 1..n + 2 + l /\ \A w \in 0..l : ~(n + 2 + w <= 1)
    BY <1>0
  <2> QED BY <1>12, <1>14, <1>15, <2>1
<1>16. CASE m.data /\ \A k \in 1..l : ~W[k].data
  <2>1. n + 2 + l \in 1..n + 2 + l /\ \A w \in 0..l : n + 2 + w <= n + 2 + l
    BY <1>0
  <2>2. ASSUME NEW w \in 0..l PROVE AfterAll(B, SubSeq(W, 1, w)) = B
    <3>1. \A k \in 1..w : ~W[k].data
      BY <1>0, <1>16
    <3> QED BY <1>10, <3>1
  <2> QED BY <1>14, <2>1, <2>2
<1>17. CASE m.data /\ \E k \in 1..l : W[k].data
  <2> DEFINE S == {k \in 1..l : W[k].data}
  <2>1. S # {} /\ S \subseteq Nat
    BY <1>0, <1>17
  <2>2. PICK d \in S : \A k \in S : ~(k < d)
    BY <2>1, NatHasLeast
  <2>3. d \in 1..l /\ W[d].data /\ n + 1 + d \in 1..n + 2 + l
    BY <1>0
  <2>4. ASSUME NEW w \in 0..l
        PROVE  AfterAll(B, SubSeq(W, 1, w)) =
                 IF n + 2 + w <= n + 1 + d THEN B ELSE AfterAll(C, SubSeq(W, 1, w))
    <3>1. n + 2 + w <= n + 1 + d <=> w < d
      BY <1>0, <2>3
    <3>2. CASE w < d
      <4>1. ASSUME NEW k \in 1..w PROVE ~W[k].data
        <5>1. k \in 1..l /\ k < d
          BY <1>0, <2>3, <3>2
        <5> QED BY <2>2, <5>1
      <4> QED BY <1>10, <3>1, <3>2, <4>1
    <3>3. CASE ~(w < d)
      <4>1. d \in 1..w
        BY <1>0, <2>3, <3>3
      <4> QED BY <1>11, <1>17, <2>3, <3>1, <3>3, <4>1
    <3> QED BY <3>2, <3>3
  <2> HIDE DEF S
  <2> QED BY <1>14, <2>3, <2>4
<1> QED BY <1>15, <1>16, <1>17

\* What has been read and what poll() is working on.
InHand ==
  ((IF cur = None THEN <<>> ELSE <<cur>>) \o queue)
    \o (IF rx.pc = "room" THEN <<rx.msg>> ELSE <<>>)

\* What is pending is what is in hand and the wire.
LEMMA PendingMsgs ==
  ASSUME PathTypes
  PROVE  /\ InHand \in Seq(Msg) /\ wire \in Seq(Msg) /\ Pending \in Seq(Msg)
         /\ Pending = InHand \o wire
         /\ Versions = Track(book, Pending) /\ Versions' = Track(book', Pending')
         /\ book \in Books /\ truth \in Books
<1>1. /\ wire \in Seq(Msg) /\ queue \in Seq(Msg)
      /\ rx.pc = "room" => rx.msg \in Msg
      /\ cur # None => cur \in Msg
  BY HeldIsBook
<1>2. InHand \in Seq(Msg)
  BY <1>1 DEF InHand
<1>3. Pending = InHand \o wire
  BY DEF Pending, InHand
<1>4. Versions = Track(book, Pending) /\ Versions' = Track(book', Pending')
  BY DEF Versions, Track
<1> QED BY <1>1, <1>2, <1>3, <1>4 DEF PathTypes

\* The exchange says something.
LEMMA OrderSends ==
  ASSUME PathTypes, NEW m \in Msg, wire' = Append(wire, m),
         UNCHANGED <<cur, queue, rx, book>>
  PROVE  /\ Versions' = Append(Versions, Applied(AfterAll(book, Pending), m))
         /\ ~m.data => Versions' = Append(Versions, Versions[Len(Versions)])
<1>1. /\ InHand \in Seq(Msg) /\ wire \in Seq(Msg) /\ Pending = InHand \o wire
      /\ Versions = Track(book, Pending) /\ Versions' = Track(book', Pending')
      /\ book \in Books /\ Pending \in Seq(Msg)
  BY PendingMsgs
<1>2. Pending' = InHand \o Append(wire, m)
  BY DEF Pending, InHand
<1>3. Pending' = Append(Pending, m)
  BY <1>1, <1>2
<1>4. Versions' = Append(Versions, Applied(AfterAll(book, Pending), m))
  BY <1>1, <1>3, TrackAppend
<1>5. Versions[Len(Versions)] = AfterAll(book, Pending)
  <2>1. /\ Len(Track(book, Pending)) = Len(Pending) + 1
        /\ Track(book, Pending)[Len(Pending) + 1] = AfterAll(book, Pending)
    BY <1>1, TrackEnd, Zenon
  <2> QED BY <1>1, <2>1
<1> QED BY <1>4, <1>5, AppliedOther

\* A message is finished: it is the first one pending.
LEMMA OrderTakes ==
  ASSUME PathTypes, cur # None, cur' = None, UNCHANGED <<queue, rx, wire>>,
         book' = Applied(book, cur)
  PROVE  Len(Versions) > 1 /\ Versions' = Tail(Versions)
<1>1. /\ Pending \in Seq(Msg) /\ wire \in Seq(Msg) /\ book \in Books
      /\ Versions = Track(book, Pending) /\ Versions' = Track(book', Pending')
  BY PendingMsgs
<1>2. /\ queue \in Seq(Msg) /\ cur \in Msg
      /\ rx.pc = "room" => rx.msg \in Msg
  BY HeldIsBook DEF PathTypes
<1> DEFINE C == IF rx.pc = "room" THEN <<rx.msg>> ELSE <<>>
<1>3. C \in Seq(Msg)
  BY <1>2
<1>4. Pending = <<cur>> \o queue \o C \o wire /\ Pending' = <<>> \o queue \o C \o wire
  BY DEF Pending
<1> HIDE DEF C
<1>5. Pending # <<>> /\ Head(Pending) = cur /\ Tail(Pending) = Pending'
  <2>1. cur \in Msg /\ queue \in Seq(Msg) /\ wire \in Seq(Msg)
    BY <1>1, <1>2
  <2>2. Begins(<<cur>> \o queue \o C \o wire, cur, <<>> \o queue \o C \o wire)
    BY <1>3, <2>1, FirstOf, Zenon
  <2>3. Begins(Pending, cur, Pending')
    BY <1>4, <2>2, Zenon
  <2> QED BY <2>3 DEF Begins
<1>6. Versions' = Tail(Versions)
  BY <1>1, <1>5, TrackTail
<1>7. Len(Versions) = Len(Pending) + 1 /\ Len(Pending) > 0
  BY <1>1, <1>5, TrackEnd
<1> QED BY <1>6, <1>7

\* A read takes the next message, intact, cut off or too late for the queue.
LEMMA OrderRead ==
  ASSUME PathTypes, ReadCompletes, gap' => venue = "OKX"
  PROVE  UNCHANGED Versions \/ Versions' \in Delayed!Lossy(Versions)
<1> DEFINE h == Head(wire)
           t == Tail(wire)
<1>1. /\ wire # <<>> /\ wire' = t /\ rx.pc = "waiting" /\ rx'.pc \in {"room", "full"}
      /\ gap' = IF ~h.data THEN gap ELSE partial \/ rx'.pc = "full" \/ (gap /\ ~Whole(h))
      /\ rx'.msg = IF partial THEN Garbled ELSE h
      /\ UNCHANGED <<cur, queue, book>>
  BY DEF ReadCompletes, pollVars
<1>2. /\ InHand \in Seq(Msg) /\ wire \in Seq(Msg) /\ Pending = InHand \o wire
      /\ Versions = Track(book, Pending) /\ Versions' = Track(book', Pending')
      /\ book \in Books
  BY PendingMsgs
<1>3. /\ h \in Msg /\ t \in Seq(Msg) /\ wire = <<h>> \o t
      /\ \A k \in DOMAIN t : k + 1 \in DOMAIN wire /\ t[k] = wire[k + 1]
  BY <1>1, <1>2
<1>4. Garbled \in Msg /\ ~Garbled.data
  BY Classified DEF Received, PathTypes, Garbled, Blank
<1>5. CASE rx'.pc = "room" /\ ~partial
  <2>1. Pending' = (InHand \o <<h>>) \o t
    BY <1>1, <1>2, <1>5 DEF Pending, InHand
  <2> HIDE DEF h, t
  <2>2. Pending' = Pending
    BY <1>2, <1>3, <2>1
  <2> QED BY <1>1, <1>2, <2>2
<1>6. ASSUME NEW X \in Seq(Msg), NEW gone \in {0, 1}, Len(X) = 1 - gone,
             \A k \in DOMAIN X : ~X[k].data, Pending' = (InHand \o X) \o t,
             partial \/ rx'.pc = "full"
      PROVE  Versions' \in Delayed!Lossy(Versions)
  <2>1. ~h.data \/ venue = "OKX"
    BY <1>1, <1>6
  <2>2. ASSUME venue = "OKX", NEW k \in DOMAIN t, t[k].data PROVE Whole(t[k])
    <3>1. t[k] \in Sent
      BY <1>3 DEF PathTypes
    <3>2. PICK b \in Books : t[k] = WholeBook(b)
      BY <2>2, <3>1 DEF Sent, Response, Ping, Blank
    <3> QED BY <3>2, WholeBookApplied, EmptyBookIsBook DEF PathTypes
  <2> HIDE DEF h, t
  <2>3. Pending = Append(InHand, h) \o t
    BY <1>2, <1>3, Regroup
  <2>4. Track(book, (InHand \o X) \o t) \in Delayed!Lossy(Track(book, Append(InHand, h) \o t))
    BY <1>2, <1>3, <1>6, <2>1, <2>2, TrackLoss
  <2> QED BY <1>1, <1>2, <1>6, <2>3, <2>4
<1>7. CASE rx'.pc = "room" /\ partial
  <2>1. Pending' = (InHand \o <<Garbled>>) \o t
    BY <1>1, <1>2, <1>7 DEF Pending, InHand
  <2>2. <<Garbled>> \in Seq(Msg) /\ Len(<<Garbled>>) = 1 - 0
        /\ \A k \in DOMAIN <<Garbled>> : ~<<Garbled>>[k].data
    BY <1>4
  <2> QED BY <1>6, <1>7, <2>1, <2>2
<1>8. CASE rx'.pc = "full"
  <2>1. Pending' = (InHand \o <<>>) \o t
    BY <1>1, <1>2, <1>8 DEF Pending, InHand
  <2>2. <<>> \in Seq(Msg) /\ Len(<<>>) = 1 - 1 /\ \A k \in DOMAIN <<>> : ~<<>>[k].data
    OBVIOUS
  <2> QED BY <1>6, <1>8, <2>1, <2>2
<1> QED BY <1>1, <1>5, <1>7, <1>8

\* Every step keeps the order of the books.
LEMMA OrderStep ==
  ASSUME PathTypes, SyncInv, [Next]_vars, gap' => venue = "OKX"
  PROVE  [Delayed!DNext]_<<truth, Versions>>
<1> USE DEF wireVars, ioVars, pollVars, Delayed!DNext
<1>a. truth \in Books /\ book \in Books /\ venue \in {"OKX", "BYBIT"}
  BY DEF PathTypes
<1>b. /\ InHand \in Seq(Msg) /\ wire \in Seq(Msg) /\ Pending \in Seq(Msg)
      /\ Pending = InHand \o wire
      /\ Versions = Track(book, Pending) /\ Versions' = Track(book', Pending')
  BY PendingMsgs
<1>c. AfterAll(book, Pending) \in Books
  BY <1>a, <1>b, AfterAllIsBook
<1>d. ASSUME Pending' = Pending, UNCHANGED <<book, truth>> PROVE UNCHANGED <<truth, Versions>>
  BY <1>b, <1>d
<1>1. CASE ExchangeAnswers \/ ExchangePings
  <2>1. PICK m \in {Response, Ping} : wire' = Append(wire, m)
    BY <1>1 DEF ExchangeAnswers, ExchangePings
  <2>2. m \in Msg
    BY <1>a, Classified DEF Received, Sent
  <2>3. ~m.data
    BY DEF Response, Ping, Blank
  <2>4. UNCHANGED <<truth, cur, queue, rx, book>>
    BY <1>1 DEF ExchangeAnswers, ExchangePings
  <2>5. Versions' = Append(Versions, Versions[Len(Versions)])
    BY <2>1, <2>2, <2>3, <2>4, OrderSends
  <2> QED BY <2>4, <2>5 DEF Delayed!Talk
<1>2. ASSUME NEW t \in Books, wire' = Append(wire, WholeBook(t)), truth' = t,
             UNCHANGED <<cur, queue, rx, book>>
      PROVE  Delayed!Tell
  <2>1. WholeBook(t) \in Msg /\ Applied(AfterAll(book, Pending), WholeBook(t)) = t
    BY <1>a, <1>c, WholeBookApplied
  <2>2. Versions' = Append(Versions, t)
    BY <1>2, <2>1, OrderSends
  <2> QED BY <1>2, <2>2 DEF Delayed!Tell
<1>3. CASE ExchangeSendsBook
  <2>1. wire' = Append(wire, WholeBook(truth)) /\ UNCHANGED <<truth, cur, queue, rx, book>>
    BY <1>3 DEF ExchangeSendsBook
  <2> QED BY <1>2, <1>a, <2>1
<1>4. ASSUME NEW c \in Changes, ExchangeChanges(c) PROVE Delayed!Tell
  <2>1. truth' = [truth EXCEPT ![c.side][c.price] = c.qty] /\ UNCHANGED <<cur, queue, rx, book>>
    BY <1>4 DEF ExchangeChanges
  <2>2. truth' \in Books /\ Delta(c) \in Msg /\ Applied(truth, Delta(c)) = truth'
    BY <1>a, <2>1, DeltaApplied
  <2>3. CASE ~(up /\ sub = "live")
    <3>1. wire' = wire
      BY <1>4, <2>3 DEF ExchangeChanges
    <3>2. Pending' = Pending
      BY <2>1, <3>1 DEF Pending
    <3> QED BY <1>b, <2>1, <3>2 DEF Delayed!Tell
  <2>4. CASE up /\ sub = "live" /\ venue = "OKX"
    <3>1. wire' = Append(wire, WholeBook(truth'))
      BY <1>4, <2>4 DEF ExchangeChanges
    <3> QED BY <1>2, <2>1, <2>2, <3>1
  <2>5. CASE up /\ sub = "live" /\ venue # "OKX"
    <3>1. wire' = Append(wire, Delta(c))
      BY <1>4, <2>5 DEF ExchangeChanges
    <3>2. gap' = gap
      BY <1>4 DEF ExchangeChanges
    <3>3. AfterAll(book, Pending) = truth
      BY <2>5, <3>2, PendingHeld DEF SyncInv
    <3>4. Versions' = Append(Versions, truth')
      BY <2>1, <2>2, <3>1, <3>3, OrderSends
    <3> QED BY <3>4 DEF Delayed!Tell
  <2> QED BY <2>3, <2>4, <2>5
<1>5. CASE StreamBreaks
  <2>1. wire' = <<>> /\ UNCHANGED <<truth, cur, queue, rx, book>>
    BY <1>5 DEF StreamBreaks
  <2>2. Pending' = InHand \o <<>>
    BY <2>1 DEF Pending, InHand
  <2>3. Pending' = InHand
    BY <1>b, <2>2
  <2>4. Versions' = SubSeq(Versions, 1, Len(InHand) + 1)
    BY <1>a, <1>b, <2>1, <2>3, TrackCut
  <2>5. Len(InHand) + 1 \in 1..Len(Versions)
    <3>1. Len(Versions) = Len(Pending) + 1
      BY <1>a, <1>b, TrackEnd
    <3>2. Len(Pending) = Len(InHand) + Len(wire) /\ Len(InHand) \in Nat /\ Len(wire) \in Nat
      BY <1>b, JoinMsgs
    <3> QED BY <3>1, <3>2
  <2> QED BY <2>1, <2>4, <2>5 DEF Delayed!CutOff
<1>6. CASE ReadCompletes /\ (gap' => venue = "OKX")
  <2>1. truth' = truth
    BY <1>6 DEF ReadCompletes
  <2> QED BY <1>6, <2>1, OrderRead DEF Delayed!Miss
<1>7. CASE ProcessPing \/ ProcessOther \/ Callback
  <2>1. cur # None /\ cur' = None /\ UNCHANGED <<truth, queue, rx, wire>>
    BY <1>7 DEF ProcessPing, ProcessOther, Callback, PathTypes
  <2>2. book' = Applied(book, cur)
    <3>1. CASE Callback
      <4>1. cur.data /\ book' = ApplyBatch(book, ParsedSnapshot(cur), ToUpdates(cur.bids, cur.asks))
        BY <3>1 DEF Callback, PathTypes
      <4>2. ParsedSnapshot(cur) = Whole(cur)
        BY <2>1, <4>1, Classified DEF PathTypes
      <4> QED BY <4>1, <4>2 DEF Applied
    <3>2. CASE ProcessPing \/ ProcessOther
      <4>1. ~cur.data
        BY <2>1, <3>2, Classified DEF ProcessPing, ProcessOther, PathTypes
      <4> QED BY <3>2, <4>1, AppliedOther DEF ProcessPing, ProcessOther
    <3> QED BY <1>7, <3>1, <3>2
  <2>3. Len(Versions) > 1 /\ Versions' = Tail(Versions)
    BY <2>1, <2>2, OrderTakes
  <2> QED BY <2>1, <2>3 DEF Delayed!Take
<1>8. CASE EnqueueRead
  <2>1. /\ rx.pc = "room" /\ rx'.pc = "waiting" /\ queue' = Append(queue, rx.msg)
        /\ UNCHANGED <<truth, wire, cur, book>>
    BY <1>8 DEF EnqueueRead, HandlesRead
  <2>2. queue \in Seq(Msg) /\ rx.msg \in Msg /\ (cur # None => cur \in Msg)
    BY <2>1, HeldIsBook
  <2> DEFINE A == IF cur = None THEN <<>> ELSE <<cur>>
  <2>3. A \in Seq(Msg)
    BY <2>2
  <2>4. Pending = A \o queue \o <<rx.msg>> \o wire
    BY <2>1 DEF Pending
  <2>5. Pending' = A \o Append(queue, rx.msg) \o <<>> \o wire
    BY <2>1 DEF Pending
  <2> HIDE DEF A
  <2>6. A \o Append(queue, rx.msg) \o <<>> = A \o queue \o <<rx.msg>>
    BY <2>2, <2>3
  <2> QED BY <1>d, <2>1, <2>4, <2>5, <2>6
<1>9. CASE Dequeue
  <2>1. /\ cur = None /\ queue # <<>> /\ cur' = Head(queue) /\ queue' = Tail(queue)
        /\ UNCHANGED <<truth, wire, rx, book>>
    BY <1>9 DEF Dequeue
  <2>2. cur' # None
    BY <2>1, Classified DEF PathTypes
  <2>3. queue \in Seq(Msg)
    BY HeldIsBook
  <2>4. <<Head(queue)>> \o Tail(queue) = <<>> \o queue
    BY <2>1, <2>3
  <2>5. Pending' = Pending
    BY <2>1, <2>2, <2>4 DEF Pending
  <2> QED BY <1>d, <2>1, <2>5
<1>10. CASE Reconnects \/ ProcessBook \/ DropRead \/ UNCHANGED vars
  <2>1. UNCHANGED <<truth, wire, cur, queue, book>> /\ (rx'.pc = "room" <=> rx.pc = "room")
        /\ (rx.pc = "room" => rx' = rx)
    BY <1>10 DEF Reconnects, ProcessBook, DropRead, HandlesRead, vars
  <2>2. Pending' = Pending
    BY <2>1 DEF Pending
  <2> QED BY <1>d, <2>1, <2>2
<1> QED
  BY <1>1, <1>3, <1>4, <1>5, <1>6, <1>7, <1>8, <1>9, <1>10
  DEF Next, Exchange, Io, Poll

\* The application's book moves only forward, through books that the exchange
\* had: for both exchanges (Bybit while its deltas have no hole, OKX whatever
\* is dropped), any prices and changes, broken streams, messages cut off in
\* buffer_ and sizes of queue.
THEOREM BookMovesForward == Spec => BooksInOrder
<1> DEFINE I == PathTypes /\ SyncInv
<1>1. Init => I
  BY PathTypesInit DEF Init, SyncInv
<1>2. I /\ [Next]_vars => I'
  BY PathTypesStep, SyncStep
<1>3. Init => Delayed!DInit
  <2> SUFFICES ASSUME Init PROVE Versions = <<truth>>
    BY DEF Delayed!DInit
  <2>1. Pending = <<>> /\ book = truth /\ book \in Books
    BY EmptyBookIsBook DEF Init, Pending
  <2>2. Track(book, <<>>) \in Seq(Books) /\ Len(Track(book, <<>>)) = Len(<<>>) + 1
        /\ Track(book, <<>>)[1] = book
    <3>1. <<>> \in Seq(Msg)
      OBVIOUS
    <3> QED BY <2>1, <3>1, TrackEnd, Zenon
  <2>3. Versions = Track(book, <<>>)
    BY <2>1 DEF Versions, Track
  <2> QED BY <2>1, <2>2, <2>3
<1>4. I /\ [Next]_vars => [(gap' => venue = "OKX") => Delayed!DNext]_<<truth, Versions>>
  BY OrderStep
<1> HIDE DEF I
<1> QED
  BY <1>1, <1>2, <1>3, <1>4, PTL DEF Spec, BooksInOrder
=============================================================================
