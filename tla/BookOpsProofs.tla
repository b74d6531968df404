---------------------------- MODULE BookOpsProofs ----------------------------
(***************************************************************************)
(* What applying updates does to a book, for every book and every batch:   *)
(* the facts the proofs about the order book and about its feeds share.    *)
(***************************************************************************)
EXTENDS BookOps, WellFoundedInduction, TLAPS

\* Some numbers have a least one.
LEMMA NatHasLeast ==
  ASSUME NEW T, T \subseteq Nat, T # {}
  PROVE  \E x \in T : \A y \in T : ~(y < x)
<1> DEFINE R == OpToRel(<, Nat)
<1>1. PICK x \in T : \A y \in T : ~(<<y, x>> \in R)
  <2> HIDE DEF R
  <2>1. IsWellFoundedOn(R, Nat)
    BY NatLessThanWellFounded DEF R
  <2> QED BY <2>1, WFMin
<1> QED BY <1>1 DEF OpToRel

\* A set of positions of a sequence has a last one.
LEMMA MaxOfPositions ==
  ASSUME NEW n \in Nat, NEW K \in SUBSET (1..n), K # {}
  PROVE  Max(K) \in K /\ \A k \in K : k <= Max(K)
<1> DEFINE T == {t \in Nat : n - t \in K}
<1>0. \A k \in K : k \in Nat /\ n - k \in Nat /\ n - (n - k) = k
  <2>1. \A k \in K : k \in 1..n
    OBVIOUS
  <2> QED BY <2>1
<1>1. T \subseteq Nat /\ T # {}
  BY <1>0
<1>2. PICK x \in T : \A y \in T : ~(y < x)
  BY <1>1, NatHasLeast
<1>3. ASSUME NEW k \in K PROVE n - x >= k
  <2>1. n - k \in T /\ k \in Nat /\ x \in Nat
    BY <1>0
  <2> HIDE DEF T
  <2>2. ~(n - k < x)
    BY <1>2, <2>1
  <2> QED BY <2>1, <2>2
<1>4. n - x \in K
  BY <1>2
<1>5. Max(K) \in K /\ \A k \in K : Max(K) >= k
  BY <1>3, <1>4 DEF Max
<1> QED BY <1>5, <1>0

\* What an update leaves is nothing or a positive quantity.
LEMMA QuantityLeftStored ==
  ASSUME NEW u \in Updates
  PROVE  QuantityLeft(u) \in Stored
<1>1. u.qty \in Quantities /\ u.qty \in Int
  BY BookAssumption DEF Updates
<1>2. CASE u.qty <= 0
  BY <1>2 DEF Stored, QuantityLeft
<1>3. CASE u.qty > 0
  BY <1>1, <1>3 DEF Stored, QuantityLeft
<1> QED BY <1>1, <1>2, <1>3

\* Applying an update keeps a book a book, and says so at every price.
LEMMA UpdateKeepsBook ==
  ASSUME NEW b \in Books, NEW u \in Updates
  PROVE  /\ apply_update_internal(b, u) \in Books
         /\ \A s \in Sides, p \in Prices : apply_update_internal(b, u)[s][p] =
              IF u.side = s /\ u.price = p THEN QuantityLeft(u) ELSE b[s][p]
<1> DEFINE q == QuantityLeft(u)
<1>1. q \in Stored
  BY QuantityLeftStored
<1>2. u.side \in Sides /\ u.price \in Prices /\ b[u.side] \in [Prices -> Stored]
  BY DEF Updates, Books
<1>3. apply_update_internal(b, u) = [b EXCEPT ![u.side] = [b[u.side] EXCEPT ![u.price] = q]]
  BY DEF apply_update_internal
<1> HIDE DEF q
<1>4. [b[u.side] EXCEPT ![u.price] = q] \in [Prices -> Stored]
  BY <1>1, <1>2
<1>5. apply_update_internal(b, u) \in Books
  BY <1>2, <1>3, <1>4 DEF Books
<1>6. ASSUME NEW s \in Sides, NEW p \in Prices
      PROVE  apply_update_internal(b, u)[s][p] =
               IF u.side = s /\ u.price = p THEN q ELSE b[s][p]
  BY <1>2, <1>3 DEF Books
<1> QED BY <1>5, <1>6 DEF q

\* The empty book is a book.
LEMMA EmptyBookIsBook == EmptyBook \in Books
  BY DEF EmptyBook, Books, Stored

\* The last update about a price is one about that price.
LEMMA LastAbout ==
  ASSUME NEW us \in Seq(Updates), NEW s, NEW p, About(us, s, p) # {}
  PROVE  /\ Max(About(us, s, p)) \in About(us, s, p)
         /\ Max(About(us, s, p)) \in 1..Len(us)
         /\ \A k \in About(us, s, p) : k <= Max(About(us, s, p))
<1>1. Len(us) \in Nat /\ About(us, s, p) \in SUBSET (1..Len(us))
  BY DEF About
<1>2. /\ Max(About(us, s, p)) \in About(us, s, p)
      /\ \A k \in About(us, s, p) : k <= Max(About(us, s, p))
  BY <1>1, MaxOfPositions
<1> QED BY <1>1, <1>2

\* A batch keeps a book a book.
LEMMA BatchKeepsBook ==
  ASSUME NEW b \in Books, NEW snapshot \in BOOLEAN, NEW us \in Seq(Updates)
  PROVE  ApplyBatch(b, snapshot, us) \in Books
<1> DEFINE v(s, p) == IF About(us, s, p) # {} THEN QuantityLeft(us[Max(About(us, s, p))])
                      ELSE IF snapshot THEN 0 ELSE b[s][p]
<1>1. ASSUME NEW s \in Sides, NEW p \in Prices PROVE v(s, p) \in Stored
  <2>1. CASE About(us, s, p) # {}
    <3>1. us[Max(About(us, s, p))] \in Updates
      BY <2>1, LastAbout
    <3> QED BY <2>1, <3>1, QuantityLeftStored
  <2>2. b[s][p] \in Stored /\ 0 \in Stored
    BY DEF Books, Stored
  <2> QED BY <2>1, <2>2
<1>2. ApplyBatch(b, snapshot, us) = [s \in Sides |-> [p \in Prices |-> v(s, p)]]
  BY DEF ApplyBatch
<1> HIDE DEF v
<1> QED BY <1>1, <1>2 DEF Books

\* A batch without updates leaves the book.
LEMMA BatchOfNothing ==
  ASSUME NEW b \in Books
  PROVE  ApplyBatch(b, FALSE, <<>>) = b
<1>1. \A s \in Sides, p \in Prices : About(<<>>, s, p) = {}
  BY DEF About
<1>2. ApplyBatch(b, FALSE, <<>>) = [s \in Sides |-> [p \in Prices |-> b[s][p]]]
  BY <1>1 DEF ApplyBatch
<1>3. \A s \in Sides : [p \in Prices |-> b[s][p]] = b[s]
  BY DEF Books
<1>4. b = [s \in Sides |-> b[s]]
  BY DEF Books
<1> QED BY <1>2, <1>3, <1>4

\* A snapshot is its updates applied to the empty book.
LEMMA SnapshotStartsEmpty ==
  ASSUME NEW b, NEW us
  PROVE  ApplyBatch(b, TRUE, us) = ApplyBatch(EmptyBook, FALSE, us)
BY DEF ApplyBatch, EmptyBook

\* The first update, then the others, is the batch: the loop of
\* apply_updates makes of a book what ApplyBatch says.
LEMMA BatchOneByOne ==
  ASSUME NEW b \in Books, NEW us \in Seq(Updates), us # <<>>
  PROVE  ApplyBatch(apply_update_internal(b, Head(us)), FALSE, Tail(us)) =
         ApplyBatch(b, FALSE, us)
<1> DEFINE h == Head(us)
           rest == Tail(us)
           c == apply_update_internal(b, h)
<1>1. h \in Updates /\ rest \in Seq(Updates) /\ h = us[1] /\ Len(us) \in Nat \ {0}
      /\ Len(rest) = Len(us) - 1 /\ \A i \in 1..Len(rest) : rest[i] = us[i + 1]
  OBVIOUS
<1> HIDE DEF h, rest
<1>2. ASSUME NEW s \in Sides, NEW p \in Prices
      PROVE  (IF About(rest, s, p) # {} THEN QuantityLeft(rest[Max(About(rest, s, p))]) ELSE c[s][p]) =
             (IF About(us, s, p) # {} THEN QuantityLeft(us[Max(About(us, s, p))]) ELSE b[s][p])
  <2> DEFINE A == About(us, s, p)
             B == About(rest, s, p)
  <2>1. \A i \in B : i \in 1..Len(rest) /\ i + 1 \in A
    BY <1>1 DEF About
  <2>2. \A i \in A : i \in Nat /\ (i = 1 \/ i - 1 \in B)
    BY <1>1 DEF About
  <2>3. 1 \in A <=> (h.side = s /\ h.price = p)
    BY <1>1 DEF About
  <2>4. c[s][p] = IF h.side = s /\ h.price = p THEN QuantityLeft(h) ELSE b[s][p]
    BY <1>1, UpdateKeepsBook
  <2>5. CASE B # {}
    <3>1. Max(B) \in B /\ Max(B) \in 1..Len(rest) /\ \A k \in B : k <= Max(B)
      BY <1>1, <2>5, LastAbout
    <3>2. A # {}
      BY <2>1, <2>5
    <3>3. Max(A) \in A /\ Max(A) \in 1..Len(us) /\ \A k \in A : k <= Max(A)
      BY <3>2, LastAbout
    <3> HIDE DEF A, B
    <3>4. Max(A) >= Max(B) + 1
      BY <2>1, <3>1, <3>3
    <3>5. Max(A) - 1 \in B
      BY <2>2, <3>1, <3>3, <3>4
    <3>6. Max(A) = Max(B) + 1
      BY <3>1, <3>3, <3>4, <3>5
    <3>7. us[Max(A)] = rest[Max(B)]
      BY <1>1, <3>1, <3>6
    <3> QED BY <2>5, <3>2, <3>7 DEF A, B
  <2>6. CASE B = {} /\ A # {}
    <3>1. Max(A) \in A
      BY <2>6, LastAbout
    <3> HIDE DEF A, B
    <3>2. Max(A) = 1 /\ 1 \in A
      BY <2>2, <2>6, <3>1
    <3> QED BY <1>1, <2>3, <2>4, <2>6, <3>2 DEF A, B
  <2>7. CASE B = {} /\ A = {}
    BY <2>3, <2>4, <2>7
  <2> QED BY <2>1, <2>5, <2>6, <2>7
<1> QED BY <1>2 DEF ApplyBatch, h, rest

\* The update a level becomes.
LevelUpdate(s, l) == [side |-> s, price |-> l.price, qty |-> l.qty, del |-> l.qty <= 0]

\* What the update of a level leaves is the level's quantity, if that is not
\* negative.
LEMMA LeftOfLevel ==
  ASSUME NEW s, NEW l, l.qty \in Nat
  PROVE  QuantityLeft(LevelUpdate(s, l)) = l.qty
<1>1. LevelUpdate(s, l).qty = l.qty /\ (LevelUpdate(s, l).del <=> l.qty <= 0)
  BY Zenon DEF LevelUpdate
<1>2. QuantityLeft(LevelUpdate(s, l)) =
        IF LevelUpdate(s, l).del \/ LevelUpdate(s, l).qty <= 0 THEN 0 ELSE LevelUpdate(s, l).qty
  BY DEF QuantityLeft
<1>3. QuantityLeft(LevelUpdate(s, l)) = IF l.qty <= 0 THEN 0 ELSE l.qty
  BY <1>1, <1>2, Zenon
<1> QED BY <1>3

\* The list of updates made of two lists of levels: one for each level, on its
\* side.
LEMMA ToUpdatesOf ==
  ASSUME NEW bids \in Seq(Levels), NEW asks \in Seq(Levels)
  PROVE  LET us == ToUpdates(bids, asks)
         IN  /\ us \in Seq(Updates)
             /\ \A i \in DOMAIN us :
                  \/ \E j \in DOMAIN bids : us[i] = LevelUpdate("bid", bids[j])
                  \/ \E j \in DOMAIN asks : us[i] = LevelUpdate("ask", asks[j])
             /\ \A j \in DOMAIN bids : \E i \in DOMAIN us : us[i] = LevelUpdate("bid", bids[j])
             /\ \A j \in DOMAIN asks : \E i \in DOMAIN us : us[i] = LevelUpdate("ask", asks[j])
<1> DEFINE B == [i \in DOMAIN bids |-> LevelUpdate("bid", bids[i])]
           A == [i \in DOMAIN asks |-> LevelUpdate("ask", asks[i])]
           us == ToUpdates(bids, asks)
<1>1. us = B \o A
  BY DEF ToUpdates, LevelUpdate
<1>2. ASSUME NEW s \in Sides, NEW l \in Levels PROVE LevelUpdate(s, l) \in Updates
  <2>1. l.price \in Prices /\ l.qty \in Quantities /\ (l.qty <= 0) \in BOOLEAN
    BY DEF Levels
  <2> QED BY <2>1 DEF Updates, LevelUpdate
<1>3. "bid" \in Sides /\ "ask" \in Sides
  BY DEF Sides
<1>4. /\ B \in Seq(Updates) /\ Len(B) = Len(bids) /\ DOMAIN B = DOMAIN bids
      /\ \A j \in DOMAIN bids : B[j] = LevelUpdate("bid", bids[j])
  <2>1. DOMAIN bids = 1..Len(bids) /\ Len(bids) \in Nat
    OBVIOUS
  <2>2. \A j \in DOMAIN bids : LevelUpdate("bid", bids[j]) \in Updates
    BY <1>2, <1>3
  <2> QED BY <2>1, <2>2
<1>5. /\ A \in Seq(Updates) /\ Len(A) = Len(asks) /\ DOMAIN A = DOMAIN asks
      /\ \A j \in DOMAIN asks : A[j] = LevelUpdate("ask", asks[j])
  <2>1. DOMAIN asks = 1..Len(asks) /\ Len(asks) \in Nat
    OBVIOUS
  <2>2. \A j \in DOMAIN asks : LevelUpdate("ask", asks[j]) \in Updates
    BY <1>2, <1>3
  <2> QED BY <2>1, <2>2
<1> HIDE DEF A, B, us
<1>6. /\ us \in Seq(Updates) /\ Len(us) = Len(B) + Len(A) /\ DOMAIN us = 1..Len(us)
      /\ DOMAIN B = 1..Len(B) /\ DOMAIN A = 1..Len(A) /\ Len(A) \in Nat /\ Len(B) \in Nat
      /\ \A i \in 1..Len(B) : us[i] = B[i]
      /\ \A i \in 1..Len(A) : us[Len(B) + i] = A[i]
  <2>1. B \in Seq(Updates) /\ A \in Seq(Updates)
    BY <1>4, <1>5
  <2> QED BY <1>1, <2>1
<1>7. ASSUME NEW i \in DOMAIN us
      PROVE  \/ \E j \in DOMAIN bids : us[i] = LevelUpdate("bid", bids[j])
             \/ \E j \in DOMAIN asks : us[i] = LevelUpdate("ask", asks[j])
  <2>1. CASE i <= Len(B)
    BY <1>4, <1>6, <2>1
  <2>2. CASE ~(i <= Len(B))
    <3>1. i - Len(B) \in 1..Len(A) /\ Len(B) + (i - Len(B)) = i
      BY <1>6, <2>2
    <3>2. us[i] = A[i - Len(B)] /\ i - Len(B) \in DOMAIN asks
      BY <1>5, <1>6, <3>1
    <3> QED BY <1>5, <3>2
  <2> QED BY <2>1, <2>2
<1>8. ASSUME NEW j \in DOMAIN bids PROVE \E i \in DOMAIN us : us[i] = LevelUpdate("bid", bids[j])
  <2>1. j \in DOMAIN us /\ us[j] = LevelUpdate("bid", bids[j])
    BY <1>4, <1>6
  <2> QED BY <2>1
<1>9. ASSUME NEW j \in DOMAIN asks PROVE \E i \in DOMAIN us : us[i] = LevelUpdate("ask", asks[j])
  <2>1. Len(B) + j \in DOMAIN us /\ us[Len(B) + j] = LevelUpdate("ask", asks[j])
    BY <1>5, <1>6
  <2> QED BY <2>1
<1> QED BY <1>6, <1>7, <1>8, <1>9 DEF us
=============================================================================
