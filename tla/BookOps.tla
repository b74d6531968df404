------------------------------ MODULE BookOps ------------------------------
(***************************************************************************)
(* The data of an order book and the sequential meaning of its operations  *)
(* (modules/market_data/order_book.cpp), shared by the modules about the   *)
(* book and about the path that feeds it.                                  *)
(*                                                                         *)
(* A side of the book, a std::map from price to quantity, is a function    *)
(* that gives 0 for the prices the map does not hold: no entry of the map  *)
(* has a quantity that is not positive.                                    *)
(***************************************************************************)
EXTENDS Integers, SequencesExt

CONSTANTS
  Prices,      \* price_int, an integer multiple of 1 / PRICE_SCALE
  Quantities   \* the quantities an update may carry; 0 and less delete

ASSUME BookAssumption == Prices \subseteq Nat /\ Quantities \subseteq Int

Sides == {"bid", "ask"}
Stored == {0} \cup {q \in Quantities : q > 0}
Books == [Sides -> [Prices -> Stored]]
Updates == [side : Sides, price : Prices, qty : Quantities, del : BOOLEAN]
Levels == [price : Prices, qty : Quantities]

EmptyBook == [s \in Sides |-> [p \in Prices |-> 0]]

\* OrderBook::apply_update_internal: what it leaves at the update's price.
QuantityLeft(u) == IF u.del \/ u.qty <= 0 THEN 0 ELSE u.qty
\* Mutant: only is_delete removes a level; a negative quantity is stored.
apply_update_internal_NoImplicit(b, u) ==
  [b EXCEPT ![u.side][u.price] = IF u.del THEN 0 ELSE u.qty]
apply_update_internal(b, u) == [b EXCEPT ![u.side][u.price] = QuantityLeft(u)]

\* OrderBook::apply_snapshot and apply_updates, as one step: at every price
\* the last update of the batch for it counts, and where there is none the
\* old book, or nothing.
About(us, s, p) == {i \in DOMAIN us : us[i].side = s /\ us[i].price = p}
ApplyBatch(b, snapshot, us) ==
  [s \in Sides |-> [p \in Prices |->
     IF About(us, s, p) # {} THEN QuantityLeft(us[Max(About(us, s, p))])
     ELSE IF snapshot THEN 0 ELSE b[s][p]]]

\* OrderBookManager::apply_update: lists of levels as one list of updates,
\* the bids first.
ToUpdates(bids, asks) ==
  LET Side(s, ls) ==
        [i \in DOMAIN ls |-> [side |-> s, price |-> ls[i].price,
                              qty |-> ls[i].qty, del |-> ls[i].qty <= 0]]
  IN  Side("bid", bids) \o Side("ask", asks)

\* The first element of bids_, sorted downwards, and of asks_, upwards.
OnSide(b, s) == {p \in Prices : b[s][p] > 0}
BestOf(b, s) ==
  CHOOSE p \in OnSide(b, s) :
    \A q \in OnSide(b, s) : IF s = "bid" THEN q <= p ELSE p <= q
Best(b, s) == [price |-> BestOf(b, s), qty |-> b[s][BestOf(b, s)]]

\* get_bbo: nothing unless both sides have a level.
Bbo(b) ==
  IF OnSide(b, "bid") = {} \/ OnSide(b, "ask") = {}
  THEN <<>> ELSE <<Best(b, "bid"), Best(b, "ask")>>
=============================================================================
