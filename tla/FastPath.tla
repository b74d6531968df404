------------------------------ MODULE FastPath ------------------------------
(***************************************************************************)
(* Threads that feed an order book with what JsonParser makes of the       *)
(* exchanges' messages (order_book.h: "Apply pre-parsed updates from Fast  *)
(* Path JsonParser") and read its best prices.                             *)
(***************************************************************************)
EXTENDS OrderBook, JsonParser

CONSTANTS
  TextPrices,  \* the prices the exchange quotes, in units of 1 / PRICE_SCALE
  Messages     \* what the exchanges send, and messages that are damaged

ASSUME PricesAssumption ==
  TextPrices \subseteq Nat /\ \A p \in TextPrices : parse_price_to_int(p) \in Prices

TextLevels == [price : TextPrices, qty : Quantities, whole : BOOLEAN]
TextBooks == [ts : BOOLEAN, bids : Seq(TextLevels), asks : Seq(TextLevels)]
ASSUME MessagesAssumption ==
  Messages \subseteq [kind : STRING, head : BOOLEAN, data : Seq(TextBooks)]

\* A thread parses a message and, if it is valid, calls
\* OrderBookManager::apply_updates with it.
Receive(t, m) ==
  LET p == Parsed(m)
  IN  /\ p.valid
      /\ LockForWriting(t)
      /\ batch'[t] = [snapshot |-> p.snapshot, updates |-> p.updates]

FpNext == \E t \in Threads :
  \/ \E m \in Messages : Receive(t, m)
  \/ ClearSides(t) \/ ApplyOne(t) \/ UnlockWriting(t)
  \/ LockForReading(t) \/ CopyBid(t) \/ CopyAsk(t)
FpSpec == Init /\ [][FpNext]_vars
=============================================================================
