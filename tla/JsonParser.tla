----------------------------- MODULE JsonParser -----------------------------
(***************************************************************************)
(* The fast path's parser of market data (modules/parser/json_parser.cpp). *)
(*                                                                         *)
(* A message is the members it looks at.  kind is OKX's action             *)
(* or Bybit's type, head says whether the members before the levels are    *)
(* there, data holds OKX's list of books or the one of Bybit.  A level is  *)
(* whole if it is an array that begins with two strings.  A list of levels *)
(* that is missing is skipped like one that is empty.                      *)
(***************************************************************************)
EXTENDS BookOps

CONSTANT
  Below   \* the prices whose double, times PRICE_SCALE, is a little less than
          \* the integer meant: "0.29" gives 28999999.999999996

(* The price as a double times PRICE_SCALE, in tenths; the cast truncates. *)
Product(p) == 10 * p - IF p \in Below THEN 1 ELSE 0
parse_price_to_int(p) == Product(p) \div 10

\* An update of the side s.
Update(s, l) ==
  [side |-> s, price |-> parse_price_to_int(l.price), qty |-> l.qty, del |-> l.qty = 0]

(* What is read of one book, in order: for OKX the timestamp, then the     *)
(* bids, then the asks.                                                    *)
Sided(s, ls) == [i \in DOMAIN ls |-> [side |-> s, level |-> ls[i]]]
Items(e) == Sided("bid", e.bids) \o Sided("ask", e.asks)
Readable(e) == e.ts /\ \A i \in DOMAIN Items(e) : Items(e)[i].level.whole

(* parse_okx_message and parse_bybit_message: the kind has to be one of    *)
(* two words, and the first thing that cannot be read ends it with valid   *)
(* false.                                                                  *)
Parsed(m) ==
  LET all == FlattenSeq([i \in DOMAIN m.data |-> Items(m.data[i])])
  IN  [valid    |-> /\ m.kind \in {"snapshot", "update"} /\ m.head
                    /\ \A i \in DOMAIN m.data : Readable(m.data[i]),
       snapshot |-> m.kind = "snapshot",
       updates  |-> [i \in DOMAIN all |-> Update(all[i].side, all[i].level)]]
=============================================================================
