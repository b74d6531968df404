---------------------------- MODULE MCFastPath -----------------------------
(* FastPath for TLC: snapshots and updates that move, delete and repeat    *)
(* levels on both sides, one of them with a price that truncation lowers,  *)
(* and messages JsonParser refuses.                                        *)
EXTENDS FastPath
CONSTANTS t1, t2, t3
MCThreads == {t1, t2, t3}
MCTextPrices == {2, 4, 6}
MCPrices == 1..6
MCQuantities == {-1, 0, 1, 2}
MCBelow == {4}
Lv(p, q) == [price |-> p, qty |-> q, whole |-> TRUE]
Cut(p) == [price |-> p, qty |-> 0, whole |-> FALSE]
Msg(k, bids, asks) ==
  [kind |-> k, head |-> TRUE,
   data |-> <<[ts |-> TRUE, bids |-> bids, asks |-> asks]>>]
MCMessages ==
  { Msg("snapshot", <<Lv(2, 1)>>, <<Lv(4, 1)>>),
    Msg("snapshot", <<>>, <<>>),
    Msg("update", <<Lv(4, 1), Lv(4, 2)>>, <<Lv(4, 0), Lv(6, 1)>>),
    Msg("update", <<Lv(4, -1)>>, <<Lv(4, 1)>>),
    Msg("update", <<Lv(4, 0)>>, <<Lv(6, 0), Cut(4)>>),
    Msg("none", <<Lv(2, 2)>>, <<>>),
    [Msg("update", <<Lv(2, 2)>>, <<>>) EXCEPT !.head = FALSE] }
MCBatches ==
  {[snapshot |-> Parsed(m).snapshot, updates |-> Parsed(m).updates] :
     m \in {n \in MCMessages : Parsed(n).valid}}
=============================================================================
