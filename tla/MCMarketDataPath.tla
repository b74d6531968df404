-------------------------- MODULE MCMarketDataPath --------------------------
(* MarketDataPath for TLC: one price, which the exchange quotes and deletes *)
(* on the bid side and may quote on the ask side.                           *)
EXTENDS MarketDataPath
MCVenues == {"OKX", "BYBIT"}
MCOkx == {"OKX"}
MCPrices == {1}
MCQuantities == {0, 1}
MCChanges ==
  {[side |-> "bid", price |-> 1, qty |-> 0], [side |-> "bid", price |-> 1, qty |-> 1],
   [side |-> "ask", price |-> 1, qty |-> 1]}
=============================================================================
