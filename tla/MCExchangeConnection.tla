------------------------ MODULE MCExchangeConnection ------------------------
(* ExchangeConnection for TLC: the instruments and the orders are model    *)
(* values.                                                                 *)
EXTENDS ExchangeConnection
CONSTANTS i1, i2, o1
MCInstruments == {i1, i2}
MCOrders == {o1}
MCOneInstrument == {i1}
MCMsgsOne == MCOneInstrument \cup MCOrders
MCNoOrders == {}

\* Once a write has thrown, every flap of the connection may add an
\* activity, so the number of those is bounded here.
CONSTANTS MaxReady, MaxResolving
Bounds == Len(ready) <= MaxReady /\ resolving <= MaxResolving
=============================================================================
