------------------------- MODULE MCWebSocketClient -------------------------
(* WebSocketClient for TLC: two clients, as for OKX and Bybit, one key.   *)
EXTENDS WebSocketClient
CONSTANTS okx, bybit
MCClients == {okx, bybit}
MCKeys == {"BTC"}
=============================================================================
