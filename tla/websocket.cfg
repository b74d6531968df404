SPECIFICATION FairSpec
CONSTANTS
  okx = okx
  bybit = bybit
  Clients <- MCClients
  Keys <- MCKeys
  Flight = 4
  RecordLen = 2
  PeerCloses = TRUE
  MaxConnects = 3
  MaxPending = 3
INVARIANTS TypeOK OneUpgrade
PROPERTY GetsConnected
CHECK_DEADLOCK FALSE
