SPECIFICATION Spec
CONSTANTS
  SeqMod = 16
  ISS = 15
  IRS = 13
  MaxRx = 3
  MaxNoMbuf = 1
  Total = 3
  Window = 2
  PeerFins = "acked"
  Strays <- MCStrays
  MaxSends = 1
  MaxLosses = 0
  MaxFlight = 3
PROPERTY ReliablyDelivers
INVARIANTS TypeOK StreamIntact NoFalseAck
CHECK_DEADLOCK FALSE
