SPECIFICATION FairSpec
CONSTANTS
  SeqMod = 16
  ISS = 3
  IRS = 5
  MaxRx = 2
  MaxNoMbuf = 0
  Total = 2
  Window = 2
  PeerFins = "never"
  Strays <- MCNoStrays
  MaxSends = 1
  MaxLosses = 2
  MaxFlight = 6
PROPERTY AllDelivered
CHECK_DEADLOCK FALSE
