SPECIFICATION FairGwSpec
CONSTANTS
  b1 = b1
  b2 = b2
  b3 = b3
  b4 = b4
  s1 = s1
  s2 = s2
  Empty = Empty
  Garbage = Garbage
  Mbufs <- MCMbufs
  RingCap = 2
  Burst = 2
  HasVirt = TRUE
  MaxHeld = 1
  Packets <- MCPackets
  Environments <- MCEnvironments
  Defaults <- MCDefaults
  DeviceLists <- MCDeviceLists
INVARIANTS GwTypeOK Conserved PortsOpenWhileUsed QuietAtCleanup SymbolsSubscribed
PROPERTIES NeverStarved EndsAfterSignal
CHECK_DEADLOCK FALSE
