SPECIFICATION Spec
CONSTANTS
  Prices <- MCPrices
  Quantities <- MCQuantities
  Changes <- MCChanges
  Venues <- MCOkx
  QueueMax = 1
  UdpEnabled = FALSE
  MaxWire = 1
  MaxBreaks = 1
  MaxPings = 0
INVARIANT OnlyReceived
