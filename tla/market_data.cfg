SPECIFICATION Spec
CONSTANTS
  Prices <- MCPrices
  Quantities <- MCQuantities
  Changes <- MCChanges
  Venues <- MCVenues
  QueueMax = 2
  UdpEnabled = TRUE
  MaxWire = 2
  MaxBreaks = 1
  MaxPings = 1
INVARIANTS TypeOK InSync FeedInSync
