SPECIFICATION FpSpec
CONSTANTS
  t1 = t1
  t2 = t2
  t3 = t3
  Threads <- MCThreads
  Prices <- MCPrices
  Quantities <- MCQuantities
  Below <- MCBelow
  TextPrices <- MCTextPrices
  Messages <- MCMessages
  Batches <- MCBatches
INVARIANTS TypeOK BidStillBest
PROPERTY AtomicBook
