SPECIFICATION FairConnSpec
CONSTANTS
  i1 = i1
  i2 = i2
  o1 = o1
  Instruments <- MCInstruments
  Orders <- MCNoOrders
  Msgs <- MCInstruments
  RetryEnabled = TRUE
  RetryMax = 2
  MaxFaults = 2
  MaxWriteErrors = 0
  MayReopen = FALSE
  MaxDue = 1
  MaxReady = 9
  MaxResolving = 9
CHECK_DEADLOCK FALSE
INVARIANTS OneActivity
PROPERTIES EventuallyServed CloseReturns
