SPECIFICATION FairConnSpec
CONSTANTS
  i1 = i1
  i2 = i2
  o1 = o1
  Instruments <- MCOneInstrument
  Orders <- MCNoOrders
  Msgs <- MCOneInstrument
  RetryEnabled = TRUE
  RetryMax = 2
  MaxFaults = 1
  MaxWriteErrors = 1
  MayReopen = FALSE
  MaxDue = 0
  MaxReady = 3
  MaxResolving = 1
CHECK_DEADLOCK FALSE
CONSTRAINT Bounds
PROPERTY EventuallyServed
