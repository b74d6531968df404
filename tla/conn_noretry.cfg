SPECIFICATION FairConnSpec
CONSTANTS
  i1 = i1
  i2 = i2
  o1 = o1
  Instruments <- MCOneInstrument
  Orders <- MCOrders
  Msgs <- MCMsgsOne
  RetryEnabled = FALSE
  RetryMax = 1
  MaxFaults = 2
  MaxWriteErrors = 1
  MayReopen = TRUE
  MaxDue = 2
  MaxReady = 4
  MaxResolving = 1
CHECK_DEADLOCK FALSE
PROPERTY CloseReturns
