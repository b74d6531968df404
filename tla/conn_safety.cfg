SPECIFICATION ConnSpec
CONSTANTS
  i1 = i1
  i2 = i2
  o1 = o1
  Instruments <- MCInstruments
  Orders <- MCNoOrders
  Msgs <- MCInstruments
  RetryEnabled = TRUE
  RetryMax = 2
  MaxFaults = 1
  MaxWriteErrors = 1
  MayReopen = FALSE
  MaxDue = 0
  MaxReady = 3
  MaxResolving = 1
INVARIANTS ConnTypeOK ListensWhileConnected NeverOrphaned SubscriptionsCovered
PROPERTIES QuietAfterClose
CONSTRAINT Bounds
CHECK_DEADLOCK FALSE
