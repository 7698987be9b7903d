CONSTANTS
  NRequests = 2
  Keys = {k1, k2}
  Workers = {w1, w2}
  NoKey = NoKey
  Funds = 2
  MaxCodes = 1
  MaxAttempts = 2
  MaxStalled = 1
  MaxFailures = 2
  MaxCrashes = 1
SPECIFICATION FairSpec
INVARIANTS
  IInv
  TransfersBounded
  KeyTransfersOnce
  StatusHonest
PROPERTIES
  JobsSettle
CHECK_DEADLOCK FALSE
