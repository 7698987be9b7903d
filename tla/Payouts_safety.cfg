CONSTANTS
  N = 4
  Chain = "NEAR"
  Linked = {1, 2, 4}
  MaxAttempts = 2
  MaxStalled = 1
  MaxFailures = 1
  MaxCrashes = 2
SPECIFICATION Spec
INVARIANTS
  IInv
  PayoutsBounded
PROPERTIES
  PaidIsFinal
  OvertakenIsLost
CHECK_DEADLOCK FALSE
