CONSTANTS
  N = 2
  Chain = "NEAR"
  Linked = {1, 2}
  MaxAttempts = 3
  MaxStalled = 1
  MaxFailures = 0
  MaxCrashes = 0
SPECIFICATION Spec
INVARIANTS AlreadyProcessedIsPaid
CHECK_DEADLOCK FALSE
