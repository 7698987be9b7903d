CONSTANTS
  N = 2
  Chain = "BASE"
  Linked = {1, 2}
  MaxAttempts = 3
  MaxStalled = 1
  MaxFailures = 0
  MaxCrashes = 0
SPECIFICATION FairSpec
PROPERTIES SomePayoutReleased
CHECK_DEADLOCK FALSE
