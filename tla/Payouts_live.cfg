CONSTANTS
  N = 3
  Chain = "NEAR"
  Linked = {1, 2, 3}
  MaxAttempts = 2
  MaxStalled = 1
  MaxFailures = 1
  MaxCrashes = 1
SPECIFICATION FairSpec
PROPERTIES
  LaterMembersMarked
  JobsSettle
CHECK_DEADLOCK FALSE
