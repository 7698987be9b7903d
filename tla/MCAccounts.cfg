CONSTANTS
  Devices = {d1, d2}
  Handlers = {h1, h2}
  MaxAttempts = 2
  MaxRequests = 4
  MaxFailures = 2
SPECIFICATION Spec
SYMMETRY Symmetry
INVARIANTS
  IInv
  AttemptsCounted
  LastMailWorks
  NoOrphans
PROPERTIES
  LockoutHolds
CHECK_DEADLOCK FALSE
