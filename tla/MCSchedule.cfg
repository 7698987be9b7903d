CONSTANTS
  N = 3
  Payers = {1}
  Starts <- MCStarts
  Graces = {0, 3, 10, 30}
SPECIFICATION Spec
INVARIANTS
  IInv
  PayoutsOnSchedule
  DeadlineFitsPayout
  CollectedAgrees
CHECK_DEADLOCK FALSE
