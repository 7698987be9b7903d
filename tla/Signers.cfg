CONSTANTS
  Handlers = {h1, h2}
  MaxTasks = 3
  MaxAccounts = 2
  MaxFailures = 1
SPECIFICATION FairSpec
INVARIANTS
  IInv
  AnswersTrue
  AloneSucceeds
PROPERTIES
  TasksSettle
CHECK_DEADLOCK FALSE
