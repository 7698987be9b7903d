CONSTANTS
  Address = {a1, a2, a3, a4}
  MaxMembers = 3
  MaxDeposits = 2
  MaxStarts = 2
SPECIFICATION Spec
SYMMETRY Accounts
INVARIANTS
  IInv
  PaidAtMostOnce
  OrderedNeverStuck
  FullRoundsPayable
PROPERTIES
  CompletionPaysAll
CHECK_DEADLOCK FALSE
