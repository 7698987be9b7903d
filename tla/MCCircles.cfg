CONSTANTS
  Creator = creator
  Users = {creator, ann, bob, carl}
  Wallets = {creator, ann, bob, carl}
  MaxMembers = 4
  Handlers = {h1, h2}
  MaxRequests = 5
  MaxDeploys = 2
  MaxFailures = 1
SPECIFICATION Spec
SYMMETRY Symmetry
INVARIANTS
  IInv
  SerialJoinsOrderly
  OneContract
  StartsTogether
  MoneyAccounted
  OncePerRound
PROPERTIES
  ContractCalls
CHECK_DEADLOCK FALSE
