CONSTANTS
  Devices = {d1, d2}
  Handlers = {h1, h2}
  MaxRequests = 4
  MaxFailures = 1
SPECIFICATION Spec
SYMMETRY Symmetry
INVARIANTS
  IInv
  OneSessionPerDevice
  SessionsTracked
  OldPasswordEndsSessions
CHECK_DEADLOCK FALSE
