CONSTANTS
  MaxCryptThreads = 1
  Clients = {c1}
  NoClient = NoClient
SPECIFICATION Spec
PROPERTIES JoinReturns
CHECK_DEADLOCK FALSE
