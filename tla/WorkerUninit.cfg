CONSTANTS
  MaxCryptThreads = 1
  Clients = {c1}
  NoClient = NoClient
SPECIFICATION Spec
INVARIANTS NotNeededAfterUninit
CHECK_DEADLOCK FALSE
