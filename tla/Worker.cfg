CONSTANTS
  MaxCryptThreads = 1
  Clients = {c1, c2}
  NoClient = NoClient
SPECIFICATION Spec
INVARIANTS TypeOK CountExact NoneCutOff StopIsPolled
PROPERTIES StopEndsLoop
CHECK_DEADLOCK FALSE
