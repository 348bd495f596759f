CONSTANTS
  MaxCryptThreads = 2
  Clients = {c1, c2, c3}
  NoClient = NoClient
SPECIFICATION Spec
INVARIANTS TypeOK NoLostJobWakeup ExclusiveOwner Balanced
PROPERTIES JobsAreHandled JoinReturnsOrSleeps ImplementsJobPool
CHECK_DEADLOCK FALSE
