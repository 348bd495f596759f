CONSTANTS
  Supported = {0, 1}
  MaxLines = 2
  MaxThreads = 2
  RPS_RESOLUTION = 3
  Wrap = 2
  MaxReported = 2
  MaxCounter = 2
SPECIFICATION StartupSpec
INVARIANTS StartupTypeOK UsedInRange UmaskPutBack CountNeverAhead RingIsLastRound
CHECK_DEADLOCK FALSE
