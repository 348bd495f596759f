SPECIFICATION Spec
CONSTANTS
  MaxPackets = 1
  StatBlock = 2
  OpenBlock = 1
  ReaderBlock = 1
INVARIANT
  SuccessMeansSaved
CHECK_DEADLOCK FALSE
