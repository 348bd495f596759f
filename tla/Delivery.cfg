SPECIFICATION Spec
CONSTANTS
  MaxPackets = 2
  StatBlock = 3
  OpenBlock = 2
  ReaderBlock = 1
INVARIANTS
  TypeOK
  GoodPrefixProcessed
  DeliveredOnce
  FailedMeansUndelivered
PROPERTY
  FifoIsUsedAgain
CHECK_DEADLOCK FALSE
