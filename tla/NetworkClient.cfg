CONSTANTS
  PacketLength = 4
  OldPacketLength = 2
  MaxRead = 3
  MaxChecks = 1
  MaxBytes = 13
SPECIFICATION Spec
INVARIANTS TypeOK NoPacketLeftBehind EveryPacketHandedOver HoldsAtMost DecryptsWithTheIvSent
PROPERTIES ImplementsConnection
CHECK_DEADLOCK FALSE
