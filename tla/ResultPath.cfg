CONSTANTS
  MaxFiles = 2
  MaxEntries = 3
  MaxQueue = 3
  MaxUnseen = 1
SPECIFICATION Spec
INVARIANTS TypeOK CountTracks
PROPERTIES WatchFollowsPath SwitchFollowsFiles
CHECK_DEADLOCK FALSE
