CONSTANTS
  Threshold = 2
  BufSize = 3
  MaxRead = 3
  MaxUnit = 4
  MaxSwitch = 3
  Targets = {"MEMORY_DEVICE_MODE", "CALLBACK_MODE"}
  IoctlMayFail = TRUE
SPECIFICATION FairSpec
INVARIANTS
  FillsFreePool
  FillInBounds
  NothingLost
PROPERTIES
  ResetQuiescent
  FullPoolWritten
  ParkedResumes
  FlushEnds
CHECK_DEADLOCK FALSE
