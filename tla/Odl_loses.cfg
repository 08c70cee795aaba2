CONSTANTS
  Threshold = 2
  BufSize = 3
  MaxRead = 2
  MaxUnit = 4
  MaxSwitch = 2
  Targets = {"MEMORY_DEVICE_MODE", "CALLBACK_MODE"}
  IoctlMayFail = FALSE
SPECIFICATION Spec
INVARIANTS
  FlushWritesPending
CHECK_DEADLOCK FALSE
