CONSTANTS
  Ticks = 1
  MaxCmd = 1
  MaxUrc = 1
  MaxOld = 1
  Chunk = 2
SPECIFICATION AtSpec
INVARIANTS NothingLost InStep
PROPERTIES ReadEnds
CHECK_DEADLOCK FALSE
