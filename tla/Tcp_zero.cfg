CONSTANTS
  Client = {c1, c2}
  Byte = {nl}
  NL = nl
  MaxChunk = 1
  MaxBytes = 1
  MaxFd = 3
  MayDestroy = FALSE
  MayWrite = FALSE
SPECIFICATION Spec
INVARIANTS
  ConnectedIsPositive
CHECK_DEADLOCK FALSE
