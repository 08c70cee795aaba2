CONSTANTS
  Client = {c1, c2}
  Byte = {a, nl}
  NL = nl
  MaxChunk = 3
  MaxBytes = 4
  MaxFd = 3
  MayDestroy = TRUE
  MayWrite = TRUE
SPECIFICATION FairSpec
INVARIANTS
  NoDescriptorLeak
PROPERTIES
  ImplementsFraming
  ClientServed
CHECK_DEADLOCK FALSE
