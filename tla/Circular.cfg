CONSTANTS
  NumProc = 2
  MaxFiles = 3
  MaxSize = 2
  MinSize = 0
  MaxList = 3
  Old = {1, 2}
  MaxTime = 4
  MaxFaults = 1
SPECIFICATION Spec
INVARIANTS InUseKept CountMatches FilesBounded KeepsLogging
