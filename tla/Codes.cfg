CONSTANTS
  Code = {c1, c2, c3}
  MaxCodes = 2
  MaxCalls = 3
  MaxLogs = 1
  MaxHandlers = 3
SPECIFICATION CodesSpec
INVARIANTS
  MaskMatches
  LoopInList
PROPERTIES
  SetOutcome
CHECK_DEADLOCK FALSE
