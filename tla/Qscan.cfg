CONSTANTS
  MaxTries = 1
  MaxChanges = 1
SPECIFICATION Spec
INVARIANTS MasksKept UsesLive Released
PROPERTIES DestructorEnds
CHECK_DEADLOCK FALSE
