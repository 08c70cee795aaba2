CONSTANTS
  NumProc = 2
  Thread = {t1}
  MaxReg = 2
  MaxReq = 2
  MaxDelayed = 1
  BadLength = TRUE
  Streams = {0}
  Stray = FALSE
  Uses <- EachAll
SPECIFICATION FairSpec
INVARIANTS
  TrackedIsLive
  NoMisuse
  CorrespondingHandler
PROPERTIES
  Answered
CHECK_DEADLOCK FALSE
