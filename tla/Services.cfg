CONSTANTS
  Sender = {s1, s2}
  Images <- MCImages
  NumRows = 2
  MaxSsid = 2
  Ssid = {1, 4}
  Item = {1}
  DropMax = 1
  MaxUpd = 2
  MaxFail = 2
SPECIFICATION Spec
SYMMETRY MCSymmetry
INVARIANTS
  LookupRight
  PastOnlyWhenFull
  DropsReported
  BuffersReturned
CHECK_DEADLOCK FALSE
