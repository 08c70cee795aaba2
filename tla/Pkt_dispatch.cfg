CONSTANTS
  Desc <- MCDesc
  TblSize = 2
  MaxReq = 3
  MaxRsp = 2
  MaxFail = 1
SPECIFICATION Spec
INVARIANTS
  SearchFinds
  DelayedMatches
  LostOnlyWhenRaced
  EntryEnds
  BuffersAccounted
CHECK_DEADLOCK FALSE
