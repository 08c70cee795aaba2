CONSTANTS
  Thread = {t1, t2, t3}
  Block = {b1, b2, b3, b4, b5}
  Null = Null
  MaxItems = 2
  MaxLives = 1
SPECIFICATION Spec
SYMMETRY Symmetry
INVARIANTS
  OneOwner
  PoolAccount
  HeapAccount
CHECK_DEADLOCK FALSE
