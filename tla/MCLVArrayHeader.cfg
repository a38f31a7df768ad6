SPECIFICATION Spec
CONSTANTS
  D = 2
  I32Min <- MCI32Min
  I32Max = 3
  UsizeMax = 7
  MaxStorage = 4
  Value = {v1, v2}
  Uninit = Uninit
INVARIANT HeaderPrepared
