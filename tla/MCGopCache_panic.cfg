CONSTANTS
  GopNum = 3
  MaxGOPCap = 2
  Ids = {1, 2}
  None = None
SPECIFICATION Spec
INVARIANTS CacheNeverPanics
CHECK_DEADLOCK FALSE
