SPECIFICATION Spec
CONSTANTS
  Procs = {p1}
  Files = {f1}
  NDIRECT = 1
  NINDIRECT = 2
  BSIZE = 2
  SIZE = 18
  MAXOPBLOCKS = 6
  UINT = 64
  Offsets = {1, 13}
  WriteLens = {3}
  PwriteLens = {3}
  MaxLen = 3
  MaxCalls = 1
  MaxCrashes = 0
  NULL = NULL
CHECK_DEADLOCK FALSE
INVARIANTS PwriteLands
