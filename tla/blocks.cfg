SPECIFICATION Spec
CONSTANTS
  Procs = {p1, p2}
  Files = {f1, f2}
  NDIRECT = 1
  NINDIRECT = 2
  BSIZE = 2
  SIZE = 18
  MAXOPBLOCKS = 6
  UINT = 64
  Offsets = {1, 13}
  WriteLens = {0, 3}
  PwriteLens = {2}
  MaxLen = 3
  MaxCalls = 2
  MaxCrashes = 1
  NULL = NULL
INVARIANTS OneOwner NoHole NoLeak OnlySpacePanics
PROPERTIES FlatFiles
CHECK_DEADLOCK FALSE
SYMMETRY Symmetric
