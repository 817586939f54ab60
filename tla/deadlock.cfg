SPECIFICATION Spec
CONSTANTS
  Procs = {p1, p2}
  Inums = {1, 2, 3}
  NINODE = 3
  ROOTINO = 1
  Names = {"a", "b"}
  ImageFiles <- OneFile
  NULL = NULL
  Calls = {"create", "unlink"}
  Paths <- FlatPaths
  MaxCalls = 3
  MaxCrashes = 0
INVARIANT NoDeadlock
SYMMETRY ProcSymmetry
CHECK_DEADLOCK FALSE
