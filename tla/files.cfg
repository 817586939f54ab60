SPECIFICATION Spec
CONSTANTS
  Procs = {p1, p2}
  Inums = {1, 2, 3, 4}
  NINODE = 3
  ROOTINO = 1
  Names = {"a", "b"}
  ImageFiles <- OneFile
  NULL = NULL
  Calls = {"open", "create", "mkdir", "link", "unlink", "chdir", "close"}
  Paths <- TreePaths
  MaxCalls = 3
  MaxCrashes = 1
INVARIANTS RefCounts NamesSafe InUseKept OnlyInodePanic SysInv
SYMMETRY ProcSymmetry
CHECK_DEADLOCK FALSE
