SPECIFICATION Spec
CONSTANTS
  NPROC = 3
  NULL = NULL
  CPUs = {c0, c1}
  Calls = {"fork", "exit", "wait", "thread_create", "thread_exit", "thread_join"}
  Shares = {}
  Guesses = FALSE
  NullRead = {TRUE}
  PBOOST = 2
  MAXTICKET = 240
  TimeQuantum <- Quantum111
  TimeAllotment <- Allotment111
  PassFloor = 24
  MaxCur = 1
INVARIANTS OneCpu IndInv
SYMMETRY CpuSymmetry
CHECK_DEADLOCK FALSE
