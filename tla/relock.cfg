SPECIFICATION Spec
CONSTANTS
  NPROC = 3
  NULL = NULL
  CPUs = {c0}
  Calls = {"fork", "sleep", "set_cpu_share"}
  Shares = {0, 40}
  Guesses = FALSE
  NullRead = {TRUE, FALSE}
  PBOOST = 4
  MAXTICKET = 240
  TimeQuantum <- Quantum122
  TimeAllotment <- Allotment111
  PassFloor = 24
  MaxCur = 2
INVARIANTS AcquireOnce
CHECK_DEADLOCK FALSE
