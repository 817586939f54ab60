SPECIFICATION FairSpec
CONSTANTS
  NPROC = 3
  NULL = NULL
  CPUs = {c0}
  Calls = {"fork", "wait", "kill", "thread_create", "thread_join"}
  Shares = {}
  Guesses = FALSE
  NullRead = {TRUE}
  PBOOST = 3
  MAXTICKET = 240
  TimeQuantum <- Quantum122
  TimeAllotment <- Allotment111
  PassFloor = 24
  MaxCur = 2
PROPERTIES NoStarvation KillEnds
CHECK_DEADLOCK FALSE
