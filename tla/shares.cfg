SPECIFICATION Spec
CONSTANTS
  NPROC = 3
  NULL = NULL
  CPUs = {c0}
  Calls = {"fork", "exit", "wait", "thread_create", "set_cpu_share"}
  Shares <- SomeShares
  Guesses = FALSE
  NullRead = {TRUE, FALSE}
  PBOOST = 2
  MAXTICKET = 120
  TimeQuantum <- Quantum111
  TimeAllotment <- Allotment111
  PassFloor = 6
  MaxCur = 1
INVARIANTS TypeOK QueueInv ShareInv NoLostThread
CHECK_DEADLOCK FALSE
