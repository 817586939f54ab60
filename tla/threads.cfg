SPECIFICATION Spec
CONSTANTS
  NPROC = 4
  NULL = NULL
  CPUs = {c0}
  Calls = {"fork", "exit", "wait", "thread_create", "thread_exit", "thread_join", "sleep", "yield"}
  Shares = {}
  Guesses = FALSE
  NullRead = {TRUE, FALSE}
  PBOOST = 1
  MAXTICKET = 240
  TimeQuantum <- Quantum111
  TimeAllotment <- Allotment111
  PassFloor = 24
  MaxCur = 1
INVARIANTS FamilyInv NoLostWakeup NoPanic TreeInv
PROPERTIES ZombieStays
