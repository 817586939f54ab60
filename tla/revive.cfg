SPECIFICATION Spec
CONSTANTS
  NPROC = 3
  NULL = NULL
  CPUs = {c0}
  Calls = {"fork", "exit", "kill"}
  Shares = {}
  Guesses = FALSE
  NullRead = {TRUE, FALSE}
  PBOOST = 4
  MAXTICKET = 240
  TimeQuantum <- Quantum122
  TimeAllotment <- Allotment111
  PassFloor = 24
  MaxCur = 2
PROPERTIES ZombieStays
CHECK_DEADLOCK FALSE
