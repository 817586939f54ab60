SPECIFICATION Spec
CONSTANTS
  Procs = {p1, p2, p3}
  Files = {1, 2, 3, 4, 5}
  Pages = {q1}
  NOFILE = 4
  PIPESIZE = 2
  INPUT_BUF = 2
  UINT = 4
  Chars = {"a", "b"}
  NL = "NL"
  EOF = "EOF"
  BS = "BS"
  KILL = "KILL"
  NULL = NULL
  Keys = {"a", "NL", "EOF", "BS", "KILL"}
  UserData <- AB
  ReadLens = {1, 2}
  MaxEvents = 3
INVARIANTS FileRefs PipeKept SleepsForReason IOIndInv
PROPERTIES Streams KilledEnds HangUpSeen
CHECK_DEADLOCK FALSE
