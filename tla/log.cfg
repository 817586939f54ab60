SPECIFICATION Spec
CONSTANTS
  Procs = {p1, p2}
  Blocks = {b1, b2}
  Data = {0, 1}
  Zero = 0
  NoBuf = NoBuf
  Nobody = Nobody
  After = b1
  LOGSIZE = 4
  NLOG = 4
  MAXOPBLOCKS = 2
  OpBlocks = 1
  MaxCrashes = 2
INVARIANTS LogIndInv Pinned SleeperHasWaker Reserved
PROPERTIES CrashSafe SleeperWakes
