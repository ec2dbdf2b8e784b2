CONSTANTS
  Procs = {p1, p2}
  Blocks = {1, 2, 3}
  AfterLog = 1
  Values = {x, y}
  None = None
  MAXOPBLOCKS = 2
  OpBlocks = 2
  MaxCrashes = 2
SPECIFICATION LogSpec
INVARIANTS NoMissedWakeup ReadsLatest
PROPERTY AtomicUpdates
SYMMETRY Symmetry
