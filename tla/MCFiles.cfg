SPECIFICATION FilesSpec
CONSTANTS
  Procs = {p1, p2}
  initp = p1
  NOFILE = 2
  NFILE = 3
  Pages = {1}
  PIPESIZE = 2
  UintRange = 4
  x = x
  y = y
  Writes <- MCWrites
  Reads = {1, 2}
  NoByte = NoByte
INVARIANTS PipeOwnership 
PROPERTIES FirstInFirstOut
CHECK_DEADLOCK FALSE
