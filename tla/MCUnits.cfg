SPECIFICATION UnitsSpec
CONSTANTS
  Procs = {sh, p1}
  shell = sh
  N = 3
  MAXARGS = 3
  Pids = {1, 2, 3, 4, 5, 6}
  CommandLines <- MCLines
  Readers = {"cat"}
  Writers = {"gen"}
  Unknown = {"nosuch"}
  Missing = {"nofile"}
  Typed = 8
  LineLength = 5
  Alphabet = {"w", "|", "(", ")", ";", "&", ">"}
  ReadProcs = {r1, r2}
  INPUT_BUF = 3
  UintWrap = 6
  ReadSizes = {2}
  HeapEnd = 16
  CORE = 5
  Requests = {2, 3, 6}
  Processors = {c1, c2}
  Processes = {t1, t2}
  nobody = nobody
  ptablelock = pt
  otherlock = ol
INVARIANTS
  RecentHistory
  StartedAsTyped ForegroundDone
  ParserSound
  ReadersAwaited
  HeapSound
  LocksSound InterruptsRestored
PROPERTIES
  PromptReturns InputInOrder OneLinePerRead
