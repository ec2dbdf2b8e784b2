SPECIFICATION FairBioSpec
CONSTANTS
  Threads = {t1, t2}
  Blocks = {k1, k2, k3}
  Values = {x, y}
  None = None
  NBUF = 2
INVARIANTS SleepersAwaited
PROPERTIES OneCopyPerBlock IoCompletes
