CONSTANTS
  NPROC = 2
  CPUs = {c0}
  cpu0 = c0
  NoCpu = NoCpu
  MaxPid = 2
  PidArgs = {0, 1, 2}
  NiceArgs = {1}
  SCHEDULER_PRIORITY = TRUE
  LockIds = {0, 1}
SPECIFICATION CallSpec
INVARIANT InheritsUntilRelease
