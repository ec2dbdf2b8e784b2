CONSTANTS
  NPROC = 2
  CPUs = {c0}
  cpu0 = c0
  NoCpu = NoCpu
  MaxPid = 3
  PidArgs = {0, 1, 2, 3}
  NiceArgs = {1, 5, 6}
  SCHEDULER_PRIORITY = TRUE
  LockIds = {0, 1}
SPECIFICATION LockSpec
INVARIANT BoostedWhileHolding
