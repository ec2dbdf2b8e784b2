CONSTANTS
  NPROC = 4
  CPUs = {c0, c1}
  cpu0 = c0
  NoCpu = NoCpu
  MaxPid = 4
  PidArgs = {2}
  NiceArgs = {5, 6}
  SCHEDULER_PRIORITY = TRUE
SPECIFICATION Spec
INVARIANTS TypeOK OneCpuPerProcess ParentsAlive NoMissedExit EmbryoOwned
