CONSTANTS
  NPROC = 3
  CPUs = {c0}
  cpu0 = c0
  NoCpu = NoCpu
  MaxPid = 3
  PidArgs = {2}
  NiceArgs = {}
  SCHEDULER_PRIORITY = FALSE
SPECIFICATION FairSpec
PROPERTIES OrphansReaped KilledExits NoStarvation
