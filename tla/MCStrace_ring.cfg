SPECIFICATION StraceSpec
CONSTANTS
  Procs = {sh, p1, p2}
  shell = sh
  N = 3
INVARIANTS RecentHistory
