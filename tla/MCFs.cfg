SPECIFICATION MCSpec
CONSTANTS
  FSSIZE = 14
  NMETA = 1
  BSIZE = 3
  NDIRECT = 1
  NINODES = 6
  NINODE = 5
  WriteSize = 2
  Nobody = Nobody
  Procs = {p1, p2}
  Loads <- MCLoads
INVARIANTS InodeRefsCounted TreeWellFormed LinksCounted BlocksOwned CopiesAgree 
PROPERTIES LastReferenceFrees
