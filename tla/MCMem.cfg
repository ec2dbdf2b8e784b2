SPECIFICATION MemSpec
CONSTANTS
  Procs = {p0, p1, p2}
  initp = p0
  Pages <- MCPages
  PGSIZE = 2
  NPT = 2
  NPAGES = 6
  KTabs = 1
  Programs <- MCPrograms
  Grows <- MCGrows
  Jobs = 4
INVARIANTS PagesAccounted UserMemory LoadedDirAlive
PROPERTIES ArgumentsFit
SYMMETRY Slots
