SPECIFICATION FairSpec
CONSTANTS
  a = a
  b = b
  Sites = {a, b}
  Empty = Empty
  Absent = Absent
  NoSite = NoSite
  ParallelThreadCount = 1
  Faults = {}
PROPERTIES SoleSiteBecomesPrimary
