SPECIFICATION Spec
CONSTANTS
  a = a
  b = b
  Sites = {a, b}
  Empty = Empty
  Absent = Absent
  NoSite = NoSite
  ParallelThreadCount = 2
  Faults = {"api", "list", "crash"}
SYMMETRY SiteSymmetry
INVARIANTS TypeOK CleanupIsDue RestMeansStatusTrue
PROPERTIES ChoiceIsKept
