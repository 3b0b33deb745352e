SPECIFICATION LiveSpec
CONSTANTS
  r1 = r1
  r2 = r2
  r3 = r3
  Releases = {r1, r2}
  Empty = Empty
  Absent = Absent
  UpdbFrom <- MCUpdbFrom
  Cloned = FALSE
  Faults = {"reload", "slow", "crash"}
PROPERTIES UpdatesAreDecided
