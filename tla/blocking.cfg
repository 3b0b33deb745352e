SPECIFICATION FairSpec
CONSTANTS
  r1 = r1
  r2 = r2
  Releases = {r1, r2}
  UpdbFrom <- MCUpdbFrom
  Faults = {"slow", "updb"}
INVARIANTS TypeOK RollbackStands
PROPERTIES ReplicasFollowNamespace FollowsContract
