SPECIFICATION Spec
CONSTANTS
  r1 = r1
  r2 = r2
  r3 = r3
  Releases = {r1, r2}
  Empty = Empty
  Absent = Absent
  UpdbFrom <- MCUpdbFrom
  Cloned = FALSE
  Faults = {"api", "exec", "reload", "updb", "slow", "crash"}
INVARIANTS TypeOK CopyIsCurrent RestMeansUpToDate RejectedUpdateSettles
PROPERTIES ImplementsContract OnlyAdministratorEdits MigratesAdoptedRelease MigrationFollowsBackup UpdateIsAnnounced
