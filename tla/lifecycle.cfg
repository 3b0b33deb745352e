SPECIFICATION FairSpec
CONSTANTS
  Backups = {b1, b2}
  Kinds = {"plain", "clone", "unreleased", "invalid"}
  MaxEdits = 3
  NoSite = NoSite
  Faults = {"crash"}
INVARIANTS TypeOK FinalizerFirst RestMeansListed
PROPERTIES OrphansAreNotMade DeletionCompletes ScheduleFollows
