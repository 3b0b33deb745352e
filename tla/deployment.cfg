SPECIFICATION FairSpec
CONSTANTS
  more = more
  edited = edited
  large = large
  Files <- MCFiles
  Edits <- MCEdits
  Custom = {large}
  Unset = Unset
  Requests <- MCRequests
  NoMap = NoMap
  NoHash = NoHash
  NoDeploy = NoDeploy
  Faults = {"files", "delete"}
INVARIANTS TypeOK RestMeansEnforced RestMeansHashed
PROPERTIES RolloutsCease
