SPECIFICATION Spec
CONSTANTS
  more = more
  edited = edited
  large = large
  Files <- MCFiles
  Edits <- MCSettingsEdits
  Custom = {large}
  Unset = Unset
  Requests <- MCRequests
  NoMap = NoMap
  NoHash = NoHash
  NoDeploy = NoDeploy
  Faults = {}
INVARIANTS SettingsRollOut
