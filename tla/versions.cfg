SPECIFICATION FairSpec
CONSTANTS
  v1 = v1
  v2 = v2
  Versions = {v1, v2}
  Tags <- MCTags
  Blacklists <- MCBlacklists
  Main = main
  Objects = {main}
  NoVersion = NoVersion
  NoObject = NoObject
  Faults = {"registry", "api", "lost", "crash"}
INVARIANTS TypeOK PollGoesOn ComparisonIsExact
PROPERTIES BlacklistIsRespected StatusFollowsRegistry WritesCease
