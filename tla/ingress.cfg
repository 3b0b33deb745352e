SPECIFICATION FairSpec
CONSTANTS
  h1 = h1
  h2 = h2
  Hosts = {h1, h2}
  SiteUrls <- MCSiteUrls
  Refusable = {"route", "http"}
  Deletable = {"route"}
INVARIANTS TypeOK RestMeansRouted RoutesAfterInstallation
PROPERTIES IngressFollows
