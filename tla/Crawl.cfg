CONSTANTS
  home = home
  other = other
  login = login
  pHome = pHome
  pOther = pOther
  e1 = e1
  e2 = e2
  NoCall = NoCall
  Rest = Rest
  OtherEndpoints = {e1, e2}
  OtherPath <- Duplicated
  Pages = {home, other, login}
  Home = home
  Lands <- SiteLands
  Links <- SiteLinks
  Resources <- SiteResources
  InScope = {home, other}
  Boundary = {login}
  Static = {}
  PathOf <- SitePaths
  MaxPages = {0, 2, 3}
  Faults = {"load_fails", "late_callbacks"}
SPECIFICATION LiveSpec
INVARIANT TypeOK
INVARIANT WalkIsComplete
INVARIANT RowsLinked
INVARIANT DuplicatesNeedOverlap
INVARIANT LossNeedsOverlap
PROPERTY CrawlSettles
CHECK_DEADLOCK FALSE
