CONSTANTS
  s1 = s1
  s2 = s2
  p = p
  q = q
  A = A
  B = B
  adminA = adminA
  userA = userA
  adminB = adminB
  NoSession = NoSession
  NoSite = NoSite
  Logins = {s1, s2, p, q}
  Scans = {s1, s2}
  Anonymous = {s2}
  Earlier <- TwoRequests
  Apps = {A, B}
  Expiring = {s1}
  Roles = {adminA, userA, adminB}
  AppOf <- Application
  RoleOf <- Assigned
  Files = {adminA, userA, adminB}
  FileOf <- FilePerRole
  Carries <- Credentials
  SeenInside <- Inside
  SeenOutside <- Outside
  RoleOrder <- Ordered
  RulesOf <- Names
  ConfigRoles <- Configured
  PagesOf <- Pagelist
  ScopeHosts = {A, B}
  Faults = {"clear_fails", "zap_error", "unreachable", "replay_fails"}
SPECIFICATION Spec
INVARIANT TypeOK
INVARIANT RoleIsolation
INVARIANT ClearedNotSent
INVARIANT ConfirmedByReader
INVARIANT ForeignDenialNotConfirmed
CHECK_DEADLOCK FALSE
