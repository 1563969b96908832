CONSTANTS
  s1 = s1
  s2 = s2
  p = p
  q = q
  A = A
  B = B
  adminA = adminA
  userA = userA
  adminB = adminB
  NoSession = NoSession
  NoSite = NoSite
  Logins = {s1, q}
  Scans = {s1}
  Anonymous = {}
  Earlier <- OneRequest
  Apps = {A, B}
  Expiring = {}
  Roles = {adminA, userA, adminB}
  AppOf <- Application
  RoleOf <- Assigned
  Files = {adminA, userA, adminB}
  FileOf <- FilePerRole
  Carries <- Credentials
  SeenInside <- Inside
  SeenOutside <- Outside
  RoleOrder <- Ordered
  RulesOf <- Names
  ConfigRoles <- Configured
  PagesOf <- Pagelist
  ScopeHosts = {A, B}
  Faults = {}
SPECIFICATION Spec
INVARIANT TwoRolesCompared
CHECK_DEADLOCK FALSE
