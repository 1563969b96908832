CONSTANTS
  j1 = j1
  j2 = j2
  x = x
  y = y
  a1 = a1
  a2 = a2
  t = t
  approve = approve
  None = None
  Jobs = {j1, j2}
  Deliveries <- Twice
  Responses = {x, y}
  JobOf <- Owner
  PathOf <- Location
  Shows <- StateFields
  Refs = {a1, a2, t}
  Mentions <- Names
  Signals <- Hints
  TenantRefs = {t}
  ParentRefs = {a1, a2, t}
  Paths = {approve}
  RootOf <- Root
  CrudOf <- Crud
  Roles = {"buyer", "admin"}
  PlanLimit = 3
  Replays = 1
SPECIFICATION Spec
INVARIANT TypeOK
INVARIANT GraphClosed
INVARIANT PivotsFollowRelations
INVARIANT BoundariesFirst
PROPERTY ReportsMatchAnomalies
CHECK_DEADLOCK FALSE
