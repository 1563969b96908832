CONSTANTS
  j1 = j1
  j2 = j2
  a = a
  b = b
  q = q
  v = v
  p = p
  Jobs = {j1, j2}
  Identities = {a, b}
  Requests = {q}
  Values = {v}
  Paths = {p}
  PathOf <- PathOfRequest
  JobIdentities <- Selected
  Answers <- TargetAnswers
  Compared <- TargetCompared
  Yields <- ValuesOf
  Contains <- ValuesOf
  Tenants = {}
  Writes = {}
  StateTokens = {}
  Deliveries <- MessageDeliveries
  Faults = {"run_fails", "redelivered", "late_response"}
  NoRow = NoRow
SPECIFICATION LiveSpec
INVARIANT TypeOK
INVARIANT LineageSound
INVARIANT DepthWithinDeliveries
INVARIANT DuplicatesAcrossJobs
INVARIANT SharedReferences
PROPERTY ReportsMatchFlaws
PROPERTY RunsEnd
CHECK_DEADLOCK FALSE
