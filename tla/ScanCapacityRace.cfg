CONSTANTS
  s1 = s1
  s2 = s2
  s3 = s3
  w1 = w1
  w2 = w2
  wsA = wsA
  wsB = wsB
  NoWorker = NoWorker
  NoScan = NoScan
  Scans = {s1, s2}
  Workers = {w1}
  Workspaces = {wsA}
  WorkspaceOf <- Assignment
  MaxActiveScans = 1
  ZapPollMaxErrors = 1
  MaxDeliveries = 1
  Faults = {"concurrent_starts"}
SPECIFICATION Spec
INVARIANT CapacityRespected
CHECK_DEADLOCK FALSE
