CONSTANTS
  s1 = s1
  s2 = s2
  s3 = s3
  w1 = w1
  w2 = w2
  wsA = wsA
  wsB = wsB
  NoWorker = NoWorker
  NoScan = NoScan
  Scans = {s1, s2, s3}
  Workers = {w1, w2}
  Workspaces = {wsA, wsB}
  WorkspaceOf <- Assignment
  MaxActiveScans = 1
  ZapPollMaxErrors = 1
  MaxDeliveries = 1
  Faults = {"task_error", "auth_rejected"}
SPECIFICATION LiveSpec
INVARIANT CapacityRespected
PROPERTY RejectedOnlyAtLimit
PROPERTY ScanSettles
CHECK_DEADLOCK FALSE
