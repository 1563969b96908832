CONSTANTS
  s1 = s1
  s2 = s2
  s3 = s3
  w1 = w1
  w2 = w2
  wsA = wsA
  wsB = wsB
  NoWorker = NoWorker
  NoScan = NoScan
  Scans = {s1}
  Workers = {w1, w2}
  Workspaces = {wsA, wsB}
  WorkspaceOf <- Assignment
  MaxActiveScans = 1
  ZapPollMaxErrors = 2
  MaxDeliveries = 3
  Faults = {"concurrent_starts", "cancel", "api_lost", "task_error", "soft_limit", "db_error", "time_limit", "worker_lost", "redelivery"}
SPECIFICATION WatchdogSpec
INVARIANT TypeOK
INVARIANT MessageHeld
INVARIANT FindingsWithinDeliveries
INVARIANT CancelledWasRequested
INVARIANT CompletedIsBacked
PROPERTY OnlyRedeliveryReopens
PROPERTY CancellationHolds
PROPERTY MessageSettles
CHECK_DEADLOCK FALSE
