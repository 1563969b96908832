CONSTANTS
  j1 = j1
  j2 = j2
  i1 = i1
  i2 = i2
  i3 = i3
  w1 = w1
  w2 = w2
  NoWorker = NoWorker
  NoJob = NoJob
  Jobs = {j1, j2}
  Identities = {i1, i2, i3}
  IdentitiesOf <- TwoShared
  Workers = {w1, w2}
  MaxDeliveries = 2
  Faults = {"api_lost", "task_error", "time_limit", "worker_lost", "redelivery"}
SPECIFICATION LiveSpec
INVARIANT TypeOK
INVARIANT EffectsWithinDeliveries
INVARIANT OneSessionUnlessShared
INVARIANT CompletedHasSessions
PROPERTY ImplementsAtomicJob
PROPERTY MessageSettles
CHECK_DEADLOCK FALSE
