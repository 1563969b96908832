CONSTANTS
  j1 = j1
  j2 = j2
  i1 = i1
  i2 = i2
  i3 = i3
  w1 = w1
  w2 = w2
  NoWorker = NoWorker
  NoJob = NoJob
  Jobs = {j1, j2}
  Identities = {i1, i2}
  IdentitiesOf <- SharedIdentities
  Workers = {w1, w2}
  MaxDeliveries = 1
  Faults = {}
SPECIFICATION Spec
INVARIANT OneSessionPerIdentity
CHECK_DEADLOCK FALSE
