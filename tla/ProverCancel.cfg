\* A batch is cancelled while its workers wait for a permit
SPECIFICATION FairSpec
CONSTANTS
  Threads = {t1, t2, t3}
  t1 = t1
  t2 = t2
  t3 = t3
  Ceiling = 2
  DefaultLimit = 1
  Limits = {1}
  MaxGeneration = 1
  MaxEpoch = 1
  MaxBatch = 2
  ClientRules = {}
PROPERTIES CancelledWaiterAbandons
