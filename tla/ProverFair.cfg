\* A limit that falls, and one setup at a time against a stream of proofs, none of them in a batch
SPECIFICATION FairSpec
CONSTANTS
  Threads = {t1, t2, t3}
  t1 = t1
  t2 = t2
  t3 = t3
  Ceiling = 2
  DefaultLimit = 2
  Limits = {1}
  MaxGeneration = 2
  MaxEpoch = 0
  MaxBatch = 0
  ClientRules = {"oneSetup"}
INVARIANTS NoLostWakeup BridgeFollowsRegistry
PROPERTIES SetupGetsIn
