\* Three threads with batches, a cancel and a limit that falls; hosts that overlap configure and close
SPECIFICATION Spec
CONSTANTS
  Threads = {t1, t2, t3}
  t1 = t1
  t2 = t2
  t3 = t3
  Ceiling = 2
  DefaultLimit = 2
  Limits = {1}
  MaxGeneration = 2
  MaxEpoch = 1
  MaxBatch = 2
  ClientRules = {}
SYMMETRY ThreadSymmetry
INVARIANTS GateSafe ProvesWithItsRegistry BatchOneRegistry
PROPERTIES NoOvertaking
