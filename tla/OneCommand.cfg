\* Two threads; no operation is resumed twice at once, and updates run alone
SPECIFICATION Spec
CONSTANTS
  Threads = {t1, t2}
  Hashes = {h1}
  t1 = t1
  t2 = t2
  t3 = t3
  h1 = h1
  NoWallet = NoWallet
  Checkpoints <- NoCheckpoint
  MaxCounter = 4
  MaxOpenSessions = 1
  MaxTombstones = 1
  MaxOffset = 1
  MaxChanges = 1
  ClientRules = {"oneResume", "soleUpdates"}
SYMMETRY ThreadSymmetry
INVARIANTS RegisteredIsActive BusyHasOwner AwaitingHasOperation ChangeNeverLost
PROPERTIES StatusMovesForward
