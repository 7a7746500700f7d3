\* Two threads, clients that keep no promise, sessions from checkpoints of any generation
SPECIFICATION FairSpec
CONSTANTS
  Threads = {t1, t2}
  Hashes = {h1}
  t1 = t1
  t2 = t2
  t3 = t3
  h1 = h1
  NoWallet = NoWallet
  Checkpoints <- MCCheckpoints
  MaxCounter = 3
  MaxOpenSessions = 2
  MaxTombstones = 1
  MaxOffset = 1
  MaxChanges = 1
  ClientRules = {}
INVARIANTS TypeOK CancelledStaysCancelled ProposalInv SyncNeverLost
PROPERTIES FreshGeneration BusySettles
