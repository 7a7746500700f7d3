\* Wire payloads that need not be what their offsets say; a host that keeps asking
SPECIFICATION FairSpec
CONSTANTS
  Streams = {"dust", "shielded"}
  Events <- WireFeeds
  MaxOffset = 3
  MaxReceipts = 1
  Forms = {"wire"}
  Mislabelled = {"wire"}
  MaxExports = 1
  MaxSessions = 2
INVARIANTS NoEventTwice LastIsRecognised
PROPERTIES SyncSettles
