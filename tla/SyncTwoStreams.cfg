\* Two streams with batches of every form, of which v2 ones may lie, and restarts from a checkpoint
SPECIFICATION Spec
CONSTANTS
  Streams = {"shielded", "unshielded"}
  Events <- TwoFeeds
  MaxOffset = 2
  MaxReceipts = 2
  Forms = {"plain", "wire", "v2"}
  Mislabelled = {"v2"}
  MaxExports = 1
  MaxSessions = 2
INVARIANTS CheckpointReopens ReceiptsAreApplied
PROPERTIES ImplementsFeed
