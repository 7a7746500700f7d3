\* Three rounds over two workers or one native call, an abort at any time, and any host
SPECIFICATION FairSpec
CONSTANTS
  Requests <- MCRequests
  Needs <- MCNeeds
  Key <- MCKey
  Kind <- MCKind
  MayRefuse = {4}
  MaxBatch = 3
  NoAnswer = NoAnswer
  Garbage = Garbage
  Limit = 2
  Caps = {3, 4}
  Adapters = {"none", "batch"}
INVARIANTS NothingLeftRunning RoundsFit
PROPERTIES ImplementsProving NothingStartsAfterStop RunEnds
\* runCommand is called once
CHECK_DEADLOCK FALSE
