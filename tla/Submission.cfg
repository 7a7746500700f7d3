\* Two calls that interleave at every await, one transaction, a close or crash between two sessions
SPECIFICATION FairSpec
CONSTANTS
  c1 = c1
  c2 = c2
  h1 = h1
  Calls <- TwoCalls
  Hashes <- OneHash
  MaxSessions = 2
  HostRules = {"keepNewest", "closeLast"}
INVARIANTS NeverSentTwice StatusIsTrue ReportedIsSaved NothingLeftBehind
PROPERTIES SendsWhatIsAwaited CallsEnd
