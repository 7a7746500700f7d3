\* A command whose signal was aborted before it began
SPECIFICATION FairSpec
CONSTANTS
  c1 = c1
  c2 = c2
  h1 = h1
  Calls <- TwoCalls
  Hashes <- OneHash
  MaxSessions = 2
  HostRules = {"keepNewest", "closeLast"}
PROPERTIES CancelledSendsNothing
