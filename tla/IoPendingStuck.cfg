SPECIFICATION FairSpec
CONSTANTS
  a = a
  b = b
  Ops = {a, b}
  LinkedOps = {}
  ReadOps = {}
  PuntableOps = {}
  IoErrors = {}
  SqEntries = 2
  PendingCap = 1
  SubmitPhases = {"functors"}
  RingFaults = FALSE
PROPERTY AcceptedLeavesQueue
