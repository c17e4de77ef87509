SPECIFICATION FairSpec
CONSTANTS
  a = a
  b = b
  Ops = {a}
  LinkedOps = {a}
  ReadOps = {}
  PuntableOps = {}
  IoErrors = {}
  SqEntries = 2
  PendingCap = 1
  SubmitPhases = {"cqes"}
  RingFaults = FALSE
PROPERTY QuitStops
