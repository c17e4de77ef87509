SPECIFICATION Spec
CONSTANTS
  a = a
  b = b
  Ops = {a, b}
  LinkedOps = {}
  ReadOps = {}
  PuntableOps = {}
  IoErrors = {}
  SqEntries = 2
  PendingCap = 1
  SubmitPhases = {"runControl", "functors", "cqes"}
  RingFaults = TRUE
INVARIANT BufferReleased
INVARIANT StoppedClean
