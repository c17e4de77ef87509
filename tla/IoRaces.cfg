SPECIFICATION FairSpec
CONSTRAINT OneAtATime
CONSTANTS
  a = a
  b = b
  Ops = {a, b}
  LinkedOps = {a}
  ReadOps = {a}
  PuntableOps = {a}
  IoErrors = {"ECONNRESET", "ETIMEDOUT"}
  SqEntries = 2
  PendingCap = 1
  SubmitPhases = {"runControl", "functors"}
  RingFaults = FALSE
INVARIANT TypeOK
INVARIANT ExactlyOnce
INVARIANT OwnedUntilDrained
INVARIANT ResultFaithful
PROPERTY ContractKept
PROPERTY DeadlineHolds
PROPERTY QuitStops
PROPERTY CancelCompletes
