SPECIFICATION FairSpec
CONSTANTS
  s1 = s1
  c1 = c1
  c2 = c2
  None = None
  Sessions = {s1}
  Script <- Clients
  Conns = {c1, c2}
  MaxIdle = 1
  ResponseBodies = {1}
INVARIANT SessionClean
INVARIANT StreamsMatch
INVARIANT IdleAtBoundary
INVARIANT WholeResponses
PROPERTY CancelledEnds
PROPERTY RequestAnswered
