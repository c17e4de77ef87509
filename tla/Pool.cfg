SPECIFICATION FairSpec
CONSTANTS
  r1 = r1
  r2 = r2
  r3 = r3
  b1 = b1
  b2 = b2
  Requests = {r1, r2, r3}
  Buckets = {b1, b2}
  MaxConnections = 2
  MaxIdle = 1
INVARIANT TypeOK
INVARIANT PoolAccounted
INVARIANT SingleOwner
INVARIANT DrainClean
PROPERTY StopCompletes
