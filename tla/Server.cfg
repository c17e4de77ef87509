SPECIFICATION FairSpec
CONSTANTS
  k1 = k1
  k2 = k2
  t1 = t1
  None = None
  Clients = {k1, k2}
  WorkerCount = 2
  Callers = {t1}
  MaxRejected = 1
INVARIANT ListenerSound
INVARIANT DescriptorsOwned
INVARIANT StoppedClean
PROPERTY AdmissionClosed
PROPERTY StopReturns
