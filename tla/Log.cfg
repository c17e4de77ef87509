SPECIFICATION FairSpec
CONSTANTS
  l1 = l1
  l2 = l2
  w = w
  None = None
  Producers = {l1, l2}
  Consumers = {w}
  Worker = w
  Values <- Entries
  EntryCount = 2
  Size = 2
  MaxBatch = 1
  MaxFileSize = 2
  s1 = s1
  s2 = s2
  Names = {s1, s2}
INVARIANT LogSound
INVARIANT ShutdownFlushes
PROPERTY QueueIsFifo
PROPERTY EntriesWritten
