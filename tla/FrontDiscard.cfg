SPECIFICATION Spec
CONSTANTS
  HeaderReservedSize = 1
  InitialSize = 2
  Unset = Unset
  KMaxMessageLength = 2
  MaxPort = 9
  MaxInt = 9
  MaxUnsigned = 15
  MaxMillis = 30
  MaxSize = 99
  Defaults <- MCDefaults
  Jobs <- DiscardingJobs
  HighWaterMark = 20
  LowWaterMark = 4
INVARIANT DiscardDrops
