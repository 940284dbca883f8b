SPECIFICATION RpFairSpec
CONSTANTS
  PacketsPerBlock = 2
  WordSize = 8
  TotalChunks = 2
  MaxFaults = 1
  MaxCopies = 1
  Grace = 0
  IdleTimeout = 1
  MaxRounds = 1
  ChannelCapacity = 1
  NumWorkers = 2
INVARIANTS
  RpTypeOK
  VerifiedIsKept
  OkMeansWritten
  ErrHasCause
PROPERTIES
  ImplementsReceiverState
  ReturnsWhileWorkersLive
CHECK_DEADLOCK FALSE
