SPECIFICATION RpFairSpec
CONSTANTS
  PacketsPerBlock = 1
  WordSize = 8
  TotalChunks = 1
  MaxFaults = 0
  MaxCopies = 3
  Grace = 0
  IdleTimeout = 1
  MaxRounds = 3
  ChannelCapacity = 1
  NumWorkers = 1
PROPERTIES
  RunReturns
CHECK_DEADLOCK FALSE
