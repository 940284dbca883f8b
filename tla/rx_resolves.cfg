SPECIFICATION RxFairSpec
CONSTANTS
  PacketsPerBlock = 2
  WordSize = 8
  TotalChunks = 2
  MaxFaults = 2
  MaxCopies = 1
  Grace = 1
  IdleTimeout = 2
  MaxRounds = 1
PROPERTIES
  TrackedIsResolved
CHECK_DEADLOCK FALSE
