SPECIFICATION FairSpec
CONSTANTS
  PacketsPerBlock = 1
  WordSize = 8
  TotalChunks = 1
  MaxFaults = 4
  MaxCopies = 3
  PipelineDepth = 1
  StaleAfter = 1
  MaxAcks = 1
  Grace = 0
  IdleTimeout = 1
  MaxRounds = 1
PROPERTIES
  TransferEnds
CHECK_DEADLOCK FALSE
