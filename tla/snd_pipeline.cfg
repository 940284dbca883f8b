SPECIFICATION SpFairSpec
CONSTANTS
  PacketsPerBlock = 2
  WordSize = 8
  TotalChunks = 3
  MaxFaults = 0
  MaxCopies = 1
  PipelineDepth = 1
  StaleAfter = 1
  MaxAcks = 1
  ChannelCapacity = 1
  NumWorkers = 2
INVARIANTS
  SpTypeOK
  ReadIsKept
  ResultIsHonest
PROPERTIES
  ImplementsBlockManager
  SendFileReturns
CHECK_DEADLOCK FALSE
