SPECIFICATION MgrFairSpec
CONSTANTS
  PacketsPerBlock = 2
  WordSize = 8
  TotalChunks = 5
  MaxFaults = 0
  MaxCopies = 1
  PipelineDepth = 2
  StaleAfter = 1
  MaxAcks = 1
INVARIANTS
  MgrTypeOK
  SlotAccounting
  ChunkConservation
  BlockEndAssert
  EndAfterData
  PendingMeansFull
  ReturnIsHonest
PROPERTIES
  ForwardOnly
  ManagerReturns
