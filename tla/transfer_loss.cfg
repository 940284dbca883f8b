SPECIFICATION FairSpec
CONSTANTS
  PacketsPerBlock = 1
  WordSize = 8
  TotalChunks = 2
  MaxFaults = 1
  MaxCopies = 1
  PipelineDepth = 1
  StaleAfter = 1
  MaxAcks = 1
  Grace = 0
  IdleTimeout = 1
  MaxRounds = 1
INVARIANTS
  AcksWelcome
  TrackedBounded
PROPERTIES
  TransferEnds
