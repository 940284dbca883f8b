SPECIFICATION Spec
CONSTANTS
  PacketsPerBlock = 2
  WordSize = 8
  TotalChunks = 3
  MaxFaults = 0
  MaxCopies = 1
  PipelineDepth = 1
  StaleAfter = 1
  MaxAcks = 1
  Grace = 0
  IdleTimeout = 1
  MaxRounds = 1
INVARIANTS
  RepairPossible
  ResolvedIsVerified
PROPERTIES
  ImplementsWindowedTransfer
