SPECIFICATION RxSpec
CONSTANTS
  PacketsPerBlock = 2
  WordSize = 8
  TotalChunks = 3
  MaxFaults = 1
  MaxCopies = 1
  Grace = 1
  IdleTimeout = 2
  MaxRounds = 1
INVARIANTS
  RxTypeOK
  NoResurrection
  CountExact
  SweepIsLive
  AckedDataSafe
CHECK_DEADLOCK FALSE
