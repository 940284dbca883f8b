SPECIFICATION RtSpec
CONSTANTS
  PacketsPerBlock = 2
  WordSize = 8
  TotalChunks = 2
  MaxFaults = 0
  MaxCopies = 1
  Grace = 1
  IdleTimeout = 100
  MaxRounds = 50
  PollTick = 2
  Rtts = {0, 30, 400, 1250, 1400, 4990, 5200}
  Outages = {0, 30, 700, 1250, 4900}
INVARIANTS
  RepairBudget
CHECK_DEADLOCK FALSE
