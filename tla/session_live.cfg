SPECIFICATION LiveSpec
CONSTANTS
  Kind = "harness"
  Approvals <- OneApproval
  Pinned <- OneApproval
  Questions <- NoRequests
  MaxTurns = 1
  MaxProcs = 2
  MaxSpend = 1
  MaxFaults = 0
  PageSize = 3
CHECK_DEADLOCK FALSE
INVARIANTS
  UsageIsHonest
PROPERTIES
  ShutdownCompletes
  TurnEnds
