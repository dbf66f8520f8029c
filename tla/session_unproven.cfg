SPECIFICATION Spec
CONSTANTS
  Kind = "harness"
  Approvals <- NoRequests
  Pinned <- NoRequests
  Questions <- NoRequests
  MaxTurns = 2
  MaxProcs = 3
  MaxSpend = 0
  MaxFaults = 0
  PageSize = 3
CHECK_DEADLOCK FALSE
INVARIANT NoTurnBesideUnproven
