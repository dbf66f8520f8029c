SPECIFICATION Spec
CONSTANTS
  Kind = "codex"
  Approvals <- OneApproval
  Pinned <- NoRequests
  Questions <- NoRequests
  MaxTurns = 1
  MaxProcs = 2
  MaxSpend = 1
  MaxFaults = 1
  PageSize = 3
CHECK_DEADLOCK FALSE
INVARIANTS
  TypeOK
PROPERTIES
  ClosedIsLast
  ImplementsEventStream
