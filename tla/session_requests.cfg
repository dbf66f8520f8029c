SPECIFICATION Spec
CONSTANTS
  Kind = "harness"
  Approvals <- OneApproval
  Pinned <- NoRequests
  Questions <- OneQuestion
  MaxTurns = 1
  MaxProcs = 2
  MaxSpend = 0
  MaxFaults = 0
  PageSize = 3
CHECK_DEADLOCK FALSE
INVARIANTS
  HeldIsDurable
  AnswersAreFinal
  GateAgreesWithLog
  TurnIsSealed
  ClosedLeavesNothingOpen
