SPECIFICATION Spec
CONSTANTS
  d1 = d1
  d2 = d2
  Dispatches <- OneDispatch
  Faults = 2
INVARIANT FailedStartIsTrue
CHECK_DEADLOCK FALSE
