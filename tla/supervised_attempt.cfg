SPECIFICATION LiveSpec
CONSTANTS
  d1 = d1
  d2 = d2
  Dispatches <- TwoDispatches
  Faults = 2
INVARIANTS EveryResourceIsOwned NothingRunsOnceClosed NeverStartedAgain ReviewIsEarned QuietArchiveIsTrue
PROPERTY AttemptSettles
CHECK_DEADLOCK FALSE
