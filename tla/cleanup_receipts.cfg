SPECIFICATION LiveSpec
CONSTANTS
  Attempts = 1
  Faults = 2
  Limit = 1
  PerCycle = 1
  Stubborn <- MCStubborn
INVARIANTS KeyNamesOneStop NothingOwedIsLost CleanedIsTrue
PROPERTY EveryReceiptIsAnswered
CHECK_DEADLOCK FALSE
