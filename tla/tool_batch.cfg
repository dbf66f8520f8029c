SPECIFICATION LiveSpec
CONSTANTS
  Size = 4
  Parallel <- Caps
INVARIANTS
  TypeOK
  ReportIsTrue
PROPERTIES
  ImplementsCallOrder
  BatchReturns
