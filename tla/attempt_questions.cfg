SPECIFICATION FairSpec
CONSTANTS
  q1 = q1
  q2 = q2
  Questions = {q1, q2}
  MaxFaults = 2
INVARIANTS
  RecordIsTrue
  KeptIsDelivered
  NothingLeftOpen
PROPERTIES
  StopSettles
  AnswersArrive
CHECK_DEADLOCK FALSE
