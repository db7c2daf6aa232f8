SPECIFICATION Spec
CONSTANTS
  Low = 1
  High = 9
  Trick = 3
  MaxGamers = 2
  Hand2 = 3
  Hand3 = 2
  Hand4 = 2
INVARIANT
  FailureEndsTheGame
CHECK_DEADLOCK FALSE
