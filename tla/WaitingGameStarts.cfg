SPECIFICATION PlayedSpec
CONSTANTS
  Low = 1
  High = 9
  Trick = 3
  MaxGamers = 3
  Hand2 = 2
  Hand3 = 2
  Hand4 = 2
PROPERTY
  WaitingGameStarts
CHECK_DEADLOCK FALSE
