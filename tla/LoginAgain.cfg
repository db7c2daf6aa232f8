SPECIFICATION Spec
CONSTANTS
  MaxGames = 1
  MaxStages = 3
  MaxPresses = 3
  MaxStarts = 1
INVARIANT
  FormUsable
CHECK_DEADLOCK FALSE
