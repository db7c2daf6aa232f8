SPECIFICATION Spec
CONSTANTS
  MaxGames = 2
  MaxStages = 4
  MaxPresses = 3
  MaxStarts = 1
INVARIANTS
  TypeOK
  OneDialog
  GreetsWhoJoins
  BoardOnlyAfterStart
PROPERTIES
  WaiterReachesBoard
  FirstEndIsShown
  SnapshotSettles
CHECK_DEADLOCK FALSE
