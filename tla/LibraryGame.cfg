SPECIFICATION Spec
CONSTANTS
  Low = 1
  High = 8
  Trick = 2
  MaxHandSize = 2
  MaxPlayers = 4
INVARIANTS
  CardsAccounted
  HandOwesRefused
PROPERTIES
  SoloIsDecided
CHECK_DEADLOCK FALSE
