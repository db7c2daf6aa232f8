SPECIFICATION PlayedSpec
CONSTANTS
  Low = 1
  High = 9
  Trick = 3
  MaxGamers = 3
  Hand2 = 3
  Hand3 = 2
  Hand4 = 2
ACTION_CONSTRAINT
  ExtremesDealt
INVARIANTS
  TypeOK
  CardConservation
  NoEmptyHandWhileDeck
  BlockedBeforeMinimumIsOver
  SomeoneCanAct
  LossMeansBlocked
  OneLedgerEntry
  LedgerMatchesOutcome
PROPERTIES
  ImplementsCoopGame
  PlayedGameEnds
CHECK_DEADLOCK FALSE
