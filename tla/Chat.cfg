SPECIFICATION Spec
CONSTANTS
  Clients = {a, b}
  Readers = {a}
  Limit = 1
  MaxSeats = 2
  MaxGames = 2
  MaxMessages = 2
  MaxRestarts = 1
  MaxFaults = 1
INVARIANTS
  TypeOK
  ShownInOrder
  OwnIdsOnly
  SeatIsOwn
PROPERTIES
  NewestIsShown
CHECK_DEADLOCK FALSE
