SPECIFICATION Spec
CONSTANTS
  Clients = {a, b}
  Readers = {a}
  Limit = 2
  MaxSeats = 2
  MaxGames = 1
  MaxMessages = 2
  MaxRestarts = 0
  MaxFaults = 0
INVARIANT
  NoMessagePassedOver
CHECK_DEADLOCK FALSE
