SPECIFICATION Spec
CONSTANTS
  u1 = u1
  u2 = u2
  Users = {u1, u2}
  Guest = Guest
  MaxSeats = 3
  FullHand = 8
  MaxGames = 2
  MaxRestarts = 1
  MaxFaults = 0
SYMMETRY Interchangeable
PROPERTY
  LostGamesStayInHistory
CHECK_DEADLOCK FALSE
