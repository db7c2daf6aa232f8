SPECIFICATION Spec
CONSTANTS
  u1 = u1
  u2 = u2
  Users = {u1, u2}
  Guest = Guest
  MaxSeats = 3
  FullHand = 8
  MaxGames = 2
  MaxRestarts = 1
  MaxFaults = 1
SYMMETRY Interchangeable
INVARIANTS
  TypeOK
  OwnRowUntilDisturbed
  CountedAtMostOnce
  CountedUnlessDisturbed
PROPERTIES
  RecordedBeforeCounted
  FirstOutcomeStands
  ScoreFollowsResult
CHECK_DEADLOCK FALSE
