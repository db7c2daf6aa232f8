SPECIFICATION Spec
CONSTANTS
  Addresses = {ip1}
  MaxTokens = 2
  RefillInterval = 3
  MaxRestarts = 1
  Threads = {t1, t2}
  Names = {n1, n2}
  Passwords = {none, p1, p2}
  NoPassword = none
  MaxRequests = 3
SYMMETRY Symmetry
INVARIANTS
  TypeOK
  OneRowPerName
  TokensAreEarned
  SlidingLimit
  RefusedOnlyWhenBusy
