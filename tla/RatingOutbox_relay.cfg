CONSTANTS
  Products = {p1}
  Relays = {r1, r2}
  Conns = {c1, c2}
  None = None
  BatchSize = 2
  MaxAttempts = 2
  MaxRows = 2
  MaxKills = 1
  MaxRebuilds = 1
SPECIFICATION FairSpec
CHECK_DEADLOCK FALSE
INVARIANTS SettledIsFresh
PROPERTIES ParkingLeavesLetter ImplementsAtLeastOnce EventuallyShown
