CONSTANTS
  Products = {p1}
  Relays = {r1}
  Conns = {c1, c2}
  None = None
  BatchSize = 2
  MaxAttempts = 2
  MaxRows = 2
  MaxKills = 1
  MaxRebuilds = 0
CHECK_DEADLOCK FALSE
SPECIFICATION Spec
INVARIANTS KillConverges
