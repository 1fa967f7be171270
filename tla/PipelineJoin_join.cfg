CONSTANTS
  Owned = {b1, b2}
  Delegated = {d1}
  Workers = {w1, w2}
  Ceiling = 2
  Terminal = TRUE
  MaxFaults = 1
  None = None
SPECIFICATION FairSpec
CHECK_DEADLOCK FALSE
INVARIANTS JoinOnce JoinMeansAll
PROPERTIES BranchesSettle JoinContinues
