CONSTANTS
  Rows = {1, 2, 3}
  Sorts = {"recent"}
  Limit = 1
  Grain = 2
  MaxClock = 3
  Names = {1}
  Ratings <- NoRatings
  Spaced = FALSE
  None = None
SPECIFICATION Spec
CHECK_DEADLOCK FALSE
INVARIANTS NothingSkipped
