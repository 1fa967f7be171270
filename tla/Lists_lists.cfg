CONSTANTS
  Rows = {1, 2, 3}
  Sorts = {"recent", "rating", "name"}
  Limit = 1
  Grain = 2
  MaxClock = 5
  Names = {1, 2}
  Ratings <- TwoRatings
  Spaced = TRUE
  None = None
  Clients = {c1, c2}
  MaxCalls = 2
  Window = 3
  Deadline = 1
  Second = 2
  Capacity = 4
  Costs = {4, 5}
  Refill = 2
  Error = 1
  LastTick = 6
  Unset = Unset
SPECIFICATION ListsSpec
CHECK_DEADLOCK FALSE
INVARIANTS PagesInOrder NothingSkipped NeverOverAdmits RetryAfterHolds
PROPERTIES ReadingEnds
