CONSTANTS
  Workers = {w1, w2}
  Ceiling = 2
  Tries = 2
  Scenarios <- Stalls
  Reconciler = Reconciler
  None = None
SPECIFICATION Spec
CHECK_DEADLOCK FALSE
PROPERTIES FailedNotApplied
