CONSTANTS
  Workers = {w1, w2}
  Ceiling = 4
  Tries = 2
  Scenarios <- Each
  Reconciler = Reconciler
  None = None
SPECIFICATION FairSpec
CHECK_DEADLOCK FALSE
INVARIANTS CallsBounded OneResult
PROPERTIES FailedIsFinal StartedSettles SuccessorsEnsured Recovers
