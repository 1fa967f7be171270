CONSTANTS
  Requests = {q1, q2, q3}
  Authors = {a1}
  Contents = {x, y}
  Tokens = {t1, t2, t3}
  None = None
SYMMETRY Symmetry
SPECIFICATION Spec
CHECK_DEADLOCK FALSE
INVARIANTS OneReviewEach NoDeadlock
PROPERTIES ImplementsAtomicReviews
