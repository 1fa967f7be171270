CONSTANTS
  Journeys <- AllJourneys
  MaxDepth = 3
  MaxWrites = 2
  Texts = {t1, t2}
  Reviews = {r1, r2}
  Words = {w1}
  Names = {n1, n2}
SPECIFICATION Spec
CHECK_DEADLOCK FALSE
SYMMETRY Symmetry
CONSTRAINT Bounded
INVARIANTS TypeOK NothingTypedIsLost AtRestFresh SlugIsTheServers SpinnersHaveCalls
