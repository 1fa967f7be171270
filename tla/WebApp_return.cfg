CONSTANTS
  Journeys <- ModerationOnly
  MaxDepth = 3
  MaxWrites = 2
  Texts = {t1}
  Reviews = {r1, r2}
  Words = {w1}
  Names = {n1}
SPECIFICATION Spec
CHECK_DEADLOCK FALSE
INVARIANT ReturnResumes
