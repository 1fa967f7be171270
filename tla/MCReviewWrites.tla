--------------------------- MODULE MCReviewWrites ---------------------------
\* Small instances of ReviewWrites for TLC.
EXTENDS ReviewWrites, TLC

Symmetry == Permutations(Requests) \cup Permutations(Authors) \cup Permutations(Contents)
              \cup Permutations(Tokens)
=============================================================================
