--------------------------- MODULE MCRatingOutbox ---------------------------
\* Small instances of RatingOutbox for TLC.
EXTENDS RatingOutbox, TLC

\* Interchangeable products, workers and connections: the safety runs, whose
\* properties name none of them, explore one behaviour per class.
Symmetry == Permutations(Products) \cup Permutations(Relays) \cup Permutations(Conns)
=============================================================================
