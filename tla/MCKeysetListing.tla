-------------------------- MODULE MCKeysetListing --------------------------
\* Small instances of KeysetListing for TLC.
EXTENDS KeysetListing

NoRatings == {Unrated}
=============================================================================
