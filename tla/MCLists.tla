------------------------------ MODULE MCLists ------------------------------
\* Small instances of the keyset listings and of the rate limiters, which share
\* nothing, one in a run of its own each: part says which.
EXTENDS KeysetListing, RateLimits

VARIABLE part

TwoRatings == {Unrated, <<3, 1>>, <<4, 1>>}

\* Where the other rests: its time is over.
RestPages ==
  /\ stored = {} /\ listed = {} /\ created = [i \in Rows |-> 0] /\ sort = "recent"
  /\ name = [i \in Rows |-> 1] /\ rating = [i \in Rows |-> Unrated]
  /\ cursor = None /\ page = {} /\ got = {} /\ reader = "idle" /\ held = {}
RestLimits ==
  /\ kind = "bucket" /\ clock = LastTick /\ up = TRUE
  /\ window = NoWindow /\ bucket = NoBucket
  /\ call = [c \in Clients |-> NoCall] /\ late = 0
  /\ granted = {} /\ admitted = 0 /\ level = Capacity /\ hint = Unset

ListsInit ==
  \/ part = "pages" /\ Init /\ RestLimits
  \/ part = "limits" /\ LimitsInit /\ RestPages

ListsNext ==
  /\ part' = part
  /\ \/ part = "pages" /\ Next /\ UNCHANGED limitVars
     \/ part = "limits" /\ LimitsNext /\ UNCHANGED vars

ListsSpec ==
  /\ ListsInit /\ [][ListsNext]_<<part, vars, limitVars>>
  /\ ReadsOn
=============================================================================
