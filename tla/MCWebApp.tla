------------------------------ MODULE MCWebApp ------------------------------
\* Small instances of WebApp for TLC.
EXTENDS WebApp, TLC

Browses == {"home", "signIn"}
Writes == Browses \cup {"product", "new", "edit"}
Edits == Browses \cup {"product", "edit"}
Moderates == Browses \cup {"moderation"}
Creates == Browses \cup {"create"}
Amends == Browses \cup {"amend", "product"}

AllJourneys == {Browses, Writes, Edits, Moderates, Creates, Amends}
ModerationOnly == {Moderates}

\* Bound: where new reviews are written a single text is, be it any of them; and
\* there alone a behaviour goes on after the server's review was changed without
\* this tab being told, and while there is one.
Said ==
  {draft, typed, mine, reviews.own}
    \cup (IF OnProduct THEN {view.text} ELSE {})
    \cup {c.of.text : c \in {d \in calls : d.op \in {"submit", "update"}}}
Bounded ==
  IF "new" \in journey THEN Cardinality(Said \ {NoText}) <= 1 /\ (foreign => mine # NoText)
                       ELSE ~foreign

Symmetry == Permutations(Texts) \cup Permutations(Reviews) \cup Permutations(Names)
=============================================================================
