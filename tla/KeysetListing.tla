---------------------------- MODULE KeysetListing ----------------------------
(***************************************************************************)
(* Reading a list page by page while it changes: listProducts              *)
(* (packages/reviews/src/products.ts), listReviewsForProduct (reviews.ts)  *)
(* and listReviewsForModeration (moderation.ts). A page is one statement;  *)
(* between pages reviews and products are written and the rating           *)
(* projection moves.                                                       *)
(*                                                                         *)
(* A row is its number in the direction the ORDER BY takes its slug or     *)
(* token, which are unique and never change. A sort key is a pair, smaller *)
(* first. PostgreSQL keeps created_at in microseconds; the driver returns  *)
(* a Date, in milliseconds, and that is what a cursor carries.             *)
(***************************************************************************)
EXTENDS Integers, FiniteSets

CONSTANTS
  Rows,        \* rows of the listed table, as numbers
  Sorts,       \* the sorts read: "recent" is the reviews' and moderators' only one
  Limit,       \* input.limit
  Grain,       \* ticks of the database clock in one millisecond
  MaxClock,    \* bound: the last tick of the database clock
  Names,       \* product names, as numbers
  Ratings,     \* <<rating_average, review_count>>, as a pair of integers
  Spaced,      \* TRUE: no two rows are created in the same millisecond
  None         \* no cursor

ASSUME ListingAssumption ==
  /\ Rows \subseteq Int /\ IsFiniteSet(Rows)
  /\ Limit \in Nat \ {0} /\ Grain \in Nat \ {0} /\ MaxClock \in Nat
  /\ Names \subseteq Int /\ Names # {} /\ Ratings \subseteq Int \X Int /\ <<-1, 0>> \in Ratings
  /\ Sorts \subseteq {"rating", "recent", "name"} /\ Spaced \in BOOLEAN
  /\ None \notin [key : Int \X Int, row : Rows]

VARIABLES
  stored,    \* rows ever written
  listed,    \* stored rows that pass the filter: published, matching, not deleted
  created,   \* created_at
  name,      \* name
  rating,    \* rating_average and review_count, <<-1, 0>> for none
  sort,      \* the sort the reader asked for
  cursor,    \* nextCursor of the last page: the sort key and the row it names
  page,      \* the rows of the last page
  got,       \* the rows of the pages before it
  reader,    \* "idle", "reading" while there is a next page, "ended"
  (* history *)
  held       \* rows listed and not moved since the first page

tableVars  == <<stored, listed, created, name, rating>>
readerVars == <<sort, cursor, page, got, reader>>
vars == <<tableVars, readerVars, held>>

Unrated == <<-1, 0>>
Millis(t) == t - (t % Grain)

\* The values of a column: one of them, unless the reader's sort looks at it.
Read(s, values) == IF sort = s THEN values ELSE {CHOOSE x \in values : TRUE}

Init ==
  /\ stored = {} /\ listed = {}
  /\ created = [i \in Rows |-> 0]
  /\ sort \in Sorts
  /\ name \in [Rows -> Read("name", Names)]
  /\ rating = [i \in Rows |-> Unrated]
  /\ cursor = None /\ page = {} /\ got = {} /\ reader = "idle"
  /\ held = {}

-----------------------------------------------------------------------------
(* The ORDER BY of each sort and the WHERE that resumes it.                  *)

SortKey(i) ==
  CASE sort = "rating" -> << -rating[i][1], -rating[i][2] >>
    [] sort = "recent" -> << -created[i], 0 >>
    [] sort = "name"   -> << name[i], 0 >>

\* The key a cursor carries for the last row of a page.
CursorKey(i) == IF sort = "recent" THEN << -Millis(created[i]), 0 >> ELSE SortKey(i)

Precedes(k, i, l, j) ==
  \/ k[1] < l[1]
  \/ k[1] = l[1] /\ k[2] < l[2]
  \/ k = l /\ i < j

Above(i, j) == Precedes(SortKey(i), i, SortKey(j), j)

\* Mutants: rows that tie with the cursor's are dropped; the cursor's own row is
\* not.
ResumesUntied(i) == cursor = None \/ Precedes(cursor.key, 0, SortKey(i), 0)
ResumesInclusive(i) ==
  \/ cursor = None
  \/ cursor.row = i \/ Precedes(cursor.key, cursor.row, SortKey(i), i)

\* Mutant: the filter is dropped when the cursor's row is gone from the list.
ResumesAnew(i) ==
  cursor = None \/ cursor.row \notin listed \/ Precedes(cursor.key, cursor.row, SortKey(i), i)

\* Row i passes the cursor filter.
Resumes(i) == cursor = None \/ Precedes(cursor.key, cursor.row, SortKey(i), i)

\* P is the first Limit rows of S.
IsPage(P, S) ==
  /\ P \subseteq S
  /\ Cardinality(P) = IF Cardinality(S) > Limit THEN Limit ELSE Cardinality(S)
  /\ \A i \in P, j \in S \ P : Above(i, j)

\* page[page.length - 1].
LastRow(P, S) == CHOOSE z \in P : \A i \in P \ {z} : Above(i, z)

\* The statement and what is made of its rows: Limit + 1 are read, so that more
\* than a page says there is a next one.
Load ==
  LET S == {i \in listed : Resumes(i)} IN
  \E P \in SUBSET S :
    /\ IsPage(P, S)
    /\ page' = P /\ got' = got \cup page
    /\ reader' = IF Cardinality(S) > Limit THEN "reading" ELSE "ended"
    /\ cursor' = IF Cardinality(S) > Limit
                   THEN LET z == LastRow(P, S)
                        IN [key |-> CursorKey(z), row |-> z]
                   ELSE None
    /\ UNCHANGED <<tableVars, sort>>

\* The first page; the cursor of another sort is rejected, so a reader who wants
\* one begins again.
Open ==
  /\ reader = "idle"
  /\ Load
  /\ held' = listed

More == reader = "reading" /\ Load /\ UNCHANGED held

\* The reader leaves a list it has read to its end, to read it again.
Leave ==
  /\ reader = "ended"
  /\ reader' = "idle" /\ page' = {} /\ got' = {} /\ held' = {}
  /\ UNCHANGED <<tableVars, sort, cursor>>

-----------------------------------------------------------------------------
(* The writers.                                                              *)

\* created_at is now() at the start of the inserting transaction, which may have
\* waited since: the row may appear below rows that began after it.
Insert(i) ==
  /\ i \notin stored
  /\ \E t \in Read("recent", 0..MaxClock) :
       /\ Spaced /\ sort = "recent" => \A j \in stored : Millis(created[j]) # Millis(t)
       /\ created' = [created EXCEPT ![i] = t]
  /\ stored' = stored \cup {i} /\ listed' = listed \cup {i}
  /\ UNCHANGED <<name, rating, readerVars, held>>

\* Rejected by a moderator, or no longer matching the filter; and back.
Hide(i) ==
  /\ i \in listed
  /\ listed' = listed \ {i} /\ held' = held \ {i}
  /\ UNCHANGED <<stored, created, name, rating, readerVars>>

Show(i) ==
  /\ i \in stored \ listed
  /\ listed' = listed \cup {i}
  /\ UNCHANGED <<stored, created, name, rating, readerVars, held>>

\* A row moved, when the sort it is read under looks at what changed.
Moved(i, s) == held' = IF sort = s THEN held \ {i} ELSE held

\* A recompute of the rating projection.
Rerate(i, r) ==
  /\ i \in stored /\ rating[i] # r
  /\ rating' = [rating EXCEPT ![i] = r]
  /\ Moved(i, "rating")
  /\ UNCHANGED <<stored, listed, created, name, readerVars>>

\* updateProduct with a name.
Rename(i, n) ==
  /\ i \in stored /\ name[i] # n
  /\ name' = [name EXCEPT ![i] = n]
  /\ Moved(i, "name")
  /\ UNCHANGED <<stored, listed, created, rating, readerVars>>

Write(i) ==
  \/ Insert(i) \/ Hide(i) \/ Show(i)
  \/ \E r \in Read("rating", Ratings) : Rerate(i, r)
  \/ \E n \in Read("name", Names) : Rename(i, n)

Next ==
  \/ Open \/ More \/ Leave
  \/ \E i \in Rows : Write(i)

Spec == Init /\ [][Next]_vars

\* A reader who has a next page asks for it.
ReadsOn == WF_vars(More)

-----------------------------------------------------------------------------
TypeOK ==
  /\ listed \subseteq stored /\ stored \subseteq Rows /\ held \subseteq listed
  /\ created \in [Rows -> 0..MaxClock]
  /\ name \in [Rows -> Names] /\ rating \in [Rows -> Ratings]
  /\ sort \in Sorts /\ reader \in {"idle", "reading", "ended"}
  /\ cursor \in [key : Int \X Int, row : Rows] \cup {None}
  /\ reader = "reading" <=> cursor # None
  /\ page \subseteq stored /\ Cardinality(page) <= Limit /\ got \subseteq stored

\* products.ts:321-350 mirrors the ORDER BY column for column: appended to one
\* another, the pages are in the order of the sort and no row comes twice, for
\* the rows that did not move while they were read.
PagesInOrder == \A i \in got \cap held, j \in page \cap held : Above(i, j)

\* reviews.ts:259 ("never skip or repeat a row"): once nextCursor is null, every
\* row that was listed all along and did not move is on some page.
NothingSkipped == reader = "ended" => held \subseteq got \cup page

\* Asking for the next page comes to an end, however many rows arrive meanwhile:
\* a cursor of "recent" only moves down.
ReadingEnds == (reader = "reading" /\ sort = "recent") ~> reader = "ended"
=============================================================================
