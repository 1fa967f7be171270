----------------------------- MODULE ListsProofs -----------------------------
(***************************************************************************)
(* The keyset listings and the rate limiters, which share nothing.         *)
(*                                                                         *)
(* KeysetListing for any finite set of rows, page size, clock and columns: *)
(* ListingInv is inductive; pages come in order and no row twice; and none *)
(* is skipped where the cursor carries the sort key exactly, or no two     *)
(* rows share the millisecond it carries.                                  *)
(*                                                                         *)
(* RateLimits for any clients, limits, refill and clock: LimitsInv is      *)
(* inductive; Redis never admits more than the limit in a window nor       *)
(* spends tokens it does not have, and a refusal names the very            *)
(* millisecond from which a call would be admitted.                        *)
(***************************************************************************)
EXTENDS KeysetListing, RateLimits, FiniteSetTheorems, TLAPS

Keys == Int \X Int

\* Row i is not after the cursor: a page that follows it does not return i.
Passed(i) ==
  \/ Precedes(SortKey(i), i, cursor.key, cursor.row)
  \/ SortKey(i) = cursor.key /\ i = cursor.row

\* A cursor tells the rows before it from those after it.
Exact == Spaced \/ sort # "recent"

\* A reader that is not reading has no cursor; one that is idle has no page.
ReaderInv == reader = "idle" => page = {} /\ got = {} /\ held = {}

\* Under Spaced, rows are told apart by what a cursor keeps of created_at.
SpacedInv ==
  Spaced /\ sort = "recent" =>
    \A i, j \in stored : Millis(created[i]) = Millis(created[j]) => i = j

\* Every row read so far that did not move is before the cursor.
PassedInv == cursor # None => \A i \in (got \cup page) \cap held : Passed(i)

\* Every row still to be read that did not move is after it.
AheadInv == cursor # None /\ Exact => \A i \in held \ (got \cup page) : Resumes(i)

ListingInv == TypeOK /\ ReaderInv /\ SpacedInv /\ PassedInv /\ AheadInv /\ PagesInOrder
          /\ (Exact => NothingSkipped)

-----------------------------------------------------------------------------
(* Precedes is a strict total order on keys and rows. *)

LEMMA PrecedesTransitive ==
  ASSUME NEW k \in Keys, NEW l \in Keys, NEW m \in Keys,
         NEW i \in Int, NEW j \in Int, NEW n \in Int,
         Precedes(k, i, l, j), Precedes(l, j, m, n)
  PROVE  Precedes(k, i, m, n)
BY DEF Precedes, Keys

LEMMA PrecedesIrreflexive ==
  ASSUME NEW k \in Keys, NEW i \in Int
  PROVE  ~Precedes(k, i, k, i)
BY DEF Precedes, Keys

LEMMA PrecedesTotal ==
  ASSUME NEW k \in Keys, NEW l \in Keys, NEW i \in Int, NEW j \in Int, i # j
  PROVE  Precedes(k, i, l, j) \/ Precedes(l, j, k, i)
BY DEF Precedes, Keys

\* The start of a millisecond is in it, and after every earlier millisecond.
LEMMA MillisFloor ==
  ASSUME NEW a \in Nat, NEW b \in Nat
  PROVE  /\ Millis(a) \in Nat /\ Millis(a) <= a
         /\ a < b /\ Millis(a) # Millis(b) => a < Millis(b)
<1> DEFINE g == Grain
<1>1. g \in Nat /\ g > 0
  BY ListingAssumption
<1> HIDE DEF g
<1>2. /\ a = g * (a \div g) + (a % g) /\ a \div g \in Nat /\ a % g \in Nat /\ a % g < g
      /\ b = g * (b \div g) + (b % g) /\ b \div g \in Nat /\ b % g \in Nat /\ b % g < g
  BY <1>1
<1>3. Millis(a) = a - (a % g) /\ Millis(b) = b - (b % g)
  BY DEF Millis, g
<1> DEFINE m == a \div g
           n == b \div g
<1>4. Millis(a) = g * m /\ Millis(b) = g * n /\ m \in Nat /\ n \in Nat
  BY <1>1, <1>2, <1>3
<1>5. Millis(a) \in Nat /\ Millis(a) <= a
  BY <1>1, <1>2, <1>3
<1>6. ASSUME a < b, Millis(a) # Millis(b) PROVE a < Millis(b)
  <2>1. a < g * m + g /\ g * n <= b /\ b < g * n + g /\ g * m <= a
    BY <1>1, <1>2, <1>3, <1>4
  <2> HIDE DEF m, n
  <2>2. m # n
    BY <1>4, <1>6
  <2>3. CASE n < m
    <3>1. g * (n + 1) <= g * m /\ g * (n + 1) = g * n + g
      BY <1>1, <1>4, <2>3
    <3> QED BY <1>1, <1>4, <1>6, <2>1, <3>1
  <2>4. CASE m < n
    <3>1. g * (m + 1) <= g * n /\ g * (m + 1) = g * m + g
      BY <1>1, <1>4, <2>4
    <3> QED BY <1>1, <1>4, <2>1, <3>1
  <2> QED BY <1>4, <2>2, <2>3, <2>4
<1> QED BY <1>5, <1>6

LEMMA KeyTypes ==
  ASSUME TypeOK, NEW i \in Rows
  PROVE  SortKey(i) \in Keys /\ CursorKey(i) \in Keys
<1>1. i \in Int /\ name[i] \in Int /\ created[i] \in Nat
  <2>1. Rows \subseteq Int /\ Names \subseteq Int /\ MaxClock \in Nat
    BY ListingAssumption
  <2>2. name[i] \in Names /\ created[i] \in 0 .. MaxClock
    BY DEF TypeOK
  <2>3. i \in Int
    BY <2>1
  <2>4. name[i] \in Int
    BY <2>1, <2>2
  <2>5. created[i] \in Nat
    BY <2>1, <2>2
  <2> QED BY <2>3, <2>4, <2>5
<1>2. rating[i] \in Int \X Int
  BY ListingAssumption DEF TypeOK
<1>3. Millis(created[i]) \in Nat
  BY <1>1, MillisFloor
<1>4. sort \in {"rating", "recent", "name"}
  BY ListingAssumption DEF TypeOK
<1> QED BY <1>1, <1>2, <1>3, <1>4 DEF SortKey, CursorKey, Keys

\* Above orders the rows, whatever the sort.
LEMMA AboveOrders ==
  ASSUME TypeOK
  PROVE  /\ \A i, j, k \in Rows : Above(i, j) /\ Above(j, k) => Above(i, k)
         /\ \A i \in Rows : ~Above(i, i)
         /\ \A i, j \in Rows : i # j => Above(i, j) \/ Above(j, i)
<1>1. \A i \in Rows : i \in Int /\ SortKey(i) \in Keys
  BY KeyTypes, ListingAssumption
<1>2. ASSUME NEW i \in Rows, NEW j \in Rows, NEW k \in Rows, Above(i, j), Above(j, k)
      PROVE  Above(i, k)
  BY <1>1, <1>2, PrecedesTransitive DEF Above
<1>3. ASSUME NEW i \in Rows PROVE ~Above(i, i)
  BY <1>1, PrecedesIrreflexive DEF Above
<1>4. ASSUME NEW i \in Rows, NEW j \in Rows, i # j PROVE Above(i, j) \/ Above(j, i)
  BY <1>1, <1>4, PrecedesTotal DEF Above
<1> QED BY <1>2, <1>3, <1>4

\* A page that is not empty has a last row: one with fewest rows below it.
LEMMA LastRowIsLast ==
  ASSUME TypeOK, NEW S, NEW P \in SUBSET Rows, P # {}
  PROVE  /\ LastRow(P, S) \in P /\ LastRow(P, S) \in Rows
         /\ \A i \in P \ {LastRow(P, S)} : Above(i, LastRow(P, S))
<1> DEFINE Below(z) == {i \in P : Above(z, i)}
           R == StrictSubsetOrdering(P)
           T == {Below(z) : z \in P}
<1>1. IsFiniteSet(P)
  BY ListingAssumption, FS_Subset
<1>2. IsWellFoundedOn(R, SUBSET P)
  BY <1>1, FS_StrictSubsetOrderingWellFounded, FS_FiniteSubsetsOfFinite
<1>3. T \subseteq SUBSET P /\ T # {}
  OBVIOUS
<1>4. PICK B \in T : \A C \in T : <<C, B>> \notin R
  <2> HIDE DEF R, T
  <2> QED BY <1>2, <1>3, WFMin
<1>5. PICK z \in P : B = Below(z)
  OBVIOUS
<1>6. \A y \in P : ~Above(z, y)
  <2> SUFFICES ASSUME NEW y \in P, Above(z, y) PROVE FALSE
    OBVIOUS
  <2>1. Below(y) \subseteq Below(z) /\ y \in Below(z) /\ y \notin Below(y)
    BY AboveOrders
  <2>2. <<Below(y), Below(z)>> \in R
    <3> HIDE DEF Below
    <3>1. Below(y) \in SUBSET P /\ Below(z) \in SUBSET P
      BY <1>3
    <3> QED BY <2>1, <3>1 DEF StrictSubsetOrdering
  <2> QED BY <1>4, <1>5, <2>2
<1>7. \A i \in P \ {z} : Above(i, z)
  BY <1>6, AboveOrders
<1>8. LastRow(P, S) \in P /\ \A i \in P \ {LastRow(P, S)} : Above(i, LastRow(P, S))
  BY <1>7 DEF LastRow
<1> QED BY <1>8

\* What a cursor keeps of a row's key is no smaller than the key.
LEMMA CursorAtRow ==
  ASSUME TypeOK, NEW z \in Rows
  PROVE  SortKey(z) = CursorKey(z) \/ Precedes(SortKey(z), z, CursorKey(z), z)
<1>1. CASE sort # "recent"
  BY <1>1 DEF CursorKey
<1>2. CASE sort = "recent"
  <2>1. MaxClock \in Nat /\ created[z] \in 0 .. MaxClock
    BY ListingAssumption DEF TypeOK
  <2>2. created[z] \in Nat
    BY <2>1
  <2>3. Millis(created[z]) \in Nat /\ Millis(created[z]) <= created[z]
    BY <2>2, MillisFloor
  <2>4. SortKey(z) = << -created[z], 0 >> /\ CursorKey(z) = << -Millis(created[z]), 0 >>
    BY <1>2 DEF SortKey, CursorKey
  <2> QED BY <2>2, <2>3, <2>4 DEF Precedes
<1> QED BY <1>1, <1>2

\* An exact cursor is before every row that its row is above.
LEMMA CursorBeforeRest ==
  ASSUME TypeOK, SpacedInv, Exact, NEW z \in stored, NEW i \in stored, Above(z, i)
  PROVE  Precedes(CursorKey(z), z, SortKey(i), i)
<1>1. CASE sort # "recent"
  BY <1>1 DEF CursorKey, Above
<1>2. CASE sort = "recent"
  <2>1. /\ MaxClock \in Nat /\ created[z] \in 0 .. MaxClock /\ created[i] \in 0 .. MaxClock
        /\ z \in Rows /\ i \in Rows
    BY ListingAssumption DEF TypeOK
  <2>2. created[z] \in Nat /\ created[i] \in Nat
    BY <2>1
  <2>3. z # i
    BY <2>1, AboveOrders
  <2>4. Millis(created[z]) # Millis(created[i])
    BY <1>2, <2>3 DEF SpacedInv, Exact
  <2>5. /\ SortKey(z) = << -created[z], 0 >> /\ SortKey(i) = << -created[i], 0 >>
        /\ CursorKey(z) = << -Millis(created[z]), 0 >>
    BY <1>2 DEF SortKey, CursorKey
  <2>6. created[i] < created[z]
    <3>1. created[i] <= created[z]
      BY <2>2, <2>5 DEF Above, Precedes
    <3>2. created[i] # created[z]
      BY <2>4
    <3> QED BY <2>2, <3>1, <3>2
  <2>7. created[i] < Millis(created[z]) /\ Millis(created[z]) \in Nat
    BY <2>2, <2>4, <2>6, MillisFloor
  <2> QED BY <2>2, <2>5, <2>7 DEF Precedes
<1> QED BY <1>1, <1>2

-----------------------------------------------------------------------------
LEMMA InitInv == Init => ListingInv
<1> SUFFICES ASSUME Init PROVE ListingInv
  OBVIOUS
<1>1. \A s, v : v # {} => Read(s, v) # {} /\ Read(s, v) \subseteq v
  BY DEF Read
<1>2. /\ Unrated \in Ratings /\ Names # {} /\ MaxClock \in Nat /\ Limit \in Nat
  BY ListingAssumption DEF Unrated
<1>3. TypeOK
  <2>1. name \in [Rows -> Names]
    BY <1>1, <1>2 DEF Init
  <2>2. created \in [Rows -> 0 .. MaxClock] /\ rating \in [Rows -> Ratings]
    BY <1>2 DEF Init
  <2>3. Cardinality(page) <= Limit
    BY <1>2, FS_EmptySet DEF Init
  <2> QED BY <2>1, <2>2, <2>3 DEF Init, TypeOK
<1> QED BY <1>3 DEF Init, ListingInv, ReaderInv, SpacedInv, PassedInv, AheadInv, PagesInOrder,
      NothingSkipped

\* A page takes up where the last one ended and leaves a cursor between the rows
\* it returned and those that are left.
LEMMA LoadKeeps ==
  ASSUME ListingInv, Load,
         \/ reader = "idle" /\ held' = listed
         \/ reader = "reading" /\ held' = held
  PROVE  ListingInv'
<1> DEFINE S == {i \in listed : Resumes(i)}
<1>1. PICK P \in SUBSET S :
        /\ IsPage(P, S) /\ page' = P /\ got' = got \cup page
        /\ reader' = IF Cardinality(S) > Limit THEN "reading" ELSE "ended"
        /\ cursor' = IF Cardinality(S) > Limit
                     THEN [key |-> CursorKey(LastRow(P, S)), row |-> LastRow(P, S)]
                     ELSE None
        /\ UNCHANGED <<tableVars, sort>>
  BY DEF Load
<1>2. TypeOK /\ stored \subseteq Rows /\ listed \subseteq stored /\ held \subseteq listed
  BY DEF ListingInv, TypeOK
<1>3. /\ IsFiniteSet(S) /\ IsFiniteSet(P) /\ Limit \in Nat \ {0}
      /\ Cardinality(S) \in Nat /\ Cardinality(P) \in Nat
  BY <1>2, ListingAssumption, FS_Subset, FS_CardinalityType
<1>4. P \subseteq stored /\ Cardinality(P) <= Limit /\ \A j \in P : Resumes(j)
  BY <1>1, <1>2, <1>3 DEF IsPage
<1>5. /\ held' \subseteq listed /\ IsFiniteSet(Rows) /\ Rows \subseteq Int
      /\ held' \cap got' = held \cap got' /\ (cursor = None => got' = {})
  BY <1>1, <1>2, ListingAssumption DEF ListingInv, ReaderInv, TypeOK
<1>6. \A i \in Rows : SortKey(i)' = SortKey(i) /\ CursorKey(i) \in Keys /\ SortKey(i) \in Keys
  BY <1>1, <1>2, KeyTypes DEF SortKey, tableVars
\* Rows already read are above those of this page.
<1>7. \A i \in got' \cap held', j \in P : Above(i, j)
  <2> SUFFICES ASSUME NEW i \in got' \cap held', NEW j \in P PROVE Above(i, j)
    OBVIOUS
  <2>1. cursor # None /\ Passed(i) /\ Precedes(cursor.key, cursor.row, SortKey(j), j)
    BY <1>1, <1>4, <1>5 DEF ListingInv, PassedInv, Resumes
  <2>2. cursor.key \in Keys /\ cursor.row \in Rows /\ i \in Rows /\ j \in Rows
    BY <1>2, <1>4, <1>5, <2>1 DEF TypeOK, Keys
  <2> QED BY <1>5, <1>6, <2>1, <2>2, PrecedesTransitive DEF Passed, Above
\* Rows that did not move and are left are on this page or below it.
<1>8. Exact => \A i \in held' \ (got' \cup P) : i \in S \ P
  <2> SUFFICES ASSUME Exact, NEW i \in held' \ (got' \cup P) PROVE Resumes(i)
    BY <1>5
  <2>1. CASE reader = "idle"
    BY <1>2, <2>1 DEF Resumes, TypeOK
  <2>2. CASE reader = "reading"
    BY <1>1, <1>2, <2>2 DEF ListingInv, AheadInv, Resumes, TypeOK
  <2> QED BY <2>1, <2>2
<1>9. TypeOK' /\ ReaderInv' /\ SpacedInv' /\ PagesInOrder'
  <2>1. cursor' \in [key : Keys, row : Rows] \cup {None} /\ (reader' = "reading" <=> cursor' # None)
    <3>1. CASE Cardinality(S) > Limit
      <4>1. P # {}
        BY <1>1, <1>3, <3>1, FS_EmptySet DEF IsPage
      <4>2. LastRow(P, S) \in Rows
        BY <1>2, <1>4, <4>1, LastRowIsLast
      <4> DEFINE z == LastRow(P, S)
                 k == CursorKey(z)
      <4>3. cursor' = [key |-> k, row |-> z] /\ reader' = "reading"
        BY <1>1, <3>1
      <4>4. k \in Keys /\ z \in Rows
        BY <1>6, <4>2
      <4> HIDE DEF z, k, S
      <4>5. cursor' \in [key : Keys, row : Rows]
        BY <4>3, <4>4
      <4> QED BY <4>3, <4>5, ListingAssumption DEF Keys
    <3>2. CASE ~(Cardinality(S) > Limit)
      BY <1>1, <3>2
    <3> QED BY <3>1, <3>2
  <2>2. TypeOK'
    <3> HIDE DEF S
    <3> QED BY <1>1, <1>2, <1>4, <1>5, <2>1 DEF ListingInv, TypeOK, tableVars, Keys
  <2>3. PagesInOrder'
    BY <1>1, <1>2, <1>5, <1>6, <1>7 DEF PagesInOrder, Above
  <2>4. SpacedInv' /\ ReaderInv'
    BY <1>1 DEF ListingInv, SpacedInv, ReaderInv, tableVars
  <2> QED BY <2>2, <2>3, <2>4
<1>10. CASE Cardinality(S) > Limit
  <2> DEFINE z == LastRow(P, S)
  <2>1. P # {}
    BY <1>1, <1>3, <1>10, FS_EmptySet DEF IsPage
  <2>2. z \in P /\ (\A i \in P \ {z} : Above(i, z)) /\ \A i \in S \ P : Above(z, i)
    BY <1>1, <1>2, <1>4, <2>1, LastRowIsLast DEF IsPage
  <2>3. /\ cursor' = [key |-> CursorKey(z), row |-> z] /\ reader' = "reading"
        /\ z \in Rows /\ z \in Int
    BY <1>1, <1>2, <1>4, <1>5, <1>10, <2>2
  <2> HIDE DEF z, S
  <2>4. PassedInv'
    <3> SUFFICES ASSUME NEW i \in (got' \cup P) \cap held' PROVE Passed(i)'
      BY <1>1 DEF PassedInv
    <3>1. i = z \/ Above(i, z)
      BY <1>7, <2>2
    <3>2. SortKey(z) = CursorKey(z) \/ Precedes(SortKey(z), z, CursorKey(z), z)
      BY <1>2, <2>3, CursorAtRow
    <3>3. i \in Rows /\ i \in Int
      BY <1>2, <1>5
    <3>4. /\ SortKey(i)' = SortKey(i) /\ SortKey(i) \in Keys /\ SortKey(z) \in Keys
          /\ CursorKey(z) \in Keys
      BY <1>6, <2>3, <3>3
    <3>5. CASE i = z
      BY <2>3, <3>2, <3>4, <3>5 DEF Passed
    <3>6. CASE Above(i, z)
      <4>1. Precedes(SortKey(i), i, CursorKey(z), z)
        BY <2>3, <3>2, <3>3, <3>4, <3>6, PrecedesTransitive DEF Above
      <4> QED BY <2>3, <3>4, <4>1 DEF Passed
    <3> QED BY <3>1, <3>5, <3>6
  <2>5. AheadInv'
    <3> SUFFICES ASSUME Exact, NEW i \in held' \ (got' \cup P) PROVE Resumes(i)'
      BY <1>1 DEF AheadInv, Exact
    <3>1. i \in stored /\ z \in stored /\ i \in Rows
      BY <1>2, <1>4, <1>5, <2>2
    <3>2. Precedes(CursorKey(z), z, SortKey(i), i)
      BY <1>2, <1>8, <2>2, <3>1, CursorBeforeRest DEF ListingInv
    <3> QED BY <1>6, <2>3, <3>1, <3>2 DEF Resumes
  <2> QED BY <1>9, <2>3, <2>4, <2>5 DEF ListingInv, NothingSkipped
\* The last page takes all that is left.
<1>11. CASE ~(Cardinality(S) > Limit)
  <2>1. P = S
    BY <1>1, <1>3, <1>11, FS_Subset DEF IsPage
  <2>2. cursor' = None /\ reader' = "ended"
    BY <1>1, <1>11
  <2>3. Exact' => NothingSkipped'
    BY <1>1, <1>8, <2>1 DEF NothingSkipped, Exact
  <2> QED BY <1>9, <2>2, <2>3 DEF ListingInv, PassedInv, AheadInv
<1> QED BY <1>10, <1>11

\* A writer leaves the keys of the rows that it does not move.
LEMMA WriteKeeps ==
  ASSUME ListingInv, TypeOK', SpacedInv', UNCHANGED readerVars, held' \subseteq held,
         \A i \in held' : SortKey(i)' = SortKey(i)
  PROVE  ListingInv'
<1>1. \A i \in held' : (Passed(i)' <=> Passed(i)) /\ (Resumes(i)' <=> Resumes(i))
  BY DEF Passed, Resumes, readerVars
<1>2. PassedInv' /\ AheadInv'
  BY <1>1 DEF ListingInv, PassedInv, AheadInv, Exact, readerVars
<1>3. PagesInOrder'
  BY DEF ListingInv, PagesInOrder, Above, readerVars
<1>4. ReaderInv' /\ (Exact' => NothingSkipped')
  BY DEF ListingInv, ReaderInv, NothingSkipped, Exact, readerVars
<1> QED BY <1>2, <1>3, <1>4 DEF ListingInv

\* Every action preserves the invariant.
LEMMA NextInv == ListingInv /\ [Next]_vars => ListingInv'
<1> SUFFICES ASSUME ListingInv, [Next]_vars PROVE ListingInv'
  OBVIOUS
<1>1. TypeOK /\ SpacedInv /\ Names # {} /\ Ratings # {} /\ 0 .. MaxClock # {}
  BY ListingAssumption DEF ListingInv
<1>2. CASE Open \/ More
  BY <1>2, LoadKeeps DEF Open, More
<1>3. CASE Leave
  <2>1. page' = {} /\ got' = {} /\ held' = {} /\ cursor = None /\ cursor' = None
        /\ reader' = "idle" /\ UNCHANGED <<tableVars, sort>>
    BY <1>1, <1>3 DEF Leave, TypeOK
  <2>2. TypeOK'
    <3>1. Cardinality({}) <= Limit
      BY FS_EmptySet, ListingAssumption
    <3> QED BY <1>1, <2>1, <3>1 DEF TypeOK, tableVars
  <2>3. ReaderInv' /\ PassedInv' /\ AheadInv' /\ PagesInOrder' /\ NothingSkipped'
    BY <2>1 DEF ReaderInv, PassedInv, AheadInv, PagesInOrder, NothingSkipped
  <2>4. SpacedInv'
    BY <1>1, <2>1 DEF SpacedInv, tableVars
  <2> QED BY <2>2, <2>3, <2>4 DEF ListingInv
\* A new row has never been held.
<1>4. ASSUME NEW i \in Rows, Insert(i) PROVE ListingInv'
  <2>1. PICK t \in 0 .. MaxClock :
          /\ Spaced /\ sort = "recent" => \A j \in stored : Millis(created[j]) # Millis(t)
          /\ created' = [created EXCEPT ![i] = t]
    BY <1>1, <1>4 DEF Insert, Read
  <2>2. /\ i \notin stored /\ i \notin held /\ UNCHANGED <<name, rating, sort, held>>
        /\ UNCHANGED readerVars
        /\ stored' = stored \cup {i} /\ listed' = listed \cup {i}
    BY <1>1, <1>4 DEF Insert, TypeOK, readerVars
  <2>3. TypeOK'
    BY <1>1, <2>1, <2>2 DEF TypeOK, readerVars
  <2>4. SpacedInv'
    BY <1>1, <2>1, <2>2 DEF SpacedInv, TypeOK, Millis
  <2>5. \A j \in held' : SortKey(j)' = SortKey(j)
    BY <1>1, <2>1, <2>2 DEF SortKey, TypeOK
  <2> QED BY <2>2, <2>3, <2>4, <2>5, WriteKeeps
<1>5. ASSUME NEW i \in Rows, Hide(i) \/ Show(i) PROVE ListingInv'
  <2>1. TypeOK'
    BY <1>1, <1>5 DEF Hide, Show, TypeOK, readerVars
  <2>2. SpacedInv' /\ UNCHANGED readerVars /\ held' \subseteq held
    BY <1>1, <1>5 DEF Hide, Show, SpacedInv, readerVars
  <2>3. \A j \in held' : SortKey(j)' = SortKey(j)
    BY <1>5 DEF Hide, Show, SortKey, readerVars
  <2> QED BY <2>1, <2>2, <2>3, WriteKeeps
\* A row whose key changes is held no more; another column is not looked at.
<1>6. ASSUME NEW i \in Rows, NEW r \in Ratings, Rerate(i, r) PROVE ListingInv'
  <2>1. TypeOK'
    BY <1>1, <1>6 DEF Rerate, Moved, TypeOK, readerVars
  <2>2. SpacedInv' /\ UNCHANGED readerVars /\ held' \subseteq held
    BY <1>1, <1>6 DEF Rerate, Moved, SpacedInv, readerVars
  <2>3. \A j \in held' : SortKey(j)' = SortKey(j)
    <3>1. sort \in {"rating", "recent", "name"}
      BY <1>1, ListingAssumption DEF TypeOK
    <3>2. \A j \in held' : sort = "rating" => rating'[j] = rating[j]
      BY <1>1, <1>6 DEF Rerate, Moved, TypeOK
    <3> QED BY <1>6, <3>1, <3>2 DEF Rerate, SortKey, readerVars
  <2> QED BY <2>1, <2>2, <2>3, WriteKeeps
<1>7. ASSUME NEW i \in Rows, NEW n \in Names, Rename(i, n) PROVE ListingInv'
  <2>1. TypeOK'
    BY <1>1, <1>7 DEF Rename, Moved, TypeOK, readerVars
  <2>2. SpacedInv' /\ UNCHANGED readerVars /\ held' \subseteq held
    BY <1>1, <1>7 DEF Rename, Moved, SpacedInv, readerVars
  <2>3. \A j \in held' : SortKey(j)' = SortKey(j)
    BY <1>1, <1>7 DEF Rename, Moved, SortKey, readerVars, TypeOK
  <2> QED BY <2>1, <2>2, <2>3, WriteKeeps
<1>8. CASE UNCHANGED vars
  <2>1. TypeOK' /\ SpacedInv'
    BY <1>1, <1>8 DEF vars, tableVars, readerVars, TypeOK, SpacedInv
  <2>2. \A j \in held' : SortKey(j)' = SortKey(j)
    BY <1>8 DEF vars, tableVars, readerVars, SortKey
  <2> QED BY <1>8, <2>1, <2>2, WriteKeeps DEF vars
<1>9. Read("rating", Ratings) \subseteq Ratings /\ Read("name", Names) \subseteq Names
  BY <1>1 DEF Read
<1> QED BY <1>2, <1>3, <1>4, <1>5, <1>6, <1>7, <1>8, <1>9 DEF Next, Write

LEMMA ListingInductive == Spec => []ListingInv
BY InitInv, NextInv, PTL DEF Spec

-----------------------------------------------------------------------------
\* Every variable keeps its type: a page is within its limit, and the reader has a
\* cursor just when there is a next page.
THEOREM ListingTypes == Spec => []TypeOK
<1>1. ListingInv => TypeOK
  BY DEF ListingInv
<1> QED BY <1>1, ListingInductive, PTL

\* The cursor's WHERE mirrors the ORDER BY of every sort: rows that did not move
\* come in its order and never twice, even where their milliseconds tie.
THEOREM InOrder == Spec => []PagesInOrder
<1>1. ListingInv => PagesInOrder
  BY DEF ListingInv
<1> QED BY <1>1, ListingInductive, PTL

\* No row that was listed all along and did not move is missing from the pages,
\* under the sorts whose cursor carries the whole key; under "recent", whose cursor
\* drops microseconds, when no two rows were created in one millisecond.
THEOREM NoneSkipped == Spec => [](Spaced \/ sort # "recent" => NothingSkipped)
<1>1. ListingInv => (Spaced \/ sort # "recent" => NothingSkipped)
  BY DEF ListingInv, Exact
<1> QED BY <1>1, ListingInductive, PTL

-----------------------------------------------------------------------------
(* The rate limiters. *)

\* No member outlives the key it is in; the counter numbers them apart; and a
\* bucket expires a Ttl after its last call.
KeyInv ==
  /\ \A m \in window.members : /\ m[1] <= clock /\ m[2] <= window.seq
                               /\ m[1] + Window <= window.expires
  /\ bucket.updated <= clock
  /\ bucket.tokens # Unset => bucket.expires = bucket.updated + Ttl
  /\ \A c \in Clients : call[c].st = "sent" /\ kind = "window" => call[c].cost = 0

\* A member of the set, numbered as the history numbers its admission.
Numbered(m) == <<m[1], m[2] + admitted - LiveWindow.seq>>

\* The set in Redis holds the admissions of the last window, each once.
WindowInv == granted = IF kind = "window" THEN {Numbered(m) : m \in InWindow} ELSE {}

\* The bucket in Redis holds what one refilled without interruption would.
BucketInv == kind = "bucket" => level = Refilled

\* While a refusal of the window stands, the set is full until its oldest member
\* leaves, at the millisecond the refusal named.
WindowHint ==
  kind = "window" /\ hint # Unset =>
    /\ hint.cost = 0
    /\ clock < hint.after =>
         /\ Cardinality(InWindow) >= MaxCalls
         /\ \A m \in InWindow : m[1] + Window >= hint.after
         /\ \E m \in InWindow : m[1] + Window = hint.after
    /\ clock >= hint.after => Cardinality(InWindow) < MaxCalls

\* While one of the bucket stands, nothing has touched the bucket since, and its refill
\* comes within an error of the cost at the millisecond named, and not a millisecond
\* before.
BucketHint ==
  kind = "bucket" /\ hint # Unset =>
    /\ bucket.tokens # Unset
    /\ hint.cost <= bucket.tokens + Error + (hint.after - bucket.updated) * Refill
    /\ bucket.tokens + (hint.after - bucket.updated) * Refill < hint.cost + Error + Refill

HintInv == WindowHint /\ BucketHint /\ (hint # Unset => hint.header >= hint.after)

LimitsInv == LimitsTypeOK /\ KeyInv /\ WindowInv /\ BucketInv /\ HintInv

-----------------------------------------------------------------------------
(* Rounding up, and the least of some natural numbers. *)

LEMMA CeilDivBounds ==
  ASSUME NEW a \in Nat \ {0}, NEW b \in Nat \ {0}
  PROVE  /\ CeilDiv(a, b) \in Nat /\ CeilDiv(a, b) >= 1
         /\ a <= b * CeilDiv(a, b) /\ b * CeilDiv(a, b) < a + b
<1> DEFINE x == a + b - 1
           q == x \div b
           r == x % b
<1>1. /\ x \in Nat /\ q \in Nat /\ r \in Nat /\ r < b /\ x = b * q + r
      /\ CeilDiv(a, b) = q
  BY DEF CeilDiv
<1>2. q >= 1 /\ b * q >= a /\ b * q < a + b
  <2> HIDE DEF q, r
  <2>1. b * q + b > x /\ b * q <= x /\ b * q \in Nat
    BY <1>1
  <2>2. b * q >= a /\ b * q < a + b
    BY <1>1, <2>1
  <2>3. q # 0
    BY <1>1, <2>2
  <2> QED BY <1>1, <2>2, <2>3
<1> QED BY <1>1, <1>2

LEMMA LeastNatural ==
  ASSUME NEW S \in SUBSET Nat, S # {}
  PROVE  Min(S) \in S /\ \A n \in S : Min(S) <= n
<1> DEFINE less == {ss \in Nat \X Nat : ss[1] < ss[2]}
<1>1. IsWellFoundedOn(less, Nat)
  BY NatLessThanWellFounded DEF OpToRel
<1> HIDE DEF less
<1>2. PICK m \in S : \A n \in S : ~(<<n, m>> \in less)
  BY <1>1, WFMin
<1>3. ASSUME NEW n \in S PROVE m <= n
  <2>1. n \in Nat /\ m \in Nat
    OBVIOUS
  <2>2. ~(n < m)
    BY <1>2, <2>1 DEF less
  <2> QED BY <2>1, <2>2
<1> QED BY <1>3 DEF Min

-----------------------------------------------------------------------------
(* What is in the window and in the bucket. *)

\* An expired set has no member of the last window, so expiry forgets nothing.
SetIsLive ==
  /\ InWindow = {m \in window.members : m[1] + Window > clock}
  /\ InWindow # {} => LiveWindow = window
  /\ IsFiniteSet(InWindow) /\ Cardinality(InWindow) \in Nat
  /\ Cardinality(InWindow) <= MaxCalls
  /\ \A m \in InWindow : m \in Times \X Nat /\ m[2] <= LiveWindow.seq

LEMMA LiveMembers == LimitsTypeOK /\ KeyInv => SetIsLive
<1> SUFFICES ASSUME LimitsTypeOK, KeyInv PROVE SetIsLive
  OBVIOUS
<1>1. \A m \in window.members : /\ m \in Times \X Nat /\ m[1] \in Nat
                                /\ m[1] + Window <= window.expires
  BY UnitAssumption DEF LimitsTypeOK, KeyInv, Times
<1>2. clock \in Nat /\ window.expires \in Nat /\ Window \in Nat
  BY LimitAssumption, UnitAssumption DEF LimitsTypeOK, Times
<1>3. InWindow = {m \in window.members : m[1] + Window > clock}
  BY <1>1, <1>2 DEF InWindow, LiveWindow, NoWindow
<1>4. InWindow # {} => LiveWindow = window
  BY <1>1, <1>2, <1>3 DEF LiveWindow
<1>5. InWindow \subseteq window.members
  BY <1>3
<1>6. IsFiniteSet(InWindow) /\ Cardinality(InWindow) \in Nat /\ Cardinality(InWindow) <= MaxCalls
  <2>1. IsFiniteSet(window.members) /\ Cardinality(window.members) <= MaxCalls
    BY DEF LimitsTypeOK
  <2>2. Cardinality(window.members) \in Nat
    BY <2>1, FS_CardinalityType
  <2>3. IsFiniteSet(InWindow) /\ Cardinality(InWindow) <= Cardinality(window.members)
    BY <1>5, <2>1, FS_Subset
  <2>4. Cardinality(InWindow) \in Nat
    BY <2>3, FS_CardinalityType
  <2> QED BY <2>1, <2>2, <2>3, <2>4, LimitAssumption
<1> QED BY <1>1, <1>3, <1>4, <1>5, <1>6 DEF KeyInv, SetIsLive

LEMMA LiveMembersNext == LimitsTypeOK' /\ KeyInv' => SetIsLive'
BY LiveMembers, PTL

\* A bucket that expires was full by then, so expiry adds no token.
Regained == bucket.tokens + (clock - bucket.updated) * Refill
BucketIsLive ==
  /\ Refilled \in 0 .. Capacity /\ Reads \subseteq 0 .. Capacity
  /\ bucket.tokens # Unset =>
       /\ Regained \in Nat /\ Refilled = Least(Capacity, Regained)
       /\ \/ Reads = {Capacity} /\ Regained >= Capacity
          \/ Reads = {Least(Capacity, x) : x \in (Regained - Error .. Regained + Error) \cap Nat}
  /\ bucket.tokens = Unset => Refilled = Capacity

LEMMA RefilledAtExpiry == LimitsTypeOK /\ KeyInv => BucketIsLive
<1> SUFFICES ASSUME LimitsTypeOK, KeyInv PROVE BucketIsLive
  OBVIOUS
<1> USE BucketAssumption, ErrorAssumption, UnsetAssumption DEF Least
<1>1. clock \in Nat /\ bucket.updated \in Nat /\ bucket.updated <= clock
  BY UnitAssumption DEF LimitsTypeOK, Times, KeyInv
<1>2. bucket.tokens = Unset \/ bucket.tokens \in 0 .. Capacity
  BY DEF LimitsTypeOK
<1> DEFINE d == clock - bucket.updated
<1>3. /\ d \in Nat /\ d * Refill \in Nat /\ Regained = bucket.tokens + d * Refill
      /\ bucket.tokens # Unset => Regained \in Nat
  BY <1>1, <1>2 DEF Regained
<1>4. CASE bucket.tokens = Unset
  BY <1>4 DEF Refilled, Reads, LiveBucket, NoBucket, BucketIsLive
<1>5. CASE bucket.tokens # Unset /\ ~(clock > bucket.expires)
  <2>1. LiveBucket = bucket /\ Unbounded = Regained
    BY <1>5 DEF LiveBucket, Unbounded, Regained
  <2>2. /\ Refilled = Least(Capacity, Regained) /\ Refilled \in 0 .. Capacity
        /\ Reads = {Least(Capacity, x) : x \in (Regained - Error .. Regained + Error) \cap Nat}
    BY <1>3, <1>5, <2>1 DEF Refilled, Reads
  <2>3. ASSUME NEW x \in Nat PROVE Least(Capacity, x) \in 0 .. Capacity
    OBVIOUS
  <2>4. Reads \subseteq 0 .. Capacity
    BY <2>2, <2>3
  <2> QED BY <1>3, <1>5, <2>2, <2>4 DEF BucketIsLive
<1>6. CASE bucket.tokens # Unset /\ clock > bucket.expires
  <2>1. Refilled = Capacity /\ Reads = {Capacity}
    BY <1>6 DEF Refilled, Reads, LiveBucket, NoBucket
  <2>2. d * Refill >= Capacity
    <3>1. bucket.expires = bucket.updated + Ttl
      BY <1>6 DEF KeyInv
    <3>2. CASE Capacity = 0
      BY <1>3, <3>2
    <3>3. CASE Capacity # 0
      <4> DEFINE c == CeilDiv(Capacity, Refill)
      <4>1. c \in Nat /\ Refill * c >= Capacity /\ Ttl = c * 2
        BY <3>3, CeilDivBounds DEF Ttl
      <4> HIDE DEF c, d
      <4>2. d >= c
        BY <1>1, <1>6, <3>1, <4>1 DEF d
      <4>3. d * Refill >= c * Refill /\ c * Refill = Refill * c /\ d * Refill \in Nat
        BY <1>3, <4>1, <4>2
      <4> QED BY <4>1, <4>3
    <3> QED BY <3>2, <3>3
  <2>3. Regained >= Capacity
    BY <1>2, <1>3, <1>6, <2>2
  <2> HIDE DEF d
  <2> QED BY <1>3, <1>6, <2>1, <2>3 DEF BucketIsLive
<1> QED BY <1>4, <1>5, <1>6

LEMMA RefilledAtExpiryNext == LimitsTypeOK' /\ KeyInv' => BucketIsLive'
BY RefilledAtExpiry, PTL

LEMMA TtlNatural == Ttl \in Nat
<1>1. CASE Capacity = 0
  <2>1. Capacity + Refill - 1 \in Nat /\ Refill \in Nat \ {0}
    BY <1>1, BucketAssumption
  <2> QED BY <2>1 DEF Ttl, CeilDiv
<1>2. CASE Capacity # 0
  BY <1>2, BucketAssumption, CeilDivBounds DEF Ttl
<1> QED BY <1>1, <1>2

-----------------------------------------------------------------------------
(* The initial state, and the steps that leave Redis and the clock alone. *)

LEMMA InitHolds == LimitsInit => LimitsInv
<1> SUFFICES ASSUME LimitsInit PROVE LimitsInv
  OBVIOUS
<1> USE LimitAssumption, BucketAssumption, UnitAssumption, UnsetAssumption
    DEF LimitsInit, NoWindow, NoBucket, NoCall
<1>1. LimitsTypeOK
  <2>1. IsFiniteSet(window.members) /\ Cardinality(window.members) <= MaxCalls
    BY FS_EmptySet
  <2> QED BY <2>1 DEF LimitsTypeOK, Times
<1>2. KeyInv
  BY DEF KeyInv
<1>3. WindowInv
  BY DEF WindowInv, InWindow, LiveWindow
<1>4. BucketInv
  BY <1>1, <1>2, RefilledAtExpiry DEF BucketIsLive, BucketInv
<1>5. HintInv
  BY DEF HintInv, WindowHint, BucketHint
<1> QED BY <1>1, <1>2, <1>3, <1>4, <1>5 DEF LimitsInv

\* What a step owes for its callers; the window's ask for no tokens.
CallsOK ==
  /\ call \in [Clients -> [st : {"idle", "sent", "replied"}, sent : Times, cost : Costs \cup {0}]]
  /\ late \in Nat /\ up \in BOOLEAN
  /\ \A c \in Clients : call[c].st = "sent" /\ kind = "window" => call[c].cost = 0

LEMMA CallsMove ==
  ASSUME LimitsInv, CallsOK',
         UNCHANGED <<kind, clock, window, bucket, granted, admitted, level, hint>>
  PROVE  LimitsInv'
<1>1. LimitsTypeOK'
  BY DEF LimitsInv, LimitsTypeOK, CallsOK
<1>2. KeyInv'
  BY DEF LimitsInv, KeyInv, CallsOK
<1>3. InWindow' = InWindow /\ Refilled' = Refilled /\ LiveWindow' = LiveWindow
  BY DEF InWindow, Refilled, Unbounded, LiveWindow, LiveBucket
<1>4. WindowInv' /\ BucketInv'
  BY <1>3 DEF LimitsInv, WindowInv, BucketInv, Numbered
<1>5. HintInv'
  BY <1>3 DEF LimitsInv, HintInv, WindowHint, BucketHint
<1> QED BY <1>1, <1>2, <1>4, <1>5 DEF LimitsInv

-----------------------------------------------------------------------------
(* An EVAL on each kind of key. *)

LEMMA EvalWindow ==
  ASSUME LimitsInv, CallsOK', kind = "window", Eval(0)
  PROVE  LimitsInv'
<1> USE LimitAssumption, UnitAssumption, UnsetAssumption
<1>1. LimitsTypeOK /\ KeyInv /\ WindowInv /\ HintInv
  BY DEF LimitsInv
<1> DEFINE M == InWindow
           L == LiveWindow
<1>2. /\ M = {m \in window.members : m[1] + Window > clock}
      /\ IsFiniteSet(M) /\ Cardinality(M) \in Nat /\ Cardinality(M) <= MaxCalls
      /\ \A m \in M : m \in Times \X Nat /\ m[2] <= L.seq
      /\ \A m \in M : m[1] <= clock /\ m[1] + Window > clock
  BY <1>1, LiveMembers DEF KeyInv, SetIsLive
<1>3. L.seq \in Nat /\ clock \in Times /\ clock \in Nat /\ clock <= LastTick /\ admitted \in Nat
  BY <1>1 DEF LimitsTypeOK, LiveWindow, NoWindow, Times
<1>4. /\ kind' = "window" /\ clock' = clock /\ bucket' = bucket
      /\ WindowScript
      /\ WindowAdmits <=> Cardinality(M) < MaxCalls
  BY DEF Eval, WindowEval, WindowAdmits
<1> HIDE DEF M, L
<1>5. CASE WindowAdmits
  <2> DEFINE a == <<clock, L.seq + 1>>
  <2>1. window' = [members |-> M \cup {a}, seq |-> L.seq + 1, expires |-> clock + Window]
    BY <1>4, <1>5 DEF WindowScript, AdmittedMember, M, L
  <2>2. /\ admitted' = admitted + 1 /\ granted' = granted \cup {<<clock, admitted + 1>>}
        /\ level' = level /\ hint' = Unset
    BY <1>5 DEF Eval, WindowEval
  <2>3. a \in Times \X Nat /\ a[1] = clock /\ a[2] = L.seq + 1 /\ a \notin M
    BY <1>2, <1>3
  <2>4. IsFiniteSet(M \cup {a}) /\ Cardinality(M \cup {a}) <= MaxCalls
    <3>1. Cardinality(M) < MaxCalls
      BY <1>4, <1>5
    <3>2. IsFiniteSet(M \cup {a}) /\ Cardinality(M \cup {a}) = Cardinality(M) + 1
      BY <1>2, <2>3, FS_AddElement
    <3> QED BY <1>2, <3>1, <3>2
  <2>5. LimitsTypeOK'
    <3>1. window' \in [members : SUBSET (Times \X Nat), seq : Nat, expires : Nat]
      BY <1>2, <1>3, <2>1, <2>3
    <3>2. granted' \subseteq Times \X Nat /\ admitted' \in Nat /\ level' \in 0 .. Capacity
      BY <1>1, <1>3, <2>2, BucketAssumption DEF LimitsTypeOK
    <3> QED BY <1>1, <1>4, <2>1, <2>2, <2>4, <3>1, <3>2 DEF LimitsTypeOK, CallsOK
  <2>6. KeyInv'
    <3>1. ASSUME NEW m \in M \cup {a}
          PROVE  m[1] <= clock /\ m[2] <= L.seq + 1 /\ m[1] + Window <= clock + Window
      <4>1. m[1] \in Nat /\ m[2] \in Nat
        BY <1>2, <2>3 DEF Times
      <4> QED BY <1>2, <1>3, <2>3, <4>1
    <3> QED BY <1>1, <1>4, <2>1, <3>1 DEF KeyInv, CallsOK
  <2>7. InWindow' = M \cup {a}
    <3>1. InWindow' = {m \in window'.members : m[1] + Window > clock'}
      BY <2>5, <2>6, LiveMembersNext DEF SetIsLive
    <3>2. a[1] + Window > clock
      BY <1>3, <2>3
    <3>3. window'.members = M \cup {a}
      BY <2>1
    <3> HIDE DEF a
    <3> QED BY <1>2, <1>4, <3>1, <3>2, <3>3
  <2>8. LiveWindow' = window'
    BY <1>3, <1>4, <2>1 DEF LiveWindow
  <2>9. WindowInv'
    <3>1. granted = {Numbered(m) : m \in M}
      BY <1>1 DEF WindowInv, M, LimitsInv
    <3> DEFINE Renumbered(m) == <<m[1], m[2] + admitted' - LiveWindow'.seq>>
    <3>2. granted' = {Renumbered(m) : m \in InWindow'} => WindowInv'
      BY <1>4 DEF WindowInv, Numbered
    <3>3. LiveWindow'.seq = L.seq + 1 /\ admitted' = admitted + 1
      BY <2>1, <2>2, <2>8
    <3>4. ASSUME NEW m \in M PROVE Renumbered(m) = Numbered(m)
      <4>1. m[2] \in Nat
        BY <1>2
      <4>2. m[2] + (admitted + 1) - (L.seq + 1) = m[2] + admitted - L.seq
        BY <1>3, <4>1
      <4> QED BY <3>3, <4>2 DEF Numbered, L
    <3>5. Renumbered(a) = <<clock, admitted + 1>>
      <4>1. (L.seq + 1) + (admitted + 1) - (L.seq + 1) = admitted + 1
        BY <1>3
      <4> QED BY <2>3, <3>3, <4>1
    <3> HIDE DEF a, Renumbered
    <3>6. {Renumbered(m) : m \in M \cup {a}} = {Numbered(m) : m \in M} \cup {<<clock, admitted + 1>>}
      BY <3>4, <3>5
    <3> QED BY <2>2, <2>7, <3>1, <3>2, <3>6
  <2>10. BucketInv' /\ HintInv'
    BY <1>4, <2>2 DEF BucketInv, HintInv, WindowHint, BucketHint
  <2> QED BY <2>5, <2>6, <2>9, <2>10 DEF LimitsInv
<1>6. CASE ~WindowAdmits
  <2> DEFINE T == {m[1] : m \in M}
             low == Min(T)
             after == clock + WindowRetry
             header == clock + CeilDiv(WindowRetry, Second) * Second
  <2>1. window' = [members |-> M, seq |-> L.seq, expires |-> clock + Window]
    BY <1>3, <1>4, <1>6 DEF WindowScript, M, L
  <2>2. /\ admitted' = admitted /\ granted' = granted /\ level' = level
        /\ hint' = [cost |-> 0, after |-> after, header |-> header]
    BY <1>4, <1>6 DEF Eval, WindowEval, Refusal
  <2>3. T \subseteq Nat /\ T # {}
    <3>1. M # {}
      BY <1>2, <1>4, <1>6, FS_EmptySet
    <3> QED BY <1>2, <3>1 DEF Times
  <2>4. /\ low \in Nat /\ \E m \in M : m[1] = low
        /\ \A m \in M : m[1] \in Nat /\ low <= m[1]
    BY <2>3, LeastNatural
  <2>5. WindowRetry = low + Window - clock
    BY DEF WindowRetry, M
  <2> HIDE DEF T, low
  <2>6. low + Window > clock
    BY <1>2, <2>4
  <2>7. WindowRetry \in Nat \ {0} /\ after = low + Window /\ after > clock /\ after \in Nat
    BY <1>3, <2>4, <2>5, <2>6
  <2>8. header \in Nat /\ header >= after
    <3> DEFINE w == CeilDiv(WindowRetry, Second)
    <3>1. w \in Nat /\ Second * w >= WindowRetry
      BY <2>7, CeilDivBounds
    <3> HIDE DEF w
    <3>2. w * Second = Second * w /\ w * Second \in Nat
      BY <3>1
    <3>3. header = clock + w * Second /\ after = clock + WindowRetry
      BY DEF w
    <3> QED BY <1>3, <2>7, <3>1, <3>2, <3>3
  <2> HIDE DEF after, header
  <2>9. LimitsTypeOK'
    <3>1. window' \in [members : SUBSET (Times \X Nat), seq : Nat, expires : Nat]
      BY <1>2, <1>3, <2>1
    <3>2. hint' \in [cost : Costs \cup {0}, after : Nat, header : Nat]
      BY <2>2, <2>7, <2>8
    <3> QED BY <1>1, <1>2, <1>4, <2>1, <2>2, <3>1, <3>2 DEF LimitsTypeOK, CallsOK
  <2>10. KeyInv'
    <3>1. ASSUME NEW m \in M
          PROVE  m[1] <= clock /\ m[2] <= L.seq /\ m[1] + Window <= clock + Window
      BY <1>2, <1>3, <2>4
    <3> QED BY <1>1, <1>4, <2>1, <3>1 DEF KeyInv, CallsOK
  <2>11. InWindow' = M
    <3>1. InWindow' = {m \in window'.members : m[1] + Window > clock'}
      BY <2>9, <2>10, LiveMembersNext DEF SetIsLive
    <3>2. window'.members = M
      BY <2>1
    <3> QED BY <1>2, <1>4, <3>1, <3>2
  <2>12. LiveWindow' = window'
    BY <1>3, <1>4, <2>1 DEF LiveWindow
  <2>13. WindowInv'
    <3>1. ASSUME NEW m PROVE Numbered(m)' = Numbered(m)
      BY <2>1, <2>2, <2>12 DEF Numbered, L
    <3> QED BY <1>1, <1>4, <2>2, <2>11, <3>1 DEF WindowInv, M
  <2>14. BucketInv'
    BY <1>4 DEF BucketInv
  <2>15. HintInv'
    <3>1. hint'.cost = 0 /\ hint'.after = after /\ hint'.header = header
      BY <2>2
    <3>2. Cardinality(M) >= MaxCalls
      BY <1>2, <1>4, <1>6
    <3>3. \A m \in M : m[1] + Window >= after
      BY <2>4, <2>7
    <3>4. \E m \in M : m[1] + Window = after
      BY <2>4, <2>7
    <3>5. ~(clock' >= after)
      BY <1>3, <1>4, <2>7
    <3>6. WindowHint'
      BY <2>11, <3>1, <3>2, <3>3, <3>4, <3>5 DEF WindowHint
    <3> QED BY <1>4, <2>8, <3>1, <3>6 DEF HintInv, BucketHint
  <2> QED BY <2>9, <2>10, <2>13, <2>14, <2>15 DEF LimitsInv
<1> QED BY <1>5, <1>6

\* What a refusing EVAL leaves of the hint: its wait is that of a level within an
\* error of the one it read.
LEMMA RefusalBounds ==
  ASSUME LimitsTypeOK, NEW cost \in Costs, NEW read \in 0 .. Capacity,
         NEW wait \in BucketRetries(cost, read)
  PROVE  /\ Refusal(cost, wait) \in [cost : Costs \cup {0}, after : Nat, header : Nat]
         /\ Refusal(cost, wait).cost = cost /\ Refusal(cost, wait).after = clock + wait
         /\ Refusal(cost, wait).header >= clock + wait
         /\ wait \in Nat /\ cost <= read + Error + wait * Refill
         /\ read + wait * Refill < cost + Error + Refill
<1> USE BucketAssumption, ErrorAssumption, UnitAssumption
<1>1. cost \in Nat /\ read \in Nat /\ clock \in Nat
  BY DEF LimitsTypeOK, Times
<1>2. PICK x \in read - Error .. read + Error : x < cost /\ wait = CeilDiv(cost - x, Refill)
  BY DEF BucketRetries
<1>3. x \in Int /\ read - Error <= x /\ x <= read + Error /\ cost - x \in Nat \ {0}
  BY <1>1, <1>2
<1>4. wait \in Nat \ {0} /\ cost - x <= Refill * wait /\ Refill * wait < cost - x + Refill
  BY <1>2, <1>3, CeilDivBounds
<1>5. Refill * wait = wait * Refill /\ wait * Refill \in Nat
  BY <1>4
<1>6. cost <= read + Error + wait * Refill /\ read + wait * Refill < cost + Error + Refill
  BY <1>1, <1>3, <1>4, <1>5
<1> DEFINE w == CeilDiv(wait, Second)
<1>7. w \in Nat /\ Second * w >= wait
  BY <1>4, CeilDivBounds
<1>8. Refusal(cost, wait) = [cost |-> cost, after |-> clock + wait, header |-> clock + w * Second]
  BY DEF Refusal
<1> HIDE DEF w
<1>9. w * Second = Second * w /\ w * Second \in Nat
  BY <1>7
<1>10. clock + wait \in Nat /\ clock + w * Second \in Nat /\ clock + w * Second >= clock + wait
  BY <1>1, <1>4, <1>7, <1>9
<1> QED BY <1>4, <1>6, <1>8, <1>10

LEMMA EvalBucket ==
  ASSUME LimitsInv, CallsOK', kind = "bucket", NEW cost \in Costs \cup {0}, Eval(cost)
  PROVE  LimitsInv'
<1> USE BucketAssumption, UnitAssumption, UnsetAssumption
<1>1. /\ LimitsTypeOK /\ KeyInv /\ WindowInv /\ level = Refilled
      /\ Refilled \in 0 .. Capacity /\ Reads \subseteq 0 .. Capacity /\ cost \in Nat
  BY RefilledAtExpiry DEF LimitsInv, BucketInv, BucketIsLive
<1>2. PICK read \in Reads :
        /\ BucketScript(cost, read)
        /\ level' = level + (read - Refilled) - (IF read >= cost THEN cost ELSE 0)
        /\ IF read >= cost THEN hint' = Unset
           ELSE \E wait \in BucketRetries(cost, read) : hint' = Refusal(cost, wait)
        /\ UNCHANGED <<window, granted, admitted>>
  BY DEF Eval, BucketEval
<1>3. read \in 0 .. Capacity
  BY <1>1
<1> DEFINE left == IF read >= cost THEN read - cost ELSE read
<1>4. /\ kind' = "bucket" /\ clock' = clock
      /\ bucket' = [tokens |-> left, updated |-> clock, expires |-> clock + Ttl]
  BY <1>2 DEF Eval, BucketScript
<1>5. left \in 0 .. Capacity /\ level' = left
  <2>1. CASE read >= cost
    BY <1>1, <1>2, <1>3, <2>1
  <2>2. CASE ~(read >= cost)
    BY <1>1, <1>2, <1>3, <2>2
  <2> QED BY <2>1, <2>2
<1>6. clock \in Nat /\ clock \in Times /\ Ttl \in Nat
  BY <1>1, TtlNatural DEF LimitsTypeOK, Times
<1>7. ASSUME hint' # Unset
      PROVE  /\ hint'.header >= hint'.after /\ left = read
             /\ hint' \in [cost : Costs \cup {0}, after : Nat, header : Nat]
             /\ hint'.cost <= read + Error + (hint'.after - clock) * Refill
             /\ read + (hint'.after - clock) * Refill < hint'.cost + Error + Refill
  <2>1. ~(read >= cost) /\ cost \in Costs
    BY <1>1, <1>2, <1>3, <1>7
  <2>2. PICK wait \in BucketRetries(cost, read) : hint' = Refusal(cost, wait)
    BY <1>2, <2>1
  <2>3. /\ wait \in Nat /\ cost <= read + Error + wait * Refill
        /\ read + wait * Refill < cost + Error + Refill
        /\ hint'.cost = cost /\ hint'.after = clock + wait /\ hint'.header >= clock + wait
        /\ hint' \in [cost : Costs \cup {0}, after : Nat, header : Nat]
    BY <1>1, <1>3, <2>1, <2>2, RefusalBounds
  <2>4. hint'.after - clock = wait
    BY <1>6, <2>3
  <2> QED BY <2>1, <2>3, <2>4
<1> HIDE DEF left
<1>8. LimitsTypeOK'
  <2>1. bucket' \in [tokens : 0 .. Capacity \cup {Unset}, updated : Times, expires : Nat]
    BY <1>4, <1>5, <1>6
  <2>2. level' \in 0 .. Capacity
    BY <1>5
  <2>3. hint' \in [cost : Costs \cup {0}, after : Nat, header : Nat] \cup {Unset}
    BY <1>7
  <2> QED BY <1>1, <1>2, <1>4, <2>1, <2>2, <2>3 DEF LimitsTypeOK, CallsOK
<1>9. KeyInv'
  BY <1>1, <1>2, <1>4, <1>6 DEF KeyInv, CallsOK, Ttl
<1>10. bucket'.tokens = left /\ bucket'.tokens # Unset /\ bucket'.updated = clock
  BY <1>4, <1>5
<1>11. Refilled' = left
  <2>1. Regained' = left + (clock - clock) * Refill
    BY <1>4, <1>10 DEF Regained
  <2>2. Regained' = left
    <3>1. clock - clock = 0 /\ 0 * Refill = 0
      BY <1>6
    <3> QED BY <1>5, <2>1, <3>1
  <2>3. Refilled' = Least(Capacity, Regained')
    BY <1>8, <1>9, <1>10, RefilledAtExpiryNext DEF BucketIsLive, Least
  <2> QED BY <1>5, <2>2, <2>3 DEF Least
<1>12. WindowInv' /\ BucketInv'
  BY <1>1, <1>2, <1>4, <1>5, <1>11 DEF WindowInv, BucketInv
<1>13. HintInv'
  <2>1. WindowHint'
    BY <1>4 DEF WindowHint
  <2>2. BucketHint'
    BY <1>7, <1>10 DEF BucketHint
  <2> QED BY <1>7, <2>1, <2>2 DEF HintInv
<1> QED BY <1>8, <1>9, <1>12, <1>13 DEF LimitsInv

-----------------------------------------------------------------------------
(* Time passes. *)

LEMMA TickKeeps ==
  ASSUME LimitsInv, Tick
  PROVE  LimitsInv'
<1> USE LimitAssumption, BucketAssumption, UnitAssumption, UnsetAssumption
<1>1. LimitsTypeOK /\ KeyInv /\ WindowInv /\ BucketInv /\ HintInv
  BY DEF LimitsInv
<1>2. clock \in Nat /\ clock' = clock + 1 /\ clock' \in Times /\ level \in 0 .. Capacity
  BY <1>1 DEF Tick, LimitsTypeOK, Times
<1>3. UNCHANGED <<kind, up, window, bucket, call, late, hint>>
  BY DEF Tick
<1>4. /\ granted' = {g \in granted : g[1] + Window > clock'}
      /\ admitted' = (IF granted' = {} THEN 0 ELSE admitted)
      /\ level' = Least(Capacity, level + Refill)
  BY DEF Tick
<1>5. level' \in 0 .. Capacity /\ level' >= level
  BY <1>2, <1>4 DEF Least
<1>6. LimitsTypeOK'
  BY <1>1, <1>2, <1>3, <1>4, <1>5 DEF LimitsTypeOK
<1>7. KeyInv'
  <2>1. ASSUME NEW m \in window.members PROVE m[1] <= clock'
    <3>1. m[1] \in Nat /\ m[1] <= clock
      BY <1>1 DEF LimitsTypeOK, KeyInv, Times
    <3> QED BY <1>2, <3>1
  <2>2. bucket.updated <= clock'
    <3>1. bucket.updated \in Nat /\ bucket.updated <= clock
      BY <1>1 DEF LimitsTypeOK, KeyInv, Times
    <3> QED BY <1>2, <3>1
  <2> QED BY <1>1, <1>3, <2>1, <2>2 DEF KeyInv, Ttl
<1>8. /\ InWindow' = {m \in InWindow : m[1] + Window > clock'}
      /\ \A m \in InWindow : m[1] \in Nat /\ m[1] + Window > clock
      /\ IsFiniteSet(InWindow) /\ Cardinality(InWindow) \in Nat
      /\ Cardinality(InWindow') \in Nat
      /\ InWindow # {} => LiveWindow = window
      /\ InWindow' # {} => LiveWindow' = window
  <2>1. SetIsLive /\ SetIsLive'
    BY <1>1, <1>6, <1>7, LiveMembers, LiveMembersNext
  <2>2. ASSUME NEW m \in window.members, m[1] + Window > clock'
        PROVE  m[1] + Window > clock
    <3>1. m[1] \in Nat
      BY <1>1 DEF LimitsTypeOK, Times
    <3> QED BY <1>2, <2>2, <3>1
  <2>3. \A m \in InWindow : m[1] \in Nat
    BY <2>1 DEF SetIsLive, Times
  <2> QED BY <1>3, <2>1, <2>2, <2>3 DEF SetIsLive
<1>9. WindowInv'
  <2>1. CASE kind = "bucket"
    BY <1>1, <1>3, <1>4, <2>1 DEF WindowInv
  <2>2. CASE kind = "window"
    <3> DEFINE Renumbered(m) == <<m[1], m[2] + admitted' - LiveWindow'.seq>>
    <3>1. granted' = {Renumbered(m) : m \in InWindow'} => WindowInv'
      BY <1>3, <2>2 DEF WindowInv, Numbered
    <3>2. granted = {Numbered(m) : m \in InWindow} /\ \A m : Numbered(m)[1] = m[1]
      BY <1>1, <2>2 DEF WindowInv, Numbered
    <3>3. granted' = {Numbered(m) : m \in InWindow'}
      BY <1>4, <1>8, <3>2
    <3>4. ASSUME NEW m \in InWindow' PROVE Renumbered(m) = Numbered(m)
      <4>1. LiveWindow' = LiveWindow
        BY <1>8, <3>4
      <4>2. admitted' = admitted
        BY <1>4, <3>3, <3>4
      <4> QED BY <4>1, <4>2 DEF Numbered
    <3> HIDE DEF Renumbered
    <3> QED BY <3>1, <3>3, <3>4
  <2> QED BY <1>1, <2>1, <2>2 DEF LimitsTypeOK, Kinds
<1>10. BucketInv'
  <2> SUFFICES ASSUME kind = "bucket" PROVE level' = Refilled'
    BY <1>3 DEF BucketInv
  <2>1. level = Refilled
    BY <1>1 DEF BucketInv
  <2>2. BucketIsLive /\ BucketIsLive'
    BY <1>1, <1>6, <1>7, RefilledAtExpiry, RefilledAtExpiryNext
  <2>3. CASE bucket.tokens = Unset
    BY <1>3, <1>4, <2>1, <2>2, <2>3 DEF BucketIsLive, Least
  <2>4. CASE bucket.tokens # Unset
    <3> DEFINE d == clock - bucket.updated
               gained == d * Refill
    <3>1. d \in Nat /\ bucket.tokens \in 0 .. Capacity /\ clock' - bucket.updated = d + 1
      BY <1>1, <1>2, <2>4 DEF LimitsTypeOK, KeyInv, Times
    <3>2. Refilled = Least(Capacity, bucket.tokens + gained)
      BY <2>2, <2>4 DEF BucketIsLive, Regained
    <3>3. Refilled' = Least(Capacity, bucket.tokens + (clock' - bucket.updated) * Refill)
      BY <1>3, <2>2, <2>4 DEF BucketIsLive, Regained, Least
    <3> HIDE DEF d
    <3>4. gained \in Nat /\ (d + 1) * Refill = gained + Refill
      BY <3>1
    <3> HIDE DEF gained
    <3> QED BY <1>4, <2>1, <3>1, <3>2, <3>3, <3>4 DEF Least
  <2> QED BY <2>3, <2>4
<1>11. WindowHint'
  <2> SUFFICES ASSUME kind = "window", hint # Unset
               PROVE  /\ hint.cost = 0
                      /\ clock' < hint.after =>
                           /\ Cardinality(InWindow') >= MaxCalls
                           /\ \A m \in InWindow' : m[1] + Window >= hint.after
                           /\ \E m \in InWindow' : m[1] + Window = hint.after
                      /\ clock' >= hint.after => Cardinality(InWindow') < MaxCalls
    BY <1>3 DEF WindowHint
  <2>1. hint.after \in Nat
    BY <1>1 DEF LimitsTypeOK
  <2>2. CASE clock >= hint.after
    <3>1. Cardinality(InWindow') <= Cardinality(InWindow)
      BY <1>8, FS_Subset
    <3>2. Cardinality(InWindow) < MaxCalls
      BY <1>1, <2>2 DEF HintInv, WindowHint
    <3>3. clock' >= hint.after /\ ~(clock' < hint.after)
      BY <1>2, <2>1, <2>2
    <3>4. Cardinality(InWindow') < MaxCalls
      BY <1>8, <3>1, <3>2
    <3> QED BY <1>1, <3>3, <3>4 DEF HintInv, WindowHint
  <2>3. CASE clock < hint.after
    <3>1. /\ Cardinality(InWindow) >= MaxCalls
          /\ \A m \in InWindow : m[1] + Window >= hint.after
          /\ \E m \in InWindow : m[1] + Window = hint.after
      BY <1>1, <2>3 DEF HintInv, WindowHint
    <3>2. CASE clock' < hint.after
      <4>1. \A m \in InWindow : m[1] + Window > clock'
        BY <1>2, <1>8, <2>1, <3>1, <3>2
      <4>2. InWindow' = InWindow
        BY <1>8, <4>1
      <4>3. ~(clock' >= hint.after)
        BY <1>2, <2>1, <3>2
      <4> QED BY <1>1, <3>1, <4>2, <4>3 DEF HintInv, WindowHint
    <3>3. CASE ~(clock' < hint.after)
      <4>1. clock' = hint.after
        BY <1>2, <2>1, <2>3, <3>3
      <4>2. PICK m \in InWindow : m[1] + Window = hint.after
        BY <3>1
      <4>3. m \notin InWindow' /\ InWindow' \subseteq InWindow
        BY <1>2, <1>8, <4>1, <4>2
      <4>4. Cardinality(InWindow') < Cardinality(InWindow)
        <5>1. /\ Cardinality(InWindow') <= Cardinality(InWindow)
              /\ Cardinality(InWindow) = Cardinality(InWindow') => InWindow = InWindow'
          BY <1>8, <4>3, FS_Subset
        <5> QED BY <1>8, <4>3, <5>1
      <4>5. Cardinality(InWindow) <= MaxCalls
        BY <1>1, LiveMembers DEF SetIsLive
      <4>6. Cardinality(InWindow') < MaxCalls
        BY <1>8, <4>4, <4>5
      <4> QED BY <1>1, <3>3, <4>6 DEF HintInv, WindowHint
    <3> QED BY <3>2, <3>3
  <2> QED BY <1>2, <2>1, <2>2, <2>3
<1>12. BucketHint'
  BY <1>1, <1>3 DEF HintInv, BucketHint
<1>13. HintInv'
  BY <1>1, <1>3, <1>11, <1>12 DEF HintInv
<1> QED BY <1>6, <1>7, <1>9, <1>10, <1>13 DEF LimitsInv

LEMMA FlushKeeps ==
  ASSUME LimitsInv, Flush
  PROVE  LimitsInv'
<1> USE LimitAssumption, BucketAssumption, UnitAssumption, UnsetAssumption
    DEF Flush, NoWindow, NoBucket
<1>1. LimitsTypeOK'
  <2>1. IsFiniteSet(window'.members) /\ Cardinality(window'.members) <= MaxCalls
    BY FS_EmptySet
  <2> QED BY <2>1 DEF LimitsInv, LimitsTypeOK, Times
<1>2. KeyInv'
  BY DEF LimitsInv, LimitsTypeOK, Times, KeyInv
<1>3. WindowInv'
  BY DEF WindowInv, InWindow, LiveWindow
<1>4. BucketInv'
  BY <1>1, <1>2, RefilledAtExpiryNext DEF BucketIsLive, BucketInv
<1>5. HintInv'
  BY DEF HintInv, WindowHint, BucketHint
<1> QED BY <1>1, <1>2, <1>3, <1>4, <1>5 DEF LimitsInv

-----------------------------------------------------------------------------
(* LimitsInv is inductive. *)

\* The EVAL of a call: its cost is one the key's kind asks for.
LEMMA EvalKeeps ==
  ASSUME LimitsInv, CallsOK', NEW cost \in Costs \cup {0}, Eval(cost),
         kind = "window" => cost = 0
  PROVE  LimitsInv'
BY EvalWindow, EvalBucket DEF LimitsInv, LimitsTypeOK, Kinds

LEMMA StepKeeps == LimitsInv /\ [LimitsNext]_limitVars => LimitsInv'
<1> SUFFICES ASSUME LimitsInv, [LimitsNext]_limitVars PROVE LimitsInv'
  OBVIOUS
<1> USE UnitAssumption
<1> DEFINE row == [st : {"idle", "sent", "replied"}, sent : Times, cost : Costs \cup {0}]
<1>1. /\ LimitsTypeOK /\ KeyInv /\ call \in [Clients -> row] /\ late \in Nat /\ up \in BOOLEAN
      /\ clock \in Times /\ NoCall \in row /\ NoCall.st = "idle"
  BY DEF LimitsInv, LimitsTypeOK, NoCall, Times
<1>2. \A c \in Clients : call[c].st = "sent" /\ kind = "window" => call[c].cost = 0
  BY <1>1 DEF KeyInv
<1>3. ASSUME NEW c \in Clients, NEW cost \in Costs \cup {0}, TryAcquire(c, cost)
      PROVE  LimitsInv'
  <2>1. CallsOK'
    BY <1>1, <1>2, <1>3 DEF TryAcquire, CallsOK
  <2> QED BY <1>3, <2>1, CallsMove DEF TryAcquire, history
<1>4. ASSUME NEW c \in Clients, Land(c)
      PROVE  LimitsInv'
  <2>1. CallsOK'
    BY <1>1, <1>2, <1>4 DEF Land, Eval, CallsOK
  <2>2. call[c].cost \in Costs \cup {0} /\ (kind = "window" => call[c].cost = 0)
    BY <1>1, <1>2, <1>4 DEF Land
  <2> QED BY <1>4, <2>1, <2>2, EvalKeeps DEF Land
<1>5. ASSUME NEW c \in Clients, Return(c) \/ PassDeadline(c) \/ Reject(c)
      PROVE  LimitsInv'
  <2>1. CallsOK'
    BY <1>1, <1>2, <1>5 DEF Return, PassDeadline, Reject, CallsOK
  <2> QED BY <1>5, <2>1, CallsMove DEF Return, PassDeadline, Reject, history
<1>6. CASE LandLate
  <2>1. CallsOK'
    BY <1>1, <1>2, <1>6 DEF LandLate, Eval, CallsOK
  <2> QED BY <1>6, <2>1, EvalKeeps DEF LandLate
<1>7. CASE LoseLate \/ Disconnect \/ Connect \/ UNCHANGED limitVars
  <2>1. CallsOK'
    <3>1. CASE LoseLate
      BY <1>1, <1>2, <3>1 DEF LoseLate, CallsOK
    <3>2. CASE Disconnect \/ Connect
      BY <1>1, <1>2, <3>2 DEF Disconnect, Connect, CallsOK
    <3>3. CASE UNCHANGED limitVars
      BY <1>1, <1>2, <3>3 DEF limitVars, CallsOK
    <3> QED BY <1>7, <3>1, <3>2, <3>3
  <2> QED BY <1>7, <2>1, CallsMove DEF LoseLate, Disconnect, Connect, limitVars, history
<1>8. CASE Tick
  BY <1>8, TickKeeps
<1>9. CASE Flush
  BY <1>9, FlushKeeps
<1> QED BY <1>3, <1>4, <1>5, <1>6, <1>7, <1>8, <1>9 DEF LimitsNext

LEMMA LimitsInductive == LimitsSpec => []LimitsInv
BY InitHolds, StepKeeps, PTL DEF LimitsSpec

\* Every variable keeps its type; in particular no level is ever below zero, and
\* the sorted set of a key holds at most limit members, the expired ones included.
THEOREM LimitsTypes == LimitsSpec => []LimitsTypeOK
<1>1. LimitsInv => LimitsTypeOK
  BY DEF LimitsInv
<1> QED BY <1>1, LimitsInductive, PTL

\* sliding-window-lua.ts:5-7, token-bucket-lua.ts:5-6: whatever callers race,
\* expire, or land after their deadline, no window of time sees more than the limit
\* admitted, and no token is spent that the refill has not brought.
THEOREM NeverOverAdmitted == LimitsSpec => []NeverOverAdmits
<1>1. ASSUME LimitsInv PROVE NeverOverAdmits
  <2>1. LimitsTypeOK /\ KeyInv /\ WindowInv /\ SetIsLive
    BY <1>1, LiveMembers DEF LimitsInv
  <2>2. level >= 0
    BY <2>1, BucketAssumption DEF LimitsTypeOK
  <2>3. CASE kind # "window"
    BY <2>1, <2>2, <2>3, FS_EmptySet, LimitAssumption DEF WindowInv, NeverOverAdmits
  <2>4. CASE kind = "window"
    <3> DEFINE f == [m \in InWindow |-> Numbered(m)]
    <3>1. f \in Surjection(InWindow, granted)
      BY <2>1, <2>4 DEF WindowInv, Surjection
    <3>2. IsFiniteSet(InWindow) /\ Cardinality(InWindow) \in Nat /\ Cardinality(InWindow) <= MaxCalls
      BY <2>1 DEF SetIsLive
    <3> HIDE DEF f
    <3>3. IsFiniteSet(granted) /\ Cardinality(granted) <= Cardinality(InWindow)
      BY <3>1, <3>2, FS_Surjection
    <3>4. Cardinality(granted) \in Nat
      BY <3>3, FS_CardinalityType
    <3>5. Cardinality(granted) <= MaxCalls
      BY <3>2, <3>3, <3>4, LimitAssumption
    <3> QED BY <2>2, <3>5 DEF NeverOverAdmits
  <2> QED BY <2>3, <2>4
<1> QED BY <1>1, LimitsInductive, PTL

\* sliding-window-lua.ts:55-63, rate-limit.ts:202-217, token-bucket-lua.ts:49-51: while
\* nothing else is admitted, the window admits at the millisecond it named and at no
\* earlier one, the header's whole seconds are never too few, and a bucket that can
\* hold the cost is right about its wait to a millisecond, however levels are rounded.
THEOREM RetryHolds == LimitsSpec => []RetryAfterHolds
<1>1. ASSUME LimitsInv PROVE RetryAfterHolds
  <2> USE BucketAssumption, ErrorAssumption
  <2>1. LimitsTypeOK /\ KeyInv /\ HintInv /\ SetIsLive /\ BucketIsLive
    BY <1>1, LiveMembers, RefilledAtExpiry DEF LimitsInv
  <2>2. ASSUME hint # Unset
        PROVE  /\ hint.cost \in Nat /\ hint.after \in Nat /\ hint.header \in Nat
               /\ clock \in Nat /\ hint.header >= hint.after
    <3>1. hint \in [cost : Costs \cup {0}, after : Nat, header : Nat]
      BY <2>1, <2>2 DEF LimitsTypeOK
    <3>2. hint.after \in Nat /\ hint.header \in Nat /\ hint.cost \in Costs \cup {0}
      BY <3>1
    <3>3. clock \in Nat
      BY <2>1, UnitAssumption DEF LimitsTypeOK, Times
    <3>4. hint.header >= hint.after
      BY <2>1, <2>2 DEF HintInv
    <3>5. \A cost \in Costs \cup {0} : cost \in Nat
      OBVIOUS
    <3> QED BY <3>2, <3>3, <3>4, <3>5
  <2>3. ASSUME kind = "window", hint # Unset
        PROVE  /\ WindowAdmits <=> clock >= hint.after
               /\ clock >= hint.header => WindowAdmits
    <3>1. Cardinality(InWindow) \in Nat /\ MaxCalls \in Nat
      BY <2>1, LimitAssumption DEF SetIsLive
    <3>2. clock < hint.after => Cardinality(InWindow) >= MaxCalls
      BY <2>1, <2>3 DEF HintInv, WindowHint
    <3>3. clock >= hint.after => Cardinality(InWindow) < MaxCalls
      BY <2>1, <2>3 DEF HintInv, WindowHint
    <3> QED BY <2>2, <2>3, <3>1, <3>2, <3>3 DEF WindowAdmits
  <2>4. ASSUME kind = "bucket", hint # Unset, hint.cost <= Capacity
        PROVE  /\ clock > hint.after => \A read \in Reads : read >= hint.cost
               /\ clock + 1 < hint.after => \A read \in Reads : read < hint.cost
    <3> DEFINE d == clock - bucket.updated
               e == hint.after - bucket.updated
    <3>1. /\ bucket.tokens # Unset
          /\ hint.cost <= bucket.tokens + Error + e * Refill
          /\ bucket.tokens + e * Refill < hint.cost + Error + Refill
      BY <2>1, <2>4 DEF HintInv, BucketHint
    <3>2. bucket.tokens \in Nat /\ d \in Int /\ e \in Int /\ Regained = bucket.tokens + d * Refill
      BY <2>1, <2>2, <2>4, <3>1, UnitAssumption DEF LimitsTypeOK, Times, Regained
    <3>3. /\ hint.cost \in Nat /\ hint.after \in Nat /\ clock \in Nat
          /\ Regained \in Nat /\ bucket.updated \in Nat
          /\ \/ Reads = {Capacity} /\ Regained >= Capacity
             \/ Reads = {Least(Capacity, x) : x \in (Regained - Error .. Regained + Error) \cap Nat}
      BY <2>1, <2>2, <2>4, <3>1, UnitAssumption DEF BucketIsLive, LimitsTypeOK, Times
    <3>4. clock > hint.after => d >= e + 1
      BY <3>3
    <3>5. clock + 1 < hint.after => d + 2 <= e
      BY <3>3
    <3> HIDE DEF d, e
    <3>6. e * Refill \in Int /\ d * Refill \in Int
      BY <3>2
    <3>7. ASSUME clock > hint.after, NEW read \in Reads PROVE read >= hint.cost
      <4>1. d * Refill >= (e + 1) * Refill /\ (e + 1) * Refill = e * Refill + Refill
        BY <3>2, <3>4, <3>7
      <4>2. Regained - Error >= hint.cost
        BY <3>1, <3>2, <3>3, <3>6, <4>1
      <4> QED BY <2>4, <3>3, <4>2 DEF Least
    <3>8. ASSUME clock + 1 < hint.after, NEW read \in Reads PROVE read < hint.cost
      <4> DEFINE before == d * Refill
                 whole == e * Refill
      <4>1. before + Refill + Refill <= whole
        <5>1. (d + 2) * Refill <= e * Refill /\ (d + 2) * Refill = d * Refill + Refill + Refill
          BY <3>2, <3>5, <3>8
        <5> QED BY <3>6, <5>1
      <4>2. Regained + Error < hint.cost
        <5>1. /\ Regained = bucket.tokens + before /\ before \in Int /\ whole \in Int
              /\ bucket.tokens + whole < hint.cost + Error + Refill
          BY <3>1, <3>2, <3>6
        <5> HIDE DEF before, whole
        <5> QED BY <3>2, <3>3, <4>1, <5>1
      <4> QED BY <2>4, <3>3, <4>2 DEF Least
    <3> QED BY <3>7, <3>8
  <2> QED BY <2>3, <2>4 DEF RetryAfterHolds
<1> QED BY <1>1, LimitsInductive, PTL
=============================================================================
