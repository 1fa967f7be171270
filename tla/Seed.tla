-------------------------------- MODULE Seed --------------------------------
(***************************************************************************)
(* The seed of a development database (src/apps/api/src/db/seed.ts), run   *)
(* and run again beside a live application: the accounts with their        *)
(* capabilities, a product, a review of it that is left rejected, and the  *)
(* rating projection.  The script stops at the first error and may be      *)
(* killed at any statement; nothing but its reruns repairs what it left.   *)
(*                                                                         *)
(* One product and one review stand for the lists: rows of a list share    *)
(* nothing.  submitReview and setReviewModerationState are one step each,  *)
(* as AtomicReviews has them.                                              *)
(***************************************************************************)
EXTENDS Accounts, Sequences

CONSTANTS
  SeedAccounts,  \* their addresses, in the order they are ensured; the last is the reviewer's
  Wanted,        \* the capabilities each is to have
  MaxMeddling    \* bound: writes of the application to the seeded product and review

ASSUME SeedAssumption ==
  /\ SeedAccounts \in Seq(Addresses) /\ SeedAccounts # <<>>
  /\ Wanted \in [Addresses -> SUBSET Caps]
  /\ MaxMeddling \in Nat

ReviewRows ==
  [token : 0 .. MaxMeddling, text : {"seeded", "own"}, dated : BOOLEAN,
   state : {"published", "rejected"}]

ASSUME NoRowAssumption == Nothing \notin ReviewRows \cup {"seeded", "other"}

VARIABLES
  at,       \* where the script is
  ensured,  \* accounts it has ensured in this run
  author,   \* the identity of the account it ensured last
  product,  \* reviews.product at the seed's slug, and whose it is
  review,   \* the reviewer's review of it
  held,     \* the token of the review the script got from submitReview
  rated,    \* published reviews its rating counts
  meddled   \* writes of others so far, erasures included

catalogue == <<product, review, rated>>
script == <<at, ensured, author, held>>
seedVars == <<accountVars, script, catalogue, meddled>>

Steps == {"identity", "appUser", "product", "insert", "submit", "backdate", "reject", "rebuild"}

SeedInit ==
  /\ AccountsInit
  /\ at = "ended" /\ ensured = 0 /\ author = 0 /\ held = 0
  /\ product = Nothing /\ review = Nothing /\ rated = 0
  /\ meddled = 0

Account == SeedAccounts[ensured + 1]

StartSeed ==
  /\ at \notin Steps
  /\ at' = "identity" /\ ensured' = 0
  /\ UNCHANGED <<accountVars, author, held, catalogue, meddled>>

\* INSERT ... ON CONFLICT (email) DO UPDATE ... RETURNING id.
EnsureIdentity ==
  /\ at = "identity"
  /\ IF identity[Account] = 0 THEN InsertIdentity(Account) ELSE UNCHANGED <<identity, issued>>
  /\ author' = identity'[Account]
  /\ at' = "appUser"
  /\ UNCHANGED <<today, appUser, link, session, signIn, lookup, ensured, held, catalogue, meddled>>

\* Mutant: the capabilities wanted replace those there are.
EnsureAppUserReplaced ==
  /\ at = "appUser"
  /\ Live(author)
  /\ appUser' = [appUser EXCEPT ![author] =
       IF @ = Nothing THEN NewUser("seed", Wanted[Account])
                      ELSE [@ EXCEPT !.caps = Wanted[Account]]]
  /\ ensured' = ensured + 1
  /\ at' = IF ensured' = Len(SeedAccounts) THEN "product" ELSE "identity"
  /\ UNCHANGED <<today, identity, issued, link, session, signIn, lookup, author, held, catalogue, meddled>>
\* ON CONFLICT (identity_id) DO UPDATE: the capabilities there are and those wanted.
WithWanted(user) ==
  IF user = Nothing THEN NewUser("seed", Wanted[Account])
  ELSE [user EXCEPT !.caps = @ \cup Wanted[Account]]
EnsureAppUser ==
  /\ at = "appUser"
  /\ Live(author)
  /\ appUser' = [appUser EXCEPT ![author] = WithWanted(@)]
  /\ ensured' = ensured + 1
  /\ at' = IF ensured' = Len(SeedAccounts) THEN "product" ELSE "identity"
  /\ UNCHANGED <<today, identity, issued, link, session, signIn, lookup, author, held, catalogue, meddled>>

\* SELECT 1 ... WHERE slug: one that is there is left as it is.
FindProduct ==
  /\ at = "product"
  /\ at' = IF product = Nothing THEN "insert" ELSE "submit"
  /\ UNCHANGED <<accountVars, ensured, author, held, catalogue, meddled>>

InsertProduct ==
  /\ at = "insert" /\ product = Nothing
  /\ product' = "seeded"
  /\ at' = "submit"
  /\ UNCHANGED <<accountVars, ensured, author, held, review, rated, meddled>>

\* Bound: a token is the number of writes before it, for each removal is one.
NewReview(text) == [token |-> meddled, text |-> text, dated |-> FALSE, state |-> "published"]
Held == review # Nothing /\ review.token = held

\* Mutant: a review that was replayed is taken to have its date.
SubmitReviewDated ==
  /\ at = "submit"
  /\ appUser[author] # Nothing
  /\ review # Nothing => review.text = "seeded"
  /\ review' = IF review = Nothing THEN NewReview("seeded") ELSE review
  /\ held' = review'.token
  /\ at' = IF review = Nothing THEN "backdate" ELSE "reject"
  /\ UNCHANGED <<accountVars, ensured, author, product, rated, meddled>>
\* submitReview: a new review, or the replay of one with the same content.
SubmitReview ==
  /\ at = "submit"
  /\ appUser[author] # Nothing
  /\ review # Nothing => review.text = "seeded"
  /\ review' = IF review = Nothing THEN NewReview("seeded") ELSE review
  /\ held' = review'.token
  /\ at' = "backdate"
  /\ UNCHANGED <<accountVars, ensured, author, product, rated, meddled>>

\* UPDATE ... WHERE token: no row is no error.
BackdateReview ==
  /\ at = "backdate"
  /\ review' = IF Held THEN [review EXCEPT !.dated = TRUE] ELSE review
  /\ at' = "reject"
  /\ UNCHANGED <<accountVars, ensured, author, held, product, rated, meddled>>

\* setReviewModerationState.
RejectReview ==
  /\ at = "reject" /\ Held
  /\ review' = [review EXCEPT !.state = "rejected"]
  /\ at' = "rebuild"
  /\ UNCHANGED <<accountVars, ensured, author, held, product, rated, meddled>>

Published == IF review # Nothing /\ review.state = "published" THEN 1 ELSE 0

\* rebuildProductRating.
RebuildRating ==
  /\ at = "rebuild"
  /\ rated' = Published
  /\ at' = "done"
  /\ UNCHANGED <<accountVars, ensured, author, held, product, review, meddled>>

\* Killed, or stopped by an error: an erased account's foreign keys, a slug just
\* taken, a review whose text was changed (409) or that is gone (404), a lost
\* connection.
SeedStops ==
  /\ at \in Steps
  /\ at' = "ended"
  /\ UNCHANGED <<accountVars, ensured, author, held, catalogue, meddled>>

(***************************** the application ****************************)

Reviewer == SeedAccounts[Len(SeedAccounts)]

\* Someone creates or edits the product, the reviewer submits, edits or removes
\* the review, a moderator moves it, or the relay counts it.
Meddle ==
  /\ meddled < MaxMeddling
  /\ meddled' = meddled + 1
  /\ \/ product' = "other" /\ UNCHANGED <<review, rated>>
     \/ /\ review = Nothing /\ product # Nothing
        /\ identity[Reviewer] # 0 /\ appUser[identity[Reviewer]] # Nothing
        /\ review' = NewReview("own")
        /\ UNCHANGED <<product, rated>>
     \/ /\ review # Nothing
        /\ \/ review' = [review EXCEPT !.text = "own"]
           \/ review' = [review EXCEPT !.state = IF @ = "published" THEN "rejected" ELSE "published"]
           \/ review' = Nothing
        /\ UNCHANGED <<product, rated>>
     \/ rated' = Published /\ UNCHANGED <<product, review>>
  /\ UNCHANGED <<accountVars, script>>

\* The reviews of an erased author go by cascade (migration 0004).
EraseAccount(a) ==
  /\ meddled < MaxMeddling
  /\ meddled' = meddled + 1
  /\ Erase(a)
  /\ review' = IF a = Reviewer THEN Nothing ELSE review
  /\ UNCHANGED <<script, product, rated>>

SeedStep ==
  \/ StartSeed \/ EnsureIdentity \/ EnsureAppUser \/ FindProduct \/ InsertProduct
  \/ SubmitReview \/ BackdateReview \/ RejectReview \/ RebuildRating \/ SeedStops

SeedNext ==
  \/ SeedStep
  \/ Meddle
  \/ \E a \in Addresses : EraseAccount(a)
  \/ AccountStep(Callers) /\ UNCHANGED <<script, catalogue, meddled>>

SeedSpec == SeedInit /\ [][SeedNext]_seedVars

(******************************* properties *******************************)

SeedTypeOK ==
  /\ AccountsTypeOK
  /\ at \in Steps \cup {"ended", "done"}
  /\ ensured \in 0 .. Len(SeedAccounts)
  /\ author \in 0 .. issued /\ held \in 0 .. MaxMeddling
  /\ product \in {Nothing, "seeded", "other"}
  /\ review \in ReviewRows \cup {Nothing}
  /\ rated \in 0 .. 1
  /\ meddled \in 0 .. MaxMeddling

\* seed.ts:6-19: however often the script was killed and run again, with users
\* signing in and capabilities granted in between, a run that ends well leaves every
\* account with its capabilities, and, unless others wrote to them, the product, its
\* review dated and rejected, and a rating that counts what is published.
SeedDelivers ==
  at = "done" /\ meddled = 0 =>
    /\ \A k \in 1 .. Len(SeedAccounts) :
         LET a == SeedAccounts[k] IN
         /\ identity[a] # 0 /\ appUser[identity[a]] # Nothing
         /\ Wanted[a] \subseteq appUser[identity[a]].caps
    /\ product = "seeded"
    /\ review # Nothing /\ review.text = "seeded" /\ review.dated /\ review.state = "rejected"
    /\ rated = Published
=============================================================================
