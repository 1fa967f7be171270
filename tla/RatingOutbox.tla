---------------------------- MODULE RatingOutbox ----------------------------
(***************************************************************************)
(* The rating projection and the transactional outbox that keeps it up to  *)
(* date: packages/jobs/src/outbox.ts (the relay), packages/reviews/src     *)
(* (the producers and the recompute statement) and the composition in      *)
(* apps/api/src/runtime/reviews-rating-worker.ts, which gives the relay    *)
(* the POOLED database handle, so a recompute autocommits on a connection  *)
(* of its own while the relay's claim transaction is still open.           *)
(*                                                                         *)
(* The reviews of a product are abstracted to a version, the number of     *)
(* committed writes that changed them; a projection row is abstracted to   *)
(* the version it summarises.                                              *)
(***************************************************************************)
EXTENDS Naturals, FiniteSets

CONSTANTS
  Products,      \* products with reviews
  Relays,        \* workers that may run a relay pass (one per API process)
  Conns,         \* pooled connections that may run a recompute statement
  None,          \* no product, no connection
  BatchSize,     \* LIMIT of the claim
  MaxAttempts,   \* attempts at which a row is parked
  MaxRows,       \* bound: review writes
  MaxKills,      \* bound: process kills
  MaxRebuilds    \* bound: statements issued by rebuildProductRating

ASSUME NoneAssumption == None \notin Products /\ None \notin Conns
ASSUME BoundsAssumption ==
  /\ BatchSize \in Nat \ {0} /\ MaxAttempts \in Nat \ {0}
  /\ MaxRows \in Nat /\ MaxKills \in Nat /\ MaxRebuilds \in Nat

VARIABLES
  ver,         \* committed writes to the reviews of each product
  rating,      \* the version each projection row summarises
  nextRow,     \* the outbox_id sequence
  status,      \* outbox_row_status_id, and the life of a row before commit
  aggregate,   \* aggregate_id
  attempts,    \* attempts
  letters,     \* products with a row in jobs.dead_letter (its key is the aggregate)
  todo,        \* rows a pass has claimed and not yet handled
  ok,          \* rows a pass has marked Processed, uncommitted
  bad,         \* rows a pass has marked failed, uncommitted
  await,       \* the connection whose answer a pass awaits
  filed,       \* rows a pass has given up and called writeOutboxDeadLetter for
  drafts,      \* products whose letter a pass has inserted, uncommitted
  target,      \* the product the statement in flight on a connection recomputes
  snap,        \* the version in that statement's snapshot
  kills, rebuilds,
  (* history *)
  covers,      \* the version a row's write produced
  purged,      \* products whose letter a purge deleted after a pass had called for one
  best,        \* the freshest version any landed recompute has summarised
  overlapped   \* products that have had two recomputes in flight at once

letterVars == <<filed, drafts, purged>>
relayVars == <<todo, ok, bad, await, letterVars>>
stmtVars  == <<target, snap>>
rowVars   == <<nextRow, status, aggregate, attempts, covers>>
vars == <<ver, rating, letters, kills, rebuilds, best, overlapped,
          rowVars, relayVars, stmtVars>>

Rows == 1..MaxRows
Statuses == {"free", "open", "aborted", "pending", "processed", "dead"}
Committed(i) == status[i] \in {"pending", "processed", "dead"}

\* The rows locked FOR UPDATE by the pass of relay r.
Held(r) == todo[r] \cup ok[r] \cup bad[r]

Lowest(S, k) == {i \in S : Cardinality({j \in S : j < i}) < k}

\* The row a pass is working on: rows are handled in outbox_id order.
Current(r, i) == i \in todo[r] /\ \A j \in todo[r] : i <= j

Init ==
  /\ ver = [p \in Products |-> 0] /\ rating = [p \in Products |-> 0]
  /\ nextRow = 1
  /\ status = [i \in Rows |-> "free"] /\ attempts = [i \in Rows |-> 0]
  /\ aggregate = [i \in Rows |-> None] /\ covers = [i \in Rows |-> 0]
  /\ letters = {}
  /\ todo = [r \in Relays |-> {}] /\ ok = [r \in Relays |-> {}]
  /\ bad = [r \in Relays |-> {}] /\ await = [r \in Relays |-> None]
  /\ filed = [r \in Relays |-> {}] /\ drafts = [r \in Relays |-> {}]
  /\ purged = [r \in Relays |-> {}]
  /\ target = [c \in Conns |-> None] /\ snap = [c \in Conns |-> 0]
  /\ kills = 0 /\ rebuilds = 0
  /\ best = [p \in Products |-> 0] /\ overlapped = {}

-----------------------------------------------------------------------------
(* Producers: a transaction that changes a review of p and inserts p's event. *)

\* insertOutboxRows inside the writer's transaction: the id is allocated now,
\* the row is seen only once the transaction commits.
InsertEvent(p) ==
  /\ nextRow <= MaxRows
  /\ nextRow' = nextRow + 1
  /\ status' = [status EXCEPT ![nextRow] = "open"]
  /\ aggregate' = [aggregate EXCEPT ![nextRow] = p]
  /\ UNCHANGED <<ver, rating, letters, kills, rebuilds, best, overlapped,
                 attempts, covers, relayVars, stmtVars>>

\* The single commit: the review change and its event become visible together.
CommitWrite(i) ==
  LET p == aggregate[i] IN
  /\ status[i] = "open"
  /\ status' = [status EXCEPT ![i] = "pending"]
  /\ ver' = [ver EXCEPT ![p] = @ + 1]
  /\ covers' = [covers EXCEPT ![i] = ver[p] + 1]
  /\ UNCHANGED <<rating, letters, kills, rebuilds, best, overlapped,
                 nextRow, aggregate, attempts, relayVars, stmtVars>>

\* The writer's transaction fails or its process dies: neither change remains.
RollbackWrite(i) ==
  /\ status[i] = "open"
  /\ status' = [status EXCEPT ![i] = "aborted"]
  /\ UNCHANGED <<ver, rating, letters, kills, rebuilds, best, overlapped,
                 nextRow, aggregate, attempts, covers, relayVars, stmtVars>>

-----------------------------------------------------------------------------
(* A relay pass. *)

\* Mutant: a claim that takes new rows only.
ClaimableOnce ==
  {i \in Rows : status[i] = "pending" /\ attempts[i] = 0 /\ \A r \in Relays : i \notin Held(r)}

\* SELECT ... WHERE Pending ORDER BY outbox_id FOR UPDATE SKIP LOCKED LIMIT n.
Claimable == {i \in Rows : status[i] = "pending" /\ \A r \in Relays : i \notin Held(r)}

Claim(r) ==
  /\ Held(r) = {} /\ Claimable # {}
  /\ todo' = [todo EXCEPT ![r] = Lowest(Claimable, BatchSize)]
  /\ UNCHANGED <<ver, rating, letters, kills, rebuilds, best, overlapped,
                 ok, bad, await, letterVars, rowVars, stmtVars>>

\* A recompute statement of p begins on connection c: READ COMMITTED gives it
\* the snapshot of its first instant.
BeginStatement(p, c) ==
  /\ target[c] = None
  /\ target' = [target EXCEPT ![c] = p]
  /\ snap' = [snap EXCEPT ![c] = ver[p]]
  /\ overlapped' = overlapped \cup {q \in {p} : \E d \in Conns : target[d] = p}

Exhausted(i) == attempts[i] + 1 >= MaxAttempts

\* The row a pass has marked Dead and not yet left a letter for.
Unfiled(r) == {i \in bad[r] : Exhausted(i)} \ filed[r]

\* Relay r moves its current row to the rows marked in set `marks`.
MarkIn(marks, r) ==
  \E i \in todo[r] :
    /\ Current(r, i)
    /\ todo' = [todo EXCEPT ![r] = @ \ {i}]
    /\ marks' = [marks EXCEPT ![r] = @ \cup {i}]

\* Mutant: apply is started and not awaited.
BeginUnawaited(r, c) ==
  /\ \E i \in todo[r] : Current(r, i) /\ BeginStatement(aggregate[i], c)
  /\ MarkIn(ok, r)
  /\ UNCHANGED <<ver, rating, letters, kills, rebuilds, best, bad, await, letterVars, rowVars>>

\* apply(row): recomputeProductRating(options.db, row.aggregateId).
BeginApply(r, c) ==
  /\ await[r] = None /\ Unfiled(r) = {}
  /\ \E i \in todo[r] : Current(r, i) /\ BeginStatement(aggregate[i], c)
  /\ await' = [await EXCEPT ![r] = c]
  /\ UNCHANGED <<ver, rating, letters, kills, rebuilds, best, todo, ok, bad, letterVars, rowVars>>

\* The relay awaiting c marks its row; a statement nobody awaits any more, or
\* one of a rebuild, has no row to mark.
Answer(marks, c) ==
  \/ \E r \in Relays :
       /\ await[r] = c
       /\ MarkIn(marks, r)
       /\ await' = [await EXCEPT ![r] = None]
  \/ /\ \A r \in Relays : await[r] # c
     /\ UNCHANGED <<todo, marks, await>>

\* INSERT ... SELECT ... ON CONFLICT DO UPDATE commits: the row is overwritten
\* with what the snapshot held, whatever it held before.
Land(c) ==
  LET p == target[c] IN
  /\ p # None
  /\ rating' = [rating EXCEPT ![p] = snap[c]]
  /\ best' = [best EXCEPT ![p] = IF snap[c] > @ THEN snap[c] ELSE @]
  /\ target' = [target EXCEPT ![c] = None]
  /\ Answer(ok, c)
  /\ UNCHANGED <<ver, letters, kills, rebuilds, overlapped, bad, snap, letterVars, rowVars>>

\* Mutant: the error of the recompute is swallowed.
AbortSwallowed(c) ==
  /\ target[c] # None
  /\ target' = [target EXCEPT ![c] = None]
  /\ Answer(ok, c)
  /\ UNCHANGED <<ver, rating, letters, kills, rebuilds, best, overlapped,
                 bad, snap, letterVars, rowVars>>

\* The statement fails and leaves nothing behind: apply throws.
Abort(c) ==
  /\ target[c] # None
  /\ target' = [target EXCEPT ![c] = None]
  /\ Answer(bad, c)
  /\ UNCHANGED <<ver, rating, letters, kills, rebuilds, best, overlapped,
                 ok, snap, letterVars, rowVars>>

\* No connection, or the connection breaks under the statement: apply throws,
\* and a statement already begun runs on in the server with nobody awaiting it.
LoseAnswer(r) ==
  /\ Unfiled(r) = {} /\ MarkIn(bad, r)
  /\ await' = [await EXCEPT ![r] = None]
  /\ UNCHANGED <<ver, rating, letters, kills, rebuilds, best, overlapped,
                 ok, letterVars, rowVars, stmtVars>>

\* Mutant: the row is parked and no triage record written.
WriteLetterNone(r) ==
  \E i \in Unfiled(r) :
    /\ filed' = [filed EXCEPT ![r] = @ \cup {i}]
    /\ UNCHANGED <<ver, rating, letters, kills, rebuilds, best, overlapped,
                   todo, ok, bad, await, drafts, purged, rowVars, stmtVars>>

\* writeOutboxDeadLetter: INSERT ... ON CONFLICT DO NOTHING in the claim transaction,
\* one record per aggregate.  It waits for another pass's uncommitted record, and a
\* committed one is left as it is and is not locked.
WriteLetter(r) ==
  \E i \in Unfiled(r) :
    /\ \A s \in Relays \ {r} : aggregate[i] \notin drafts[s]
    /\ drafts' = [drafts EXCEPT ![r] = @ \cup ({aggregate[i]} \ letters)]
    /\ filed' = [filed EXCEPT ![r] = @ \cup {i}]
    /\ UNCHANGED <<ver, rating, letters, kills, rebuilds, best, overlapped,
                   todo, ok, bad, await, purged, rowVars, stmtVars>>

\* The letters of a pass are its transaction's.
EndPass(r) ==
  /\ ok' = [ok EXCEPT ![r] = {}] /\ bad' = [bad EXCEPT ![r] = {}]
  /\ filed' = [filed EXCEPT ![r] = {}] /\ drafts' = [drafts EXCEPT ![r] = {}]
  /\ purged' = [purged EXCEPT ![r] = {}]

\* The single commit of the pass lands every mark and the letters it inserted.
CommitPass(r) ==
  /\ Held(r) # {} /\ todo[r] = {} /\ Unfiled(r) = {}
  /\ status' = [i \in Rows |-> CASE i \in ok[r] -> "processed"
                                 [] i \in bad[r] /\ Exhausted(i) -> "dead"
                                 [] OTHER -> status[i]]
  /\ attempts' = [i \in Rows |-> IF i \in bad[r] THEN attempts[i] + 1 ELSE attempts[i]]
  /\ letters' = letters \cup drafts[r]
  /\ EndPass(r)
  /\ UNCHANGED <<ver, rating, kills, rebuilds, best, overlapped,
                 nextRow, aggregate, covers, todo, await, stmtVars>>

\* The process dies, or its transaction fails as a whole (its connection is lost, it
\* is the victim of a deadlock over the keys of two letters): everything rolls back,
\* its locks go, and the statement it had in flight runs on.
Kill(r) ==
  /\ Held(r) # {} /\ kills < MaxKills
  /\ kills' = kills + 1
  /\ todo' = [todo EXCEPT ![r] = {}] /\ await' = [await EXCEPT ![r] = None]
  /\ EndPass(r)
  /\ UNCHANGED <<ver, rating, letters, rebuilds, best, overlapped, rowVars, stmtVars>>

-----------------------------------------------------------------------------
\* rebuildProductRating issues the same statement for p, with no row in hand.
Rebuild(p, c) ==
  /\ rebuilds < MaxRebuilds
  /\ rebuilds' = rebuilds + 1
  /\ BeginStatement(p, c)
  /\ UNCHANGED <<ver, rating, letters, kills, best, rowVars, relayVars>>

\* purgeDeadLetters: a committed triage record older than its horizon is deleted.
PurgeLetter(p) ==
  /\ p \in letters
  /\ letters' = letters \ {p}
  /\ purged' = [r \in Relays |-> purged[r] \cup ({p} \cap {aggregate[i] : i \in filed[r]})]
  /\ UNCHANGED <<ver, rating, kills, rebuilds, best, overlapped,
                 rowVars, todo, ok, bad, await, filed, drafts, stmtVars>>

Next ==
  \/ \E p \in Products : InsertEvent(p) \/ PurgeLetter(p)
  \/ \E i \in Rows : CommitWrite(i) \/ RollbackWrite(i)
  \/ \E r \in Relays : Claim(r) \/ LoseAnswer(r) \/ WriteLetter(r) \/ CommitPass(r) \/ Kill(r)
  \/ \E c \in Conns : Land(c) \/ Abort(c)
  \/ \E r \in Relays, c \in Conns : BeginApply(r, c)
  \/ \E p \in Products, c \in Conns : Rebuild(p, c)

Spec == Init /\ [][Next]_vars

\* The scheduler ticks every worker for ever and awaits each pass; a statement
\* ends one way or the other; writers, kills and rebuilds owe nothing.
Fairness ==
  /\ \A r \in Relays : /\ WF_vars(Claim(r)) /\ WF_vars(WriteLetter(r)) /\ WF_vars(CommitPass(r))
                       /\ WF_vars(LoseAnswer(r) \/ \E c \in Conns : BeginApply(r, c))
  /\ \A c \in Conns : WF_vars(Land(c) \/ Abort(c))
FairSpec == Spec /\ Fairness

-----------------------------------------------------------------------------
(* Properties *)

\* Every variable holds a value of its column or set.
TypeOK ==
  /\ ver \in [Products -> Nat] /\ rating \in [Products -> Nat] /\ best \in [Products -> Nat]
  /\ nextRow \in 1..(MaxRows + 1)
  /\ status \in [Rows -> Statuses] /\ attempts \in [Rows -> Nat] /\ covers \in [Rows -> Nat]
  /\ aggregate \in [Rows -> Products \cup {None}]
  /\ \A i \in Rows : status[i] # "free" => aggregate[i] \in Products
  /\ letters \subseteq Products /\ overlapped \subseteq Products
  /\ todo \in [Relays -> SUBSET Rows] /\ ok \in [Relays -> SUBSET Rows]
  /\ bad \in [Relays -> SUBSET Rows] /\ await \in [Relays -> Conns \cup {None}]
  /\ filed \in [Relays -> SUBSET Rows] /\ drafts \in [Relays -> SUBSET Products]
  /\ purged \in [Relays -> SUBSET Products]
  /\ target \in [Conns -> Products \cup {None}] /\ snap \in [Conns -> Nat]
  /\ kills \in 0..MaxKills /\ rebuilds \in 0..MaxRebuilds

\* FOR UPDATE SKIP LOCKED (relayOutboxBatch): while passes run in several
\* processes, no row is in two of them, and no pass holds a row whose outcome
\* another pass has already committed.
ClaimsExclusive ==
  \A r \in Relays :
    /\ \A i \in Held(r) : status[i] = "pending"
    /\ \A s \in Relays \ {r} : Held(r) \cap Held(s) = {}

\* At-least-once (ADR-0007, relayOutboxBatch): a row is marked Processed only
\* after a recompute that SAW its write has landed, through kills, lost answers
\* and concurrent passes alike.
AppliedAtLeastOnce ==
  \A i \in Rows : status[i] = "processed" => best[aggregate[i]] >= covers[i]

Settled(p) == \A i \in Rows : aggregate[i] = p => status[i] \notin {"pending", "dead"}

\* Nothing lost (SPEC-0004 "no window where the state changed and no
\* recomputation was scheduled"): once no event of p is pending or parked, some
\* landed recompute has seen every committed write to p.
NoWriteUnseen == \A p \in Products : Settled(p) => best[p] = ver[p]

\* The projection is right (ADR-0014): a product with nothing pending or
\* parked, whose recomputes never overlapped, shows its current aggregate.
SettledIsFresh ==
  \A p \in Products \ overlapped : Settled(p) => rating[p] = ver[p]

\* Parking (SPEC-0004): a committed row is Dead exactly when its attempts have
\* reached the ceiling, so it is retried maxAttempts times and no further.
ParkedAtCeiling ==
  \A i \in Rows : /\ attempts[i] <= MaxAttempts
                  /\ status[i] = "dead" <=> attempts[i] = MaxAttempts

\* relayOutboxBatch: when a row is parked its aggregate has a triage record, the only
\* trace an operator gets; unless retention deleted the record after the pass had
\* found it there.
ParkingLeavesLetter ==
  [][\A i \in Rows : status[i] # "dead" /\ status'[i] = "dead" =>
       \/ aggregate[i] \in letters'
       \/ \E r \in Relays : i \in bad[r] /\ aggregate[i] \in purged[r]]_vars

\* Without overlapping recomputes a product's projection never goes back to an
\* older version (applyRatingRecompute overwrites unconditionally).
NeverRegresses ==
  [][\A p \in Products \ overlapped' : rating'[p] >= rating[p]]_vars

\* SPEC-0004: every committed event is applied or parked, and one that is
\* applied shows in the projection unless recomputes of its product overlapped.
EventuallyShown ==
  \A i \in Rows : status[i] = "pending" ~>
    \/ status[i] = "dead"
    \/ aggregate[i] \in overlapped
    \/ status[i] = "processed" /\ rating[aggregate[i]] >= covers[i]

\* SPEC-0004:192, "Killing the relay process mid-recompute and restarting it
\* converges": with nothing pending, parked or in flight every product shows
\* its current aggregate.
KillConverges ==
  \A p \in Products :
    Settled(p) /\ (\A c \in Conns : target[c] # p) => rating[p] = ver[p]

-----------------------------------------------------------------------------
(* What the outbox promises, and how its tables show it. *)

EventsIn(st) == {<<aggregate[i], covers[i]>> : i \in {j \in Rows : status[j] = st}}

Ledger == INSTANCE AtLeastOnce WITH
  Aggregates <- Products, written <- ver, seen <- best,
  owed <- EventsIn("pending"), parked <- EventsIn("dead")

\* The rows, passes and statements implement at-least-once application
\* (ADR-0007): whatever is killed, lost or run twice, an event leaves the
\* pending rows only after an application that has seen it, or by parking.
ImplementsAtLeastOnce == Ledger!ASpec

-----------------------------------------------------------------------------
(* The inductive invariant behind the safety properties. *)

\* A claimed row is pending, in one pass, and in one place of it.
ClaimInv ==
  /\ ClaimsExclusive
  /\ \A r \in Relays : /\ todo[r] \cap ok[r] = {} /\ todo[r] \cap bad[r] = {}
                       /\ ok[r] \cap bad[r] = {}

\* Ids not yet allocated are free; an event's number is one of the writes of
\* its aggregate, no two events share one, and the last write has its event.
EventInv ==
  /\ \A i \in Rows : i >= nextRow => status[i] = "free"
  /\ \A i \in Rows : Committed(i) => covers[i] <= ver[aggregate[i]]
  /\ \A i, j \in Rows : Committed(i) /\ Committed(j) /\ aggregate[i] = aggregate[j]
                          /\ covers[i] = covers[j] => i = j
  /\ \A p \in Products : ver[p] > 0 =>
       \E i \in Rows : Committed(i) /\ aggregate[i] = p /\ covers[i] = ver[p]

\* A statement never holds a version not yet written, and the one a pass awaits
\* has seen the write of the row it is for; no two passes await one statement.
StatementInv ==
  /\ \A p \in Products : best[p] <= ver[p]
  /\ \A c \in Conns : target[c] # None => snap[c] <= ver[target[c]]
  /\ \A r \in Relays : await[r] # None =>
       /\ target[await[r]] # None
       /\ \E i \in todo[r] : /\ Current(r, i) /\ target[await[r]] = aggregate[i]
                             /\ snap[await[r]] >= covers[i]
  /\ \A r, s \in Relays : await[r] # None /\ await[r] = await[s] => r = s

\* A row marked or committed as Processed has been seen by a landed recompute.
AppliedInv ==
  /\ AppliedAtLeastOnce
  /\ \A r \in Relays : \A i \in ok[r] : best[aggregate[i]] >= covers[i]

\* Without overlap, at most one statement of p is in flight, it is no older than
\* the projection, and the projection is the freshest version that ever landed.
FreshInv ==
  \A p \in Products \ overlapped :
    /\ best[p] = rating[p]
    /\ \A c \in Conns : target[c] = p => snap[c] >= best[p]
    /\ \A c, d \in Conns : target[c] = p /\ target[d] = p => c = d

\* Attempts are spent one by one and parking happens at the last of them.
AttemptInv ==
  /\ ParkedAtCeiling
  /\ \A i \in Rows : ~Committed(i) => attempts[i] = 0

\* A row that has been filed has a letter of its own pass's, a committed one, or had one.
LetterInv ==
  \A r \in Relays : \A i \in filed[r] :
    /\ i \in bad[r]
    /\ aggregate[i] \in drafts[r] \cup letters \cup purged[r]

IInv == /\ TypeOK /\ ClaimInv /\ EventInv /\ StatementInv /\ AppliedInv
        /\ FreshInv /\ AttemptInv /\ LetterInv
=============================================================================
