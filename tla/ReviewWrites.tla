---------------------------- MODULE ReviewWrites ----------------------------
(***************************************************************************)
(* The write path of packages/reviews/src, statement by statement:         *)
(* submitReview, updateReview, removeReview (reviews.ts) and               *)
(* setReviewModerationState (moderation.ts), running concurrently on one   *)
(* product.  Each reads committed rows outside a transaction, decides or   *)
(* opens one, takes the advisory lock of the review's author, asserts what *)
(* it read in the writing statement itself, and commits the change with    *)
(* its recompute event.  Products are independent: every statement names   *)
(* one product or one token.                                               *)
(***************************************************************************)
EXTENDS Naturals, FiniteSets

CONSTANTS
  Requests,   \* requests in flight or to come, each made once
  Authors,
  Contents,   \* rating, title and body, compared as one
  Tokens,     \* review tokens, minted once each
  None

States == {"published", "rejected"}
Rows == [author : Authors, token : Tokens, content : Contents, st : States]
Ops ==
  [op : {"submit"}, by : Authors, content : Contents]
  \cup [op : {"update"}, by : Authors, token : Tokens, content : Contents]
  \cup [op : {"remove"}, by : Authors, token : Tokens]
  \cup [op : {"moderate"}, token : Tokens, target : States]

Answers == {"created", "replayed", "conflict", "done", "forbidden", "notfound", "noop", "error"}

ASSUME NoneAssumption == None \notin Requests \cup Ops \cup Answers

VARIABLES
  outside,    \* whether rows also come from a client that takes no advisory lock
  table, events, req, answer,
  minted,     \* tokens ever given to a row
  pc,         \* the statement each request is about to run
  key,        \* the author whose lock it takes: pg_advisory_xact_lock(product:author)
  before,     \* the moderation state its first read saw
  holder,     \* who holds each author's lock
  change      \* its transaction's uncommitted change: rows out, rows in

vars == <<outside, table, events, req, answer, minted, pc, key, before, holder, change>>

RowOf(a) == {x \in table : x.author = a}
RowAt(t) == {x \in table : x.token = t}
NoChange == [out |-> {}, in |-> {}]

\* Rows another transaction has written and not committed: a statement that
\* would write them waits.
Unsettled(q) == UNION {change[s].out \cup change[s].in : s \in Requests \ {q}}

Init ==
  /\ outside \in BOOLEAN
  /\ \E own \in SUBSET Authors : \E tok \in [own -> Tokens], con \in [own -> Contents],
                                     st \in [own -> States] :
       /\ \A a, b \in own : tok[a] = tok[b] => a = b
       /\ table = {[author |-> a, token |-> tok[a], content |-> con[a], st |-> st[a]] : a \in own}
       /\ minted = {tok[a] : a \in own}
  /\ events = 0
  /\ req = [q \in Requests |-> None] /\ answer = [q \in Requests |-> None]
  /\ pc = [q \in Requests |-> "idle"] /\ key = [q \in Requests |-> None]
  /\ before = [q \in Requests |-> None]
  /\ holder = [a \in Authors |-> None] /\ change = [q \in Requests |-> NoChange]

Call(q, r) ==
  /\ pc[q] = "idle"
  /\ req' = [req EXCEPT ![q] = r] /\ pc' = [pc EXCEPT ![q] = "read"]
  /\ UNCHANGED <<outside, table, events, answer, minted, key, before, holder, change>>

\* Mutant: a decision under the lock that leaves its transaction open.
EndLeavingOpen(q, a) ==
  /\ answer' = [answer EXCEPT ![q] = a]
  /\ pc' = [pc EXCEPT ![q] = "end"]
  /\ UNCHANGED <<holder, change>>

\* The request ends: its transaction, if any, is over and its lock released.
End(q, a) ==
  /\ answer' = [answer EXCEPT ![q] = a]
  /\ pc' = [pc EXCEPT ![q] = "end"]
  /\ holder' = [b \in Authors |-> IF holder[b] = q THEN None ELSE holder[b]]
  /\ change' = [change EXCEPT ![q] = NoChange]

\* The request needs the lock of author a and goes on to take it.
Proceed(q, a) ==
  /\ key' = [key EXCEPT ![q] = a] /\ pc' = [pc EXCEPT ![q] = "lock"]
  /\ UNCHANGED <<answer, holder, change>>

\* replayOrConflict on the author's row, absent when a racing row vanished.
Duplicate(rows, r) ==
  IF \E x \in rows : x.content = r.content THEN "replayed" ELSE "conflict"

-----------------------------------------------------------------------------
(* Step 1: the state check, outside any transaction. *)

ReadForSubmit(q) ==
  /\ pc[q] = "read" /\ req[q].op = "submit"
  /\ IF RowOf(req[q].by) # {}
     THEN End(q, Duplicate(RowOf(req[q].by), req[q])) /\ UNCHANGED key
     ELSE Proceed(q, req[q].by)
  /\ UNCHANGED <<outside, table, events, req, minted, before>>

\* resolveReviewProductForOwner: another's review and no review are one answer.
ReadForOwner(q) ==
  /\ pc[q] = "read" /\ req[q].op \in {"update", "remove"}
  /\ IF \E x \in RowAt(req[q].token) : x.author = req[q].by
     THEN Proceed(q, req[q].by)
     ELSE End(q, "forbidden") /\ UNCHANGED key
  /\ UNCHANGED <<outside, table, events, req, minted, before>>

\* readModerationRow: absent, already at the target, or the state to re-assert.
ReadForModeration(q) ==
  /\ pc[q] = "read" /\ req[q].op = "moderate"
  /\ \/ /\ RowAt(req[q].token) = {}
        /\ End(q, "notfound") /\ UNCHANGED <<key, before>>
     \/ \E x \in RowAt(req[q].token) :
          IF x.st = req[q].target THEN End(q, "noop") /\ UNCHANGED <<key, before>>
          ELSE Proceed(q, x.author) /\ before' = [before EXCEPT ![q] = x.st]
  /\ UNCHANGED <<outside, table, events, req, minted>>

-----------------------------------------------------------------------------
(* Step 2: the claim. *)

\* acquireReviewLock, the transaction's first statement.
Lock(q) ==
  /\ pc[q] = "lock" /\ holder[key[q]] = None
  /\ holder' = [holder EXCEPT ![key[q]] = q]
  /\ pc' = [pc EXCEPT ![q] = "locked"]
  /\ UNCHANGED <<outside, table, events, req, answer, minted, key, before, change>>

-----------------------------------------------------------------------------
(* Step 5: the statements under the lock. *)

\* The author's row is read again: found, the request is decided after all.
RereadForSubmit(q) ==
  /\ pc[q] = "locked" /\ req[q].op = "submit"
  /\ \/ /\ RowOf(req[q].by) # {}
        /\ End(q, Duplicate(RowOf(req[q].by), req[q]))
     \/ /\ RowOf(req[q].by) = {}
        /\ pc' = [pc EXCEPT ![q] = "insert"]
        /\ UNCHANGED <<answer, holder, change>>
  /\ UNCHANGED <<outside, table, events, req, minted, key, before>>

\* The transaction of q has changed rows and goes on to emit its event.
Written(q, gone, new) ==
  /\ change' = [change EXCEPT ![q] = [out |-> gone, in |-> new]]
  /\ pc' = [pc EXCEPT ![q] = "emit"]
  /\ UNCHANGED <<answer, holder>>

\* Mutant: the table has no unique constraint.
InsertUnconstrained(q) ==
  /\ pc[q] = "insert"
  /\ \E t \in Tokens \ minted :
       /\ Written(q, {}, {[author |-> req[q].by, token |-> t,
                           content |-> req[q].content, st |-> "published"]})
       /\ minted' = minted \cup {t}
  /\ UNCHANGED <<outside, table, events, req, key, before>>

\* INSERT with a fresh token.  uq_review__product_id__author_id makes it wait
\* for an uncommitted row of the author and fail on a committed one.
Insert(q) ==
  /\ pc[q] = "insert"
  /\ \A x \in Unsettled(q) : x.author # req[q].by
  /\ IF RowOf(req[q].by) = {}
     THEN \E t \in Tokens \ minted :
            /\ Written(q, {}, {[author |-> req[q].by, token |-> t,
                                content |-> req[q].content, st |-> "published"]})
            /\ minted' = minted \cup {t}
     ELSE /\ pc' = [pc EXCEPT ![q] = "violated"]
          /\ holder' = [b \in Authors |-> IF holder[b] = q THEN None ELSE holder[b]]
          /\ UNCHANGED <<answer, change, minted>>
  /\ UNCHANGED <<outside, table, events, req, key, before>>

\* Step 6: the re-read after the rollback decides, on the pooled handle.
ReadAfterViolation(q) ==
  /\ pc[q] = "violated"
  /\ End(q, Duplicate(RowOf(req[q].by), req[q]))
  /\ UNCHANGED <<outside, table, events, req, minted, key, before>>

\* UPDATE or DELETE ... WHERE token AND author_id: ownership asserted again.
WriteForOwner(q) ==
  LET mine == {x \in RowAt(req[q].token) : x.author = req[q].by} IN
  /\ pc[q] = "locked" /\ req[q].op \in {"update", "remove"}
  /\ \A x \in Unsettled(q) : x.token # req[q].token
  /\ \/ mine = {} /\ End(q, "forbidden")
     \/ /\ mine # {}
        /\ Written(q, mine, IF req[q].op = "remove" THEN {}
                            ELSE {[x EXCEPT !.content = req[q].content] : x \in mine})
  /\ UNCHANGED <<outside, table, events, req, minted, key, before>>

\* Mutant: UPDATE ... WHERE token, without the state that was read.
WriteForModerationBlind(q) ==
  LET rows == RowAt(req[q].token) IN
  /\ pc[q] = "locked" /\ req[q].op = "moderate"
  /\ \A x \in Unsettled(q) : x.token # req[q].token
  /\ \/ rows = {} /\ End(q, "notfound")
     \/ rows # {} /\ Written(q, rows, {[x EXCEPT !.st = req[q].target] : x \in rows})
  /\ UNCHANGED <<outside, table, events, req, minted, key, before>>

\* UPDATE ... WHERE token AND state = the state read: no row back means the
\* state moved or the review went, and the row is read again under the lock.
WriteForModeration(q) ==
  LET rows == {x \in RowAt(req[q].token) : x.st = before[q]} IN
  /\ pc[q] = "locked" /\ req[q].op = "moderate"
  /\ \A x \in Unsettled(q) : x.token # req[q].token
  /\ \/ rows = {} /\ End(q, IF RowAt(req[q].token) = {} THEN "notfound" ELSE "noop")
     \/ rows # {} /\ Written(q, rows, {[x EXCEPT !.st = req[q].target] : x \in rows})
  /\ UNCHANGED <<outside, table, events, req, minted, key, before>>

\* emitRatingRecompute(trx, ...): the event joins the open transaction.
Emit(q) ==
  /\ pc[q] = "emit" /\ pc' = [pc EXCEPT ![q] = "commit"]
  /\ UNCHANGED <<outside, table, events, req, answer, minted, key, before, holder, change>>

\* COMMIT lands the change and its event; the answer may be lost on its way.
Commit(q) ==
  /\ pc[q] = "commit"
  /\ table' = (table \ change[q].out) \cup change[q].in
  /\ events' = events + 1
  /\ \E a \in {IF req[q].op = "submit" THEN "created" ELSE "done", "error"} : End(q, a)
  /\ UNCHANGED <<outside, req, minted, key, before>>

\* The connection or the process fails: the transaction rolls back.
Fail(q) ==
  /\ pc[q] \notin {"idle", "end"}
  /\ End(q, "error")
  /\ UNCHANGED <<outside, table, events, req, minted, key, before>>

\* Another client's INSERT, a transaction of one statement under the table's
\* constraints and outside the package's lock and events.
OutsideInsert(a, t, c) ==
  /\ outside /\ t \notin minted /\ RowOf(a) = {}
  /\ \A x \in Unsettled(None) : x.author # a
  /\ table' = table \cup {[author |-> a, token |-> t, content |-> c, st |-> "published"]}
  /\ minted' = minted \cup {t}
  /\ UNCHANGED <<outside, events, req, answer, pc, key, before, holder, change>>

Step(q) ==
  \/ ReadForSubmit(q) \/ ReadForOwner(q) \/ ReadForModeration(q) \/ Lock(q)
  \/ RereadForSubmit(q) \/ Insert(q) \/ ReadAfterViolation(q)
  \/ WriteForOwner(q) \/ WriteForModeration(q) \/ Emit(q) \/ Commit(q)

Next ==
  \/ \E q \in Requests : (\E r \in Ops : Call(q, r)) \/ Step(q) \/ Fail(q)
  \/ \E a \in Authors, t \in Tokens, c \in Contents : OutsideInsert(a, t, c)

Spec == Init /\ [][Next]_vars

-----------------------------------------------------------------------------
(* Properties *)

\* Every variable holds a value of its column or set.
TypeOK ==
  /\ outside \in BOOLEAN /\ table \subseteq Rows /\ events \in Nat /\ minted \subseteq Tokens
  /\ req \in [Requests -> Ops \cup {None}]
  /\ answer \in [Requests -> Answers \cup {None}]
  /\ pc \in [Requests -> {"idle", "read", "lock", "locked", "insert", "violated", "emit",
                          "commit", "end"}]
  /\ key \in [Requests -> Authors \cup {None}]
  /\ before \in [Requests -> States \cup {None}]
  /\ holder \in [Authors -> Requests \cup {None}]
  /\ change \in [Requests -> [out : SUBSET Rows, in : SUBSET Rows]]

\* SPEC-0001 rule 2, whoever writes: one review per author and per token, and
\* an open transaction still replaces exactly the row it read, so that its
\* COMMIT undoes nothing that was committed in between.
OneReviewEach ==
  /\ \A x, y \in table : x.author = y.author \/ x.token = y.token => x = y
  /\ \A q \in Requests :
       /\ change[q].out \subseteq table
       /\ \A x \in change[q].in, y \in table \ change[q].out : x.author # y.author

\* No set of requests waits for one another: with three kinds of lock about, the
\* author's, written rows and the constraint's, some unanswered request can go on.
NoDeadlock ==
  (\E q \in Requests : pc[q] \notin {"idle", "end"}) => \E q \in Requests : ENABLED Step(q)

Atomic == INSTANCE AtomicReviews

\* Pre-reads, locks and re-assertions together make every request atomic, with
\* one event for each change and none for a replay, a refusal or a no-op: what
\* SPEC-0004's six steps are for, as long as every writer goes through them.
ImplementsAtomicReviews == [][outside \/ Atomic!ANext]_(Atomic!avars)
=============================================================================
