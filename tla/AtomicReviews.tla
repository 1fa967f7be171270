---------------------------- MODULE AtomicReviews ----------------------------
(***************************************************************************)
(* The reviews of one product as the callers of packages/reviews see them: *)
(* each request takes effect, with its answer and at most one recompute    *)
(* event, in a single step between its call and its answer.  A request     *)
(* whose connection or process fails answers "error", and may or may not   *)
(* have taken effect.                                                      *)
(***************************************************************************)
EXTENDS Naturals

CONSTANTS Requests, None, Tokens

VARIABLES
  table,    \* rows of reviews.review: [author, token, content, st]
  events,   \* recompute events committed with them
  req,      \* the request each caller made, None before
  answer    \* its answer, None until there is one

avars == <<table, events, req, answer>>

RowOf(a) == {x \in table : x.author = a}
RowAt(t) == {x \in table : x.token = t}

\* replayOrConflict: the same content again is a replay, other content refused.
Duplicate(x, r) == IF x.content = r.content THEN "replayed" ELSE "conflict"

\* What the request would do to the table now: the new table and its answer.
Outcomes(r) ==
  CASE r.op = "submit" ->
         IF RowOf(r.by) # {} THEN {<<table, Duplicate(x, r)>> : x \in RowOf(r.by)}
         ELSE {<<table \cup {[author |-> r.by, token |-> t, content |-> r.content,
                              st |-> "published"]}, "created">> :
                 t \in {u \in Tokens : RowAt(u) = {}}}
    [] r.op \in {"update", "remove"} ->
         IF \E x \in RowAt(r.token) : x.author = r.by
         THEN {<<(table \ {x}) \cup
                   (IF r.op = "remove" THEN {} ELSE {[x EXCEPT !.content = r.content]}), "done">> :
                 x \in RowAt(r.token)}
         ELSE {<<table, "forbidden">>}
    [] r.op = "moderate" ->
         IF RowAt(r.token) = {} THEN {<<table, "notfound">>}
         ELSE {IF x.st = r.target THEN <<table, "noop">>
               ELSE <<(table \ {x}) \cup {[x EXCEPT !.st = r.target]}, "done">> :
                 x \in RowAt(r.token)}

Call(q, r) ==
  /\ req[q] = None /\ req' = [req EXCEPT ![q] = r]
  /\ UNCHANGED <<table, events, answer>>

\* Created and done writes owe one event each, every other answer none.
Perform(q) ==
  /\ req[q] # None /\ answer[q] = None
  /\ \E o \in Outcomes(req[q]) :
       /\ table' = o[1]
       /\ events' = IF o[2] \in {"created", "done"} THEN events + 1 ELSE events
       /\ answer' = [answer EXCEPT ![q] = o[2]]
  /\ UNCHANGED req

\* The effect commits and its answer is lost.
PerformUnanswered(q) ==
  /\ req[q] # None /\ answer[q] = None
  /\ \E o \in Outcomes(req[q]) :
       /\ o[2] \in {"created", "done"}
       /\ table' = o[1] /\ events' = events + 1
  /\ answer' = [answer EXCEPT ![q] = "error"]
  /\ UNCHANGED req

Fail(q) ==
  /\ req[q] # None /\ answer[q] = None
  /\ answer' = [answer EXCEPT ![q] = "error"]
  /\ UNCHANGED <<table, events, req>>

ANext == \E q \in Requests :
  \/ req[q] = None /\ req'[q] # None /\ Call(q, req'[q])
  \/ Perform(q) \/ PerformUnanswered(q) \/ Fail(q)
=============================================================================
