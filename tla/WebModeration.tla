---------------------------- MODULE WebModeration ----------------------------
(***************************************************************************)
(* The moderation screen (features/moderation): one list per state filter, *)
(* a reject or a restore per row, several rows in flight at once.          *)
(***************************************************************************)
EXTENDS WebTab

CONSTANTS Reviews

States == {"published", "rejected"}
Other(f) == CHOOSE g \in States : g # f

VARIABLES
  state,     \* what the server says of every review
  disturbed, \* reviews acted on by a call whose answer was lost
  lists      \* the cached list of each filter; one that failed hides its rows

modVars == <<state, disturbed, lists>>
modTab == <<journey, place, live, staff, known>>

NoList == [failed |-> FALSE, rows |-> {}]

ModerationInit ==
  /\ state \in (IF "moderation" \in journey THEN [Reviews -> States]
                ELSE {[r \in Reviews |-> "published"]})
  /\ disturbed = {}
  /\ lists = [f \in States |-> NoList]

Moderating == view.page = "moderation"

\* invalidateQueries on the key of one filter, or the first read of it: a fetch
\* of that filter in flight is superseded, one of the other filter is not touched.
\* The library joins a first load instead: none is out when an act is answered, for
\* its row was loaded, and what was loaded outlives the call in the cache (bound:
\* the screen shows nothing of it before it is read again, and a list is one page).
\* Mutant: the fetch in flight is kept.
ReadAgainJoined(f, some) ==
  IF \E c \in some : c.op = "moderation" /\ c.of.filter = f THEN some
  ELSE some \cup {Call("moderation", [filter |-> f])}
ReadAgain(f, some) ==
  {c \in some : ~(c.op = "moderation" /\ c.of.filter = f)}
    \cup {Call("moderation", [filter |-> f])}

MountModeration ==
  /\ Page = "moderation"
  /\ Mount([page |-> "moderation", filter |-> "published", pending |-> {}])
  /\ calls' = ReadAgain("published", calls)
  /\ UNCHANGED modVars

\* Lists nobody watches are collected (bound: as soon as another screen shows).
CollectLists ==
  /\ lists' = [f \in States |-> NoList]
  /\ UNCHANGED <<state, disturbed>>

\* Another filter is another query: the old one loses its watcher.
SwitchFilter ==
  /\ Moderating
  /\ view' = [view EXCEPT !.filter = Other(@)]
  /\ calls' = ReadAgain(view'.filter, calls \ Reading)
  /\ UNCHANGED modTab /\ UNCHANGED modVars

\* "Retry", and the refetch when the window regains the focus.
RefreshList ==
  /\ Moderating /\ Reading = {}
  /\ calls' = ReadAgain(view.filter, calls)
  /\ UNCHANGED view /\ UNCHANGED modTab /\ UNCHANGED modVars

\* handleReject and handleRestore: act, with the list's invalidate as it was when
\* the button was rendered.  Bound: not while a call of a screen left is out.
Act(r) ==
  /\ Cardinality(calls \ Reading) < MaxWrites /\ \A c \in calls : c.here
  /\ Moderating
  /\ r \in lists[view.filter].rows \ view.pending
  /\ view' = [view EXCEPT !.pending = @ \cup {r}]
  /\ calls' = calls \cup {Call("act", [token |-> r, filter |-> view.filter])}
  /\ UNCHANGED modTab /\ UNCHANGED modVars

\* rejectReview and restoreReview are idempotent; an answer may be
\* lost (bound: of one review's calls).
ServeAct(c) ==
  /\ Sent(c) /\ c.op = "act" /\ live
  /\ state' = [state EXCEPT ![c.of.token] = Other(c.of.filter)]
  /\ \E lost \in {FALSE, disturbed = {}} :
       /\ calls' = Answered(c, [is |-> IF lost THEN "failed" ELSE "ok"])
       /\ disturbed' = IF lost THEN disturbed \cup {c.of.token} ELSE disturbed
  /\ UNCHANGED <<view, lists>> /\ UNCHANGED modTab

ServeList(c) ==
  /\ Sent(c) /\ c.op = "moderation" /\ live
  /\ calls' = Answered(c, [is |-> "ok", rows |-> {r \in Reviews : state[r] = c.of.filter}])
  /\ UNCHANGED view /\ UNCHANGED modTab /\ UNCHANGED modVars

\* A success invalidates the filter the row was acted on under, which is read
\* again if it is on display; a failure is shown on its row (left out: nothing
\* reads it).  The row is interactive again either way.
AnswerAct(c) ==
  /\ c \in calls /\ c.op = "act" /\ c.got.is \in {"ok", "failed"}
  /\ calls' = IF c.got.is = "ok" /\ Moderating /\ view.filter = c.of.filter
                THEN ReadAgain(c.of.filter, calls \ {c}) ELSE calls \ {c}
  /\ view' = IF ~c.here THEN view
             ELSE [view EXCEPT !.pending = @ \ {c.of.token}]
  /\ UNCHANGED modTab /\ UNCHANGED modVars

AnswerList(c) ==
  /\ c \in calls /\ c.op = "moderation" /\ c.got.is \in {"ok", "failed"}
  /\ calls' = calls \ {c}
  /\ lists' = [lists EXCEPT ![c.of.filter] =
                 IF c.got.is = "failed" THEN [failed |-> TRUE, rows |-> {}]
                 ELSE [failed |-> FALSE, rows |-> c.got.rows]]
  /\ UNCHANGED <<view, state, disturbed>> /\ UNCHANGED modTab

ModerationCall(c) == ServeAct(c) \/ ServeList(c) \/ AnswerAct(c) \/ AnswerList(c)

ModerationStep ==
  \/ SwitchFilter \/ RefreshList
  \/ \E r \in Reviews : Act(r)
=============================================================================
