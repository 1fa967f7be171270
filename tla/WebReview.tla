------------------------------ MODULE WebReview ------------------------------
(***************************************************************************)
(* The product page with its review form, its delete dialog and its review *)
(* list (routes/products/$productSlug.tsx, features/review-submit,         *)
(* features/product-detail).  The form is open when the location says      *)
(* ?review=new or ?review=edit: the pages "new" and "edit" here.  The draft*)
(* of a new review lives in sessionStorage, which outlives page loads.     *)
(* The reviews are those of the one account that uses the tab.             *)
(***************************************************************************)
EXTENDS WebTab

CONSTANTS Texts   \* what a valid review may say

NoText == "blank"

VARIABLES
  draft,    \* the draft in sessionStorage
  typed,    \* what was last typed into a new review, until it is accepted or cancelled
  overtaken, \* the draft was since rewritten by the form of an edit, or cleared by the
             \* success of another text (an observer, like typed)
  mine,     \* the account's review on the server
  late,     \* it lies past the first page of the list
  foreign,  \* the server's review was changed without this tab being told
  reviews,  \* the cached list: the own review in it, whose session read it, pages loaded
  owed      \* the last refetch asked for was not made, or not finished (an observer)

reviewVars == <<draft, typed, overtaken, mine, late, foreign, reviews, owed>>
storage == <<draft, typed, overtaken>>
cached == <<reviews, owed>>
server == <<mine, late, foreign>>
tabIdentity == <<journey, live, staff, known>>

NoReviews == [loaded |-> FALSE, failed |-> FALSE, own |-> NoText, signed |-> FALSE, deep |-> FALSE]

\* Bound: reviews are read and written in the behaviours that have the form.
Reviewing == {"new", "edit"} \cap journey # {}

ReviewInit ==
  /\ draft = NoText /\ typed = NoText /\ overtaken = FALSE
  /\ mine \in (IF Reviewing THEN {NoText} \cup Texts ELSE {NoText})
  /\ late \in (IF mine = NoText THEN {FALSE} ELSE BOOLEAN)
  /\ foreign = FALSE
  /\ reviews = NoReviews /\ owed = FALSE

OnProduct == view.page = "product"
Closed == [page |-> "product", form |-> "closed", text |-> NoText, busy |-> FALSE,
           error |-> "none", dialog |-> "closed"]
Open(text) == [Closed EXCEPT !.form = "open", !.text = text]

\* initFrom: the review being edited if the list has it, else the draft.
InitialText(p) == IF p = "edit" /\ reviews.own # NoText THEN reviews.own ELSE draft

\* Bound: the product has two pages of reviews.  A refetch reads every page that
\* is loaded; "Load more" reads the second alone.
ReadReviews == Call("reviews", [deep |-> reviews.deep, more |-> FALSE])
NotReading(some) == {c \in some : c.op # "reviews"}

\* A refetch supersedes the fetch in flight when there are reviews to show
\* meanwhile; the first load is joined instead, and its answer is taken as the
\* refetch's.
Joins(some) == ~reviews.loaded /\ NotReading(some) # some
Refetched(some) == IF Joins(some) THEN some ELSE NotReading(some) \cup {ReadReviews}
RefetchReviews(some) ==
  /\ calls' = Refetched(some)
  /\ owed' = Joins(some)

-----------------------------------------------------------------------------
(* The page *)

\* The loader has the product; the list is read whenever the page is mounted.  A form on
\* it writes the draft back at once, which changes nothing.
MountProduct ==
  /\ Page \in ProductPages
  /\ Mount(IF Page = "product" THEN Closed ELSE Open(InitialText(Page)))
  /\ IF Reviewing THEN RefetchReviews(calls) ELSE UNCHANGED <<calls, owed>>
  /\ UNCHANGED <<reviews, storage, server>>

\* The loader fails: the product does not exist, or the route's error screen.
ProductFails ==
  /\ view = Blank /\ Page \in ProductPages
  /\ view' = Broken
  /\ UNCHANGED <<place, calls>> /\ UNCHANGED tabIdentity /\ UNCHANGED reviewVars

\* A form, or a dialog, of the page goes away while the page stays.
Abandoned(some) == {IF c.op \in Reads THEN c ELSE [c EXCEPT !.here = FALSE] : c \in some}

\* "Write a review", "Edit" beside the own review, or the browser's history, which
\* may close a dialog.
OpenForm(p) ==
  /\ p \in journey
  /\ OnProduct /\ Page = "product"
  /\ place' = <<p>> /\ view' = Open(InitialText(p))
  /\ calls' = Abandoned(calls)
  /\ UNCHANGED tabIdentity /\ UNCHANGED reviewVars

\* The browser's history between ?review=new and ?review=edit (several steps at
\* once) keeps the form mounted with all it holds.  The effect that stores a new
\* review's draft runs again as the mode becomes new.
SwitchForm(p) ==
  /\ p \in journey \ {Page}
  /\ OnProduct /\ view.form = "open"
  /\ place' = <<p>>
  /\ IF p = "new"
       THEN draft' = view.text /\ overtaken' = (view.text # typed) /\ UNCHANGED typed
       ELSE UNCHANGED storage
  /\ UNCHANGED <<view, calls, cached>> /\ UNCHANGED tabIdentity /\ UNCHANGED server

\* Every keystroke of a new review is stored; the fields are disabled while a
\* submission is out.
Type(text) ==
  /\ OnProduct /\ view.form = "open" /\ ~view.busy
  /\ view' = [view EXCEPT !.text = text, !.error = "none"]
  /\ IF Page = "new"
       THEN draft' = text /\ typed' = text /\ overtaken' = FALSE
       ELSE UNCHANGED storage
  /\ UNCHANGED <<place, calls, cached>> /\ UNCHANGED tabIdentity /\ UNCHANGED server

CancelForm ==
  /\ OnProduct /\ view.form = "open" /\ ~view.busy
  /\ IF Page = "new"
       THEN draft' = NoText /\ typed' = NoText /\ overtaken' = FALSE
       ELSE UNCHANGED storage
  /\ place' = <<"product">> /\ view' = Closed
  /\ UNCHANGED <<calls, cached>> /\ UNCHANGED tabIdentity /\ UNCHANGED server

\* The browser's back button closes the form and keeps the draft.
BackToPage ==
  /\ OnProduct /\ view.form = "open"
  /\ place' = <<"product">> /\ view' = Closed
  /\ calls' = Abandoned(calls)
  /\ UNCHANGED tabIdentity /\ UNCHANGED reviewVars

\* Without a session the submit button is a prompt; it always returns to ?review=new.
PromptSignIn ==
  /\ OnProduct /\ view.form = "open" /\ ~known
  /\ Goto(SignInFrom(<<"new">>))
  /\ UNCHANGED reviewVars

\* handleSubmit: client-side validation, then update of the review on display in
\* edit mode, submit otherwise.
SubmitForm ==
  /\ MaySend
  /\ OnProduct /\ view.form = "open" /\ ~view.busy /\ known
  /\ IF view.text = NoText
       THEN view' = [view EXCEPT !.error = "invalid"] /\ UNCHANGED calls
       ELSE /\ view' = [view EXCEPT !.busy = TRUE, !.error = "none"]
            /\ calls' = calls \cup
                 {Call(IF Page = "edit" /\ reviews.own # NoText THEN "update" ELSE "submit",
                       [text |-> view.text, mode |-> Page])}
  /\ UNCHANGED place /\ UNCHANGED tabIdentity /\ UNCHANGED reviewVars

-----------------------------------------------------------------------------
(* The api's side of the review calls, each done whole; an answer may be lost *)

Written(c, new) ==
  /\ mine' = new
  /\ \E lost \in BOOLEAN :
       /\ calls' = Answered(c, [is |-> IF lost THEN "failed" ELSE "ok"])
       /\ foreign' = (foreign \/ lost)

ServeReview(c) ==
  /\ Sent(c) /\ c.op \in {"submit", "update", "remove"} /\ live
  /\ CASE c.op = "submit" /\ mine # NoText ->
            /\ calls' = Answered(c, [is |-> "conflict"]) /\ UNCHANGED server
       [] c.op # "submit" /\ mine = NoText ->
            /\ calls' = Answered(c, [is |-> "failed"]) /\ UNCHANGED server
       [] OTHER ->
            /\ Written(c, IF c.op = "remove" THEN NoText ELSE c.of.text)
            /\ late' = (late /\ c.op = "update")
  /\ UNCHANGED <<place, view, cached>> /\ UNCHANGED tabIdentity /\ UNCHANGED storage

\* The account writes, edits or deletes its review in another tab.
WriteElsewhere ==
  /\ Reviewing /\ ~foreign
  /\ mine' \in ({NoText} \cup Texts) \ {mine}
  /\ late' = (late /\ mine' # NoText)
  /\ foreign' = TRUE
  /\ UNCHANGED <<place, view, calls, cached>> /\ UNCHANGED tabIdentity /\ UNCHANGED storage

\* authoredByViewer is told to a session only; a page holds 20 reviews.
Carries(c) == IF late THEN c.of.deep ELSE ~c.of.more
ServeReviews(c) ==
  /\ Sent(c) /\ c.op = "reviews"
  /\ calls' = Answered(c, [is |-> "ok", signed |-> live,
                           own |-> IF live /\ Carries(c) THEN mine ELSE NoText])
  /\ UNCHANGED <<place, view>> /\ UNCHANGED tabIdentity /\ UNCHANGED reviewVars

-----------------------------------------------------------------------------
(* Answers *)

\* reviewsQuery.invalidate and closeForm.  A form that was left has navigated
\* away from nothing: whether its navigation still takes the user to the product
\* is the router's choice.
AfterWrite(c) ==
  /\ place' \in (IF c.here THEN {<<"product">>} ELSE {place, <<"product">>})
  /\ view' = IF place' = place /\ ~c.here THEN view
             ELSE IF OnProduct THEN Closed ELSE Blank
  /\ IF view'.page = "product" THEN RefetchReviews(calls \ {c})
     ELSE /\ calls' = IF view' = Blank THEN Unmounted(calls \ {c}) ELSE calls \ {c}
          /\ UNCHANGED owed

\* The draft is cleared by the success of a new review, wherever the user is and
\* whatever was typed since it was sent.
AnswerWritten(c) ==
  /\ c \in calls /\ c.op \in {"submit", "update"} /\ c.got.is = "ok"
  /\ AfterWrite(c)
  /\ IF c.of.mode = "new"
       THEN /\ draft' = NoText
            /\ typed' = IF c.of.text = typed THEN NoText ELSE typed
            /\ overtaken' = (typed' # NoText)
       ELSE UNCHANGED storage
  /\ UNCHANGED reviews /\ UNCHANGED tabIdentity /\ UNCHANGED server

\* The reducer's failed: the form is editable again, nothing typed is touched.
\* Mutant: the draft is cleared in a finally.
AnswerNotWrittenFinally(c) ==
  /\ c \in calls /\ c.op \in {"submit", "update"} /\ c.got.is \in {"conflict", "failed"}
  /\ calls' = calls \ {c}
  /\ view' = IF c.here THEN [view EXCEPT !.busy = FALSE, !.error = c.got.is] ELSE view
  /\ draft' = IF c.of.mode = "new" THEN NoText ELSE draft
  /\ UNCHANGED <<place, typed, overtaken, cached>> /\ UNCHANGED tabIdentity /\ UNCHANGED server
AnswerNotWritten(c) ==
  /\ c \in calls /\ c.op \in {"submit", "update"} /\ c.got.is \in {"conflict", "failed"}
  /\ calls' = calls \ {c}
  /\ view' = IF c.here THEN [view EXCEPT !.busy = FALSE, !.error = c.got.is] ELSE view
  /\ UNCHANGED place /\ UNCHANGED tabIdentity /\ UNCHANGED reviewVars

\* "View your review": handleConflict.
ViewYours ==
  /\ OnProduct /\ view.form = "open" /\ view.error = "conflict"
  /\ place' = <<"product">> /\ view' = Closed
  /\ RefetchReviews(calls)
  /\ UNCHANGED tabIdentity /\ UNCHANGED <<reviews, storage, server>>

\* The pages of a refetch replace what is cached; the page of a "Load more" is
\* added to it, and the first own review found is the one on display.  A dialog on
\* a review that is no longer listed goes away with it.
AnswerReviews(c) ==
  /\ c \in calls /\ c.op = "reviews" /\ c.got.is \in {"ok", "failed"}
  /\ reviews' = IF c.got.is = "failed" THEN [reviews EXCEPT !.failed = TRUE]
                ELSE [loaded |-> TRUE, failed |-> FALSE, deep |-> c.of.deep,
                      own |-> IF c.of.more /\ reviews.own # NoText THEN reviews.own ELSE c.got.own,
                      signed |-> c.got.signed /\ (c.of.more => reviews.signed)]
  /\ IF reviews'.own = NoText /\ view.dialog # "closed"
       THEN /\ view' = [view EXCEPT !.dialog = "closed"]
            /\ calls' = Unmounted(calls)
       ELSE calls' = calls \ {c} /\ UNCHANGED view
  /\ UNCHANGED <<place, owed>> /\ UNCHANGED tabIdentity /\ UNCHANGED storage /\ UNCHANGED server

-----------------------------------------------------------------------------
(* The list and the delete dialog *)

\* "Load more": the button is disabled by its own fetch alone, and supersedes a
\* refetch.  Pages stay loaded: every later refetch reads them all.
LoadMore ==
  /\ OnProduct /\ reviews.loaded /\ ~reviews.failed /\ ~reviews.deep
  /\ \A c \in calls : c.op = "reviews" => ~c.of.more
  /\ calls' = NotReading(calls) \cup {Call("reviews", [deep |-> TRUE, more |-> TRUE])}
  /\ owed' = (owed \/ NotReading(calls) # calls)
  /\ UNCHANGED <<place, view, reviews>> /\ UNCHANGED tabIdentity
  /\ UNCHANGED storage /\ UNCHANGED server

\* "Retry", and the refetch when the window regains the focus.
RefreshReviews ==
  /\ Reviewing
  /\ OnProduct /\ NotReading(calls) = calls
  /\ RefetchReviews(calls)
  /\ UNCHANGED <<place, view, reviews>> /\ UNCHANGED tabIdentity
  /\ UNCHANGED storage /\ UNCHANGED server

ToggleDialog ==
  /\ OnProduct /\ view.form = "closed" /\ view.dialog # "busy"
  /\ reviews.own # NoText
  /\ view' = [view EXCEPT !.dialog = IF @ = "closed" THEN "open" ELSE "closed"]
  /\ UNCHANGED <<place, calls>> /\ UNCHANGED tabIdentity /\ UNCHANGED reviewVars

ConfirmDelete ==
  /\ MaySend
  /\ OnProduct /\ view.dialog \in {"open", "failed"}
  /\ view' = [view EXCEPT !.dialog = "busy"]
  /\ calls' = calls \cup {Call("remove", [text |-> NoText])}
  /\ UNCHANGED place /\ UNCHANGED tabIdentity /\ UNCHANGED reviewVars

\* onDeleted is the list's invalidate; the dialog closes on success alone.
AnswerRemoved(c) ==
  /\ c \in calls /\ c.op = "remove" /\ c.got.is \in {"ok", "failed"}
  /\ view' = IF ~c.here THEN view
             ELSE [view EXCEPT !.dialog = IF c.got.is = "ok" THEN "closed" ELSE "failed"]
  /\ IF OnProduct /\ c.got.is = "ok" THEN RefetchReviews(calls \ {c})
     ELSE calls' = calls \ {c} /\ UNCHANGED owed
  /\ UNCHANGED <<place, reviews>> /\ UNCHANGED tabIdentity /\ UNCHANGED storage /\ UNCHANGED server

ReviewCall(c) ==
  \/ ServeReview(c) \/ ServeReviews(c)
  \/ AnswerWritten(c) \/ AnswerNotWritten(c) \/ AnswerReviews(c) \/ AnswerRemoved(c)

ReviewStep ==
  \/ \E p \in {"new", "edit"} : OpenForm(p) \/ SwitchForm(p)
  \/ \E text \in Texts \cup {NoText} : Type(text)
  \/ CancelForm \/ BackToPage \/ PromptSignIn \/ SubmitForm
  \/ ViewYours \/ LoadMore \/ RefreshReviews
  \/ ToggleDialog \/ ConfirmDelete \/ WriteElsewhere
=============================================================================
