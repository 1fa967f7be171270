----------------------------- MODULE WebCatalogue -----------------------------
(***************************************************************************)
(* The catalogue screen (features/catalogue): a search box whose keystrokes*)
(* are debounced into the URL, and the results of the URL's filter.  The   *)
(* category box is a second copy of the same field; one is modelled.       *)
(***************************************************************************)
EXTENDS WebTab

CONSTANTS Words   \* what may be searched for

All == "all"      \* no filter
Filters == {All} \cup Words

\* What the box may hold: a filter's text, or the text with a space behind it.
Drafts == [text : Filters, padded : BOOLEAN]
Plain(f) == [text |-> f, padded |-> FALSE]

Browsing == view.page = "home"
\* Bound: the box is used in the behaviours that stay on the catalogue.
Searching == Browsing /\ journey = {"home", "signIn"}
catalogueTab == <<journey, place, live, staff, known>>

ReadProducts(f) == Call("products", [filter |-> f])

\* The filter is part of the query key: reading another one drops the fetch of
\* the last.
ReadFilter(f, some) == {c \in some : c.op # "products"} \cup {ReadProducts(f)}

\* The debounce timer runs while the trimmed box differs from the committed value.
Typing(box, url) == box.text # url

MountCatalogue ==
  /\ Page = "home"
  /\ Mount([page |-> "home", url |-> All, box |-> Plain(All), timer |-> FALSE,
            going |-> {}, shown |-> {}, failed |-> FALSE])
  /\ calls' = IF Searching' THEN ReadFilter(All, calls) ELSE calls

\* A keystroke restarts the timer.
TypeSearch(box) ==
  /\ Searching
  /\ view' = [view EXCEPT !.box = box, !.timer = Typing(box, view.url)]
  /\ UNCHANGED calls /\ UNCHANGED catalogueTab

\* The timer commits the trimmed box: a navigation starts.
Debounce ==
  /\ Browsing /\ view.timer
  /\ view' = [view EXCEPT !.timer = FALSE, !.going = {view.box.text}]
  /\ UNCHANGED calls /\ UNCHANGED catalogueTab

\* "Clear filters" empties the box and navigates at once.
ClearFilters ==
  /\ Searching /\ view.url # All
  /\ view' = [view EXCEPT !.box = Plain(All), !.timer = TRUE, !.going = {All}]
  /\ UNCHANGED calls /\ UNCHANGED catalogueTab

\* The URL names another filter: the box is set to it, over whatever was typed
\* since, and its results are read.
Committed(f) ==
  /\ view' = [view EXCEPT !.url = f, !.box = Plain(f), !.timer = FALSE, !.going = {},
                          !.shown = {}, !.failed = FALSE]
  /\ calls' = ReadFilter(f, calls)
  /\ UNCHANGED catalogueTab

\* The navigation completes.  One to where the URL already is changes nothing,
\* so nothing sets the box.
Arrive ==
  /\ Browsing
  /\ \E f \in view.going :
       IF f # view.url THEN Committed(f)
       ELSE /\ view' = [view EXCEPT !.going = {}]
            /\ UNCHANGED calls /\ UNCHANGED catalogueTab

\* The back or the forward button, under the same screen.
BackOrForward ==
  /\ Searching
  /\ \E f \in Filters \ {view.url} : Committed(f)

\* "Retry", and the refetch when the window regains the focus.
RefreshProducts ==
  /\ Searching /\ Reading = {}
  /\ calls' = ReadFilter(view.url, calls)
  /\ UNCHANGED view /\ UNCHANGED catalogueTab

ServeProducts(c) ==
  /\ Sent(c) /\ c.op = "products"
  /\ calls' = Answered(c, [is |-> "ok"])
  /\ UNCHANGED view /\ UNCHANGED catalogueTab

AnswerProducts(c) ==
  /\ c \in calls /\ c.op = "products" /\ c.got.is \in {"ok", "failed"}
  /\ calls' = calls \ {c}
  /\ view' = IF c.got.is = "failed" THEN [view EXCEPT !.failed = TRUE]
             ELSE [view EXCEPT !.failed = FALSE, !.shown = {c.of.filter}]
  /\ UNCHANGED catalogueTab

CatalogueCall(c) == ServeProducts(c) \/ AnswerProducts(c)

CatalogueStep ==
  \/ (\E box \in Drafts : TypeSearch(box))
  \/ Debounce \/ ClearFilters \/ Arrive \/ BackOrForward \/ RefreshProducts
=============================================================================

