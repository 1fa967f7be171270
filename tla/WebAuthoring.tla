----------------------------- MODULE WebAuthoring -----------------------------
(***************************************************************************)
(* The product form of a catalogue manager (features/catalogue-authoring): *)
(* a new product, whose slug the server derives from its name unless the   *)
(* user edited it, and the edit of an existing one, filled from the cached *)
(* product.  A name stands for all the fields both forms have; a slug      *)
(* derived from a name is written as the name.                             *)
(***************************************************************************)
EXTENDS WebTab

CONSTANTS Names

NoName == "blank"
Derive == "derive"   \* the request leaves the slug out

VARIABLES
  product,   \* the name of the existing product, on the server
  detail,    \* the product cached by products.get
  minted     \* the products created: name and slug

authorVars == <<product, detail, minted>>
authorTab == <<journey, live, staff, known>>

NoDetail == [loaded |-> FALSE, name |-> NoName]

AuthoringInit ==
  /\ product \in Names
  /\ detail = NoDetail
  /\ minted = {}

Authoring == view.page \in {"create", "amend"}

MountCreate ==
  /\ Page = "create"
  /\ Mount([page |-> "create", name |-> NoName, slug |-> NoName, open |-> FALSE,
            touched |-> FALSE, busy |-> FALSE, error |-> "none"])
  /\ UNCHANGED calls /\ UNCHANGED authorVars

\* The loader takes a cached product as it is; the form is filled from it once.
MountAmend ==
  /\ Page = "amend" /\ detail.loaded
  /\ Mount([page |-> "amend", name |-> detail.name, slug |-> NoName, open |-> FALSE,
            touched |-> FALSE, busy |-> FALSE, error |-> "none"])
  /\ UNCHANGED calls /\ UNCHANGED authorVars

\* The loader reads a product that is not cached; the hook on the mounted page
\* reads it again.
ReadDetail ==
  /\ "amend" \in journey
  /\ \/ view = Blank /\ Page = "amend" /\ ~detail.loaded /\ Admitted
     \/ view.page \in {"product", "amend"}
  /\ \A c \in Reading : c.op # "detail"
  /\ calls' = calls \cup {Call("detail", [slug |-> "product"])}
  /\ UNCHANGED <<place, view>> /\ UNCHANGED authorTab /\ UNCHANGED authorVars

Editable == Authoring /\ ~view.busy

TypeName(n) ==
  /\ Editable
  /\ view' = [view EXCEPT !.name = n, !.error = "none"]
  /\ UNCHANGED <<place, calls>> /\ UNCHANGED authorTab /\ UNCHANGED authorVars

\* The field opens on the preview, or on what was typed before.
RevealSlug ==
  /\ Editable /\ view.page = "create" /\ ~view.open
  /\ view' = [view EXCEPT !.open = TRUE, !.slug = IF view.touched THEN @ ELSE view.name]
  /\ UNCHANGED <<place, calls>> /\ UNCHANGED authorTab /\ UNCHANGED authorVars

TypeSlug(s) ==
  /\ Editable /\ view.open
  /\ view' = [view EXCEPT !.slug = s, !.touched = TRUE, !.error = "none"]
  /\ UNCHANGED <<place, calls>> /\ UNCHANGED authorTab /\ UNCHANGED authorVars

Invalid == view.name = NoName \/ (view.touched /\ view.slug = NoName)

\* The slug goes out only if the user edited it.
\* Mutant: it goes out once its field was opened.
SlugSentOpened == IF view.open THEN view.slug ELSE Derive
SlugSent == IF view.touched THEN view.slug ELSE Derive

ProductCall ==
  IF view.page = "amend" THEN Call("amend", [name |-> view.name])
  ELSE Call("create", [name |-> view.name, slug |-> SlugSent, typed |-> view.touched])

\* handleSubmit, in either mode.
SubmitProduct ==
  /\ MaySend
  /\ Editable
  /\ IF Invalid
       THEN view' = [view EXCEPT !.error = "invalid"] /\ UNCHANGED calls
       ELSE /\ view' = [view EXCEPT !.busy = TRUE, !.error = "none"]
            /\ calls' = calls \cup {ProductCall}
  /\ UNCHANGED place /\ UNCHANGED authorTab /\ UNCHANGED authorVars

\* onCancel: back to the catalogue, or to the product.
CancelProduct ==
  /\ Editable
  /\ Goto(IF view.page = "create" THEN <<"home">> ELSE <<"product">>)
  /\ UNCHANGED authorVars

\* The api derives a missing slug; a slug that is taken is a conflict.  Bound:
\* one product is created.
ServeCreate(c) ==
  /\ Sent(c) /\ c.op = "create" /\ live
  /\ LET slug == IF c.of.slug = Derive THEN c.of.name ELSE c.of.slug IN
     \/ /\ minted = {}
        /\ minted' = {[name |-> c.of.name, slug |-> slug, typed |-> c.of.typed]}
        /\ \E got \in {"ok", "failed"} : calls' = Answered(c, [is |-> got])
     \/ /\ calls' = Answered(c, [is |-> "conflict"])
        /\ UNCHANGED minted
  /\ UNCHANGED <<place, view, product, detail>> /\ UNCHANGED authorTab

ServeAmend(c) ==
  /\ Sent(c) /\ c.op = "amend" /\ live
  /\ product' = c.of.name
  /\ \E got \in {"ok", "failed"} : calls' = Answered(c, [is |-> got])
  /\ UNCHANGED <<place, view, detail, minted>> /\ UNCHANGED authorTab

ServeDetail(c) ==
  /\ Sent(c) /\ c.op = "detail"
  /\ calls' = Answered(c, [is |-> "ok", name |-> product])
  /\ UNCHANGED <<place, view>> /\ UNCHANGED authorTab /\ UNCHANGED authorVars

\* onSuccess: the product's page; a form that was left has no navigation of its
\* own, so where it takes the user is the router's choice.  The queries of
\* products are invalidated, and read again where they are watched.
AnswerSaved(c) ==
  /\ c \in calls /\ c.op \in {"create", "amend"} /\ c.got.is = "ok"
  /\ place' \in (IF c.here THEN {<<"product">>} ELSE {place, <<"product">>})
  /\ view' = IF c.here \/ place' # place THEN Blank ELSE view
  /\ calls' = IF view' = Blank THEN Unmounted(calls \ {c}) ELSE calls \ {c}
  /\ UNCHANGED authorTab /\ UNCHANGED authorVars

\* The reducer's failed: a field's error or the form's, and nothing cleared.
AnswerNotSaved(c) ==
  /\ c \in calls /\ c.op \in {"create", "amend"} /\ c.got.is \in {"conflict", "failed"}
  /\ calls' = calls \ {c}
  /\ view' = IF c.here THEN [view EXCEPT !.busy = FALSE, !.error = c.got.is] ELSE view
  /\ UNCHANGED place /\ UNCHANGED authorTab /\ UNCHANGED authorVars

\* An answer for a loading edit page that failed is its error screen.
AnswerDetail(c) ==
  /\ c \in calls /\ c.op = "detail" /\ c.got.is \in {"ok", "failed"}
  /\ calls' = calls \ {c}
  /\ detail' = IF c.got.is = "ok" THEN [loaded |-> TRUE, name |-> c.got.name] ELSE detail
  /\ view' = IF view = Blank /\ c.got.is = "failed" THEN Broken ELSE view
  /\ UNCHANGED <<place, product, minted>> /\ UNCHANGED authorTab

AuthoringCall(c) ==
  \/ ServeCreate(c) \/ ServeAmend(c) \/ ServeDetail(c)
  \/ AnswerSaved(c) \/ AnswerNotSaved(c) \/ AnswerDetail(c)

AuthoringStep ==
  \/ RevealSlug \/ SubmitProduct \/ CancelProduct
  \/ \E n \in Names \cup {NoName} : TypeName(n) \/ TypeSlug(n)
=============================================================================
