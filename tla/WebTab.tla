------------------------------- MODULE WebTab -------------------------------
(***************************************************************************)
(* One browser tab of the SPA (src/apps/app): where it is, what it renders,*)
(* the session it believes in and the one the api honours, the route       *)
(* guards, the 401 handler of the query client and the sign-in screen.     *)
(*                                                                         *)
(* A location is a sequence of pages.  Its head is the page shown; what    *)
(* follows a sign-in page is the location its returnTo carries.            *)
(*                                                                         *)
(* A call is a record: what is asked (op, of), what came of it (got), and  *)
(* whether the component that made it is still mounted (here).             *)
(***************************************************************************)
EXTENDS Integers, Sequences, FiniteSets

CONSTANTS
  Journeys,   \* the sets of pages a user may move between, one per behaviour
  MaxDepth,   \* a location is cut after this many pages
  MaxWrites   \* a moderator waits while this many mutations are out

Pages == {"home", "product", "new", "edit", "moderation", "create", "amend", "signIn"}

ASSUME TabAssumption ==
  /\ \A j \in Journeys : j \subseteq Pages /\ {"home", "signIn"} \subseteq j
  /\ MaxDepth \in Nat /\ MaxDepth >= 3
  /\ MaxWrites \in Nat \ {0}

VARIABLES
  journey,  \* the pages of this behaviour
  place,    \* the location
  view,     \* the mounted screen and its component state; Blank while a route loads
  live,     \* the api honours the cookie
  staff,    \* the account may manage the catalogue and moderate
  known,    \* the query cache holds a session bootstrap
  calls     \* requests in flight, and answers not delivered yet

tabVars == <<journey, place, view, live, staff, known, calls>>

Blank == [page |-> "blank"]
Broken == [page |-> "error"]
Page == Head(place)
\* One screen: what differs is the location's review parameter.
ProductPages == {"product", "new", "edit"}

Call(op, of) == [op |-> op, of |-> of, got |-> [is |-> "sent"], here |-> TRUE]
Answered(c, got) == (calls \ {c}) \cup {[c EXCEPT !.got = got]}
Sent(c) == c \in calls /\ c.got.is = "sent"

\* A query is aborted when the last component that watches it goes away; a
\* mutation runs on without its component.
Reads == {"reviews", "moderation", "products", "detail"}
Reading == {c \in calls : c.op \in Reads}
\* Bound: a form is sent when no mutation is out.
MaySend == calls = Reading
Unmounted(some) == {[c EXCEPT !.here = FALSE] : c \in some \ Reading}

\* "/products" is public with everything below it, so only the moderation page
\* is the root guard's; the others guard themselves.
RootGuarded == {"moderation"}
Guarded == {"moderation", "create", "amend"}

SignInFrom(loc) ==
  <<"signIn">> \o SubSeq(loc, 1, IF Len(loc) < MaxDepth THEN Len(loc) ELSE MaxDepth - 1)
\* sign-in.tsx's schema: no returnTo, or one that is not an in-app path, is "/".
ReturnTo(loc) == IF loc = <<>> THEN <<"home">> ELSE loc

TabInit ==
  /\ journey \in Journeys
  /\ place = <<"home">>
  /\ view = Blank
  /\ live \in BOOLEAN
  /\ staff \in (IF journey \cap Guarded = {} THEN {FALSE} ELSE BOOLEAN)
  /\ known = FALSE
  /\ calls = {}

-----------------------------------------------------------------------------
(* Navigation *)

Goto(loc) ==
  /\ place' = loc
  /\ view' = Blank
  /\ calls' = Unmounted(calls)
  /\ UNCHANGED <<journey, live, staff, known>>

\* A link, the browser's history: the SPA stays loaded.  A move that keeps the
\* product page mounted is WebReview's.
Visit(p) ==
  /\ p \in journey \ {Page}
  /\ view.page = "product" => p \notin ProductPages
  /\ Goto(IF p = "signIn" THEN SignInFrom(<<"home">>) ELSE <<p>>)

\* A full page load forgets every component, every cached answer and every call.
Load(loc) ==
  /\ place' = loc
  /\ view' = Blank
  /\ known' = FALSE
  /\ calls' = {}

Reload == Load(place) /\ UNCHANGED <<journey, live, staff>>

\* The user opens the magic link in this tab, while the screen still says it was
\* sent; a link that has expired opens the same location without a session.
FollowLink ==
  /\ view.page = "signIn" /\ view.status = "sent"
  /\ Load(ReturnTo(view.back))
  /\ live' \in {live, TRUE}
  /\ UNCHANGED <<journey, staff>>

-----------------------------------------------------------------------------
(* The session and the route guards *)

Expire ==
  /\ live
  /\ live' = FALSE
  /\ UNCHANGED <<journey, place, view, staff, known, calls>>

\* useSession re-asks a stale bootstrap.  A 401 leaves the cached answer there,
\* and is the one 401 that redirects nobody.
RefreshSession ==
  /\ view.page \in {"home", "product"}
  /\ live /\ ~known
  /\ known' = TRUE
  /\ UNCHANGED <<journey, place, view, live, staff, calls>>

\* A bootstrap nobody watches is collected.
CollectSession ==
  /\ known
  /\ view.page \notin {"home", "product"}
  /\ known' = FALSE
  /\ UNCHANGED <<journey, place, view, live, staff, calls>>

\* loadSessionBootstrap: a cached bootstrap is taken as it is, whatever its age.
HasSession == known \/ live

Admitted == Page \in Guarded => HasSession /\ staff

\* beforeLoad redirects: to the sign-in page, or away from a page the account
\* may not use.
TurnAway ==
  /\ view = Blank /\ ~Admitted
  /\ known' = HasSession
  /\ place' = IF Page \in RootGuarded /\ ~HasSession THEN SignInFrom(place)
              ELSE IF Page = "amend" THEN <<"product">> ELSE <<"home">>
  /\ UNCHANGED <<journey, view, live, staff, calls>>

\* The bootstrap fails with anything but a 401: the route's error screen.
GuardFails ==
  /\ view = Blank /\ Page \in Guarded /\ ~known
  /\ view' = Broken
  /\ UNCHANGED <<journey, place, live, staff, known, calls>>

\* A screen is mounted when the guards let its route through.
Mount(screen) ==
  /\ view = Blank /\ Admitted
  /\ view' = screen
  /\ known' = (known \/ Page \in Guarded)
  /\ UNCHANGED <<journey, place, live, staff>>

-----------------------------------------------------------------------------
(* Calls: what every one of them may meet *)

Private == {"moderation", "act", "submit", "update", "remove", "create", "amend"}

\* The api asks for a session and finds none.
Refuse(c) ==
  /\ Sent(c) /\ c.op \in Private /\ ~live
  /\ calls' = Answered(c, [is |-> "unauthorized"])
  /\ UNCHANGED <<journey, place, view, live, staff, known>>

\* A network failure, a rate limit, a 5xx: nothing was done.
Fail(c) ==
  /\ Sent(c)
  /\ calls' = Answered(c, [is |-> "failed"])
  /\ UNCHANGED <<journey, place, view, live, staff, known>>

\* The caches' subscriber sees a 401 and navigates to the sign-in page, with the
\* location it reads then as returnTo.
\* Mutant: the address is replaced, and the screen stays.
BounceReplaced(c) ==
  /\ c \in calls /\ c.got.is = "unauthorized"
  /\ place' = SignInFrom(place)
  /\ calls' = calls \ {c}
  /\ UNCHANGED <<journey, view, live, staff, known>>
Bounce(c) ==
  /\ c \in calls /\ c.got.is = "unauthorized"
  /\ place' = SignInFrom(place)
  /\ view' = IF view.page = "signIn" THEN view ELSE Blank
  /\ calls' = IF view.page = "signIn" THEN calls \ {c} ELSE Unmounted(calls \ {c})
  /\ UNCHANGED <<journey, live, staff, known>>

-----------------------------------------------------------------------------
(* The sign-in screen *)

MountSignIn ==
  /\ Page = "signIn"
  /\ Mount([page |-> "signIn", status |-> "idle", back |-> <<>>])
  /\ UNCHANGED calls

\* An edit takes back the confirmation and the error; the field is disabled
\* while a request is out.
EditEmail ==
  /\ view.page = "signIn" /\ view.status \in {"sent", "error"}
  /\ view' = [view EXCEPT !.status = "idle", !.back = <<>>]
  /\ UNCHANGED <<journey, place, live, staff, known, calls>>

RequestLink ==
  /\ MaySend
  /\ view.page = "signIn" /\ view.status # "submitting"
  /\ view' = [view EXCEPT !.status = "submitting", !.back = <<>>]
  /\ calls' = calls \cup {Call("link", [back |-> Tail(place)])}
  /\ UNCHANGED <<journey, place, live, staff, known>>

\* The link that is mailed carries returnTo.
ServeLink(c) ==
  /\ Sent(c) /\ c.op = "link"
  /\ calls' = Answered(c, [is |-> "ok"])
  /\ UNCHANGED <<journey, place, view, live, staff, known>>

\* requestLink: an answer, a refusal and a rejected promise all end in a dispatch,
\* which is lost on a screen that is gone.
\* Mutant: a rejected promise is not caught.
AnswerLinkResolved(c) ==
  /\ c \in calls /\ c.op = "link" /\ c.got.is \in {"ok", "failed"}
  /\ calls' = calls \ {c}
  /\ view' = IF c.here /\ c.got.is = "ok"
             THEN [view EXCEPT !.status = "sent", !.back = c.of.back] ELSE view
  /\ UNCHANGED <<journey, place, live, staff, known>>
AnswerLink(c) ==
  /\ c \in calls /\ c.op = "link" /\ c.got.is \in {"ok", "failed"}
  /\ calls' = calls \ {c}
  /\ view' = IF ~c.here THEN view
             ELSE IF c.got.is = "ok" THEN [view EXCEPT !.status = "sent", !.back = c.of.back]
             ELSE [view EXCEPT !.status = "error"]
  /\ UNCHANGED <<journey, place, live, staff, known>>
=============================================================================
