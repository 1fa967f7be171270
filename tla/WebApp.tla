-------------------------------- MODULE WebApp --------------------------------
(***************************************************************************)
(* The SPA in one tab: the screens of WebReview, WebModeration,            *)
(* WebCatalogue and WebAuthoring share WebTab's location, session and      *)
(* calls.  A screen's component state is the view, which a navigation      *)
(* throws away; the query cache outlives it, and a page load throws both   *)
(* away.  sessionStorage and the api outlive everything.                   *)
(***************************************************************************)
EXTENDS WebReview, WebModeration, WebCatalogue, WebAuthoring

vars == <<tabVars, reviewVars, modVars, authorVars>>

Init == TabInit /\ ReviewInit /\ ModerationInit /\ AuthoringInit

ForgetCaches ==
  /\ reviews' = NoReviews /\ owed' = FALSE
  /\ lists' = [f \in States |-> NoList]
  /\ detail' = NoDetail

\* A page load, from the address bar or from a mailed link.
LoadPage ==
  /\ Reload \/ FollowLink
  /\ ForgetCaches
  /\ UNCHANGED <<storage, server, state, disturbed, product, minted>>

\* A location with nothing mounted: the guards, then the loader and the screen.
Enter ==
  \/ TurnAway /\ UNCHANGED <<reviewVars, modVars, authorVars>>
  \/ /\ MountSignIn \/ MountCatalogue
     /\ CollectLists
     /\ UNCHANGED <<reviewVars, authorVars>>
  \/ MountProduct /\ UNCHANGED <<modVars, authorVars>>
  \/ MountModeration /\ UNCHANGED <<reviewVars, authorVars>>
  \/ (MountCreate \/ MountAmend) /\ UNCHANGED <<reviewVars, modVars>>

EntryFails ==
  /\ GuardFails \/ ProductFails
  /\ UNCHANGED <<reviewVars, modVars, authorVars>>

FetchProduct == ReadDetail /\ UNCHANGED <<reviewVars, modVars>>

\* What becomes of one call: at the api, on the way, in the tab.
CallStep(c) ==
  \/ (Refuse(c) \/ Fail(c) \/ Bounce(c) \/ ServeLink(c) \/ AnswerLink(c))
     /\ UNCHANGED <<reviewVars, modVars, authorVars>>
  \/ ReviewCall(c) /\ UNCHANGED <<modVars, authorVars>>
  \/ ModerationCall(c) /\ UNCHANGED <<reviewVars, authorVars>>
  \/ CatalogueCall(c) /\ UNCHANGED <<reviewVars, modVars, authorVars>>
  \/ AuthoringCall(c) /\ UNCHANGED <<reviewVars, modVars>>

UserStep ==
  \/ (\E p \in Pages : Visit(p)) /\ UNCHANGED <<reviewVars, modVars, authorVars>>
  \/ (EditEmail \/ RequestLink) /\ UNCHANGED <<reviewVars, modVars, authorVars>>
  \/ ReviewStep /\ UNCHANGED <<modVars, authorVars>>
  \/ ModerationStep /\ UNCHANGED <<reviewVars, authorVars>>
  \/ CatalogueStep /\ UNCHANGED <<reviewVars, modVars, authorVars>>
  \/ AuthoringStep /\ UNCHANGED <<reviewVars, modVars>>

SessionStep ==
  /\ Expire \/ RefreshSession \/ CollectSession
  /\ UNCHANGED <<reviewVars, modVars, authorVars>>

Next ==
  \/ LoadPage \/ Enter \/ EntryFails \/ FetchProduct \/ UserStep \/ SessionStep
  \/ \E c \in calls : CallStep(c)

Spec == Init /\ [][Next]_vars

-----------------------------------------------------------------------------
(* Properties *)

Locations == UNION {[1..n -> Pages] : n \in 1..MaxDepth}

Screens ==
  {Blank, Broken}
    \cup [page : {"signIn"}, status : {"idle", "submitting", "sent", "error"},
          back : Locations \cup {<<>>}]
    \cup [page : {"product"}, form : {"closed", "open"}, text : Texts \cup {NoText},
          busy : BOOLEAN, error : {"none", "invalid", "conflict", "failed"},
          dialog : {"closed", "open", "busy", "failed"}]
    \cup [page : {"moderation"}, filter : States, pending : SUBSET Reviews]
    \cup [page : {"home"}, url : Filters, box : Drafts, timer : BOOLEAN,
          going : SUBSET Filters, shown : SUBSET Filters, failed : BOOLEAN]
    \cup [page : {"create", "amend"}, name : Names \cup {NoName}, slug : Names \cup {NoName},
          open : BOOLEAN, touched : BOOLEAN, busy : BOOLEAN,
          error : {"none", "invalid", "conflict", "failed"}]

\* What the tab holds has its type, and a screen is the one of the location's page.
TypeOK ==
  /\ journey \in Journeys
  /\ place \in Locations
  /\ view \in Screens
  /\ {live, staff, known, late, foreign, overtaken, owed} \subseteq BOOLEAN
  /\ \A c \in calls : DOMAIN c = {"op", "of", "got", "here"} /\ c.here \in BOOLEAN
  /\ {draft, typed, mine} \subseteq Texts \cup {NoText}
  /\ reviews \in [loaded : BOOLEAN, failed : BOOLEAN, own : Texts \cup {NoText},
                  signed : BOOLEAN, deep : BOOLEAN]
  /\ state \in [Reviews -> States]
  /\ disturbed \subseteq Reviews
  /\ lists \in [States -> [failed : BOOLEAN, rows : SUBSET Reviews]]
  /\ product \in Names
  /\ detail \in [loaded : BOOLEAN, name : Names \cup {NoName}]
  /\ minted \subseteq [name : Names, slug : Names, typed : BOOLEAN]
  /\ OnProduct => Page \in ProductPages
  /\ view.page \in Pages \ {"product"} => view.page = Page

\* A review being written survives failed submissions, a session that ends under
\* it, the sign-in round trip, page loads and the back button: until it is accepted
\* or the form is cancelled, what was typed last is in sessionStorage, and in the
\* form of a new review whenever that is open.  Two steps alone break this, and
\* overtaken tells them (review-submit-form.tsx): :91-96, the history takes an open
\* form with another text from ?review=edit to ?review=new; :144, the answer of an
\* earlier submission clears a text typed since.
NothingTypedIsLost ==
  ~overtaken =>
    /\ draft = typed
    /\ OnProduct /\ Page = "new" /\ typed # NoText => view.text = typed

\* At rest no fetch and no mutation is in flight.
AtRest == \A c \in calls : c.op = "link"

\* The cached list lists the own review as it is, or, read without a session or
\* not to its page, not at all.
Listed == reviews.signed /\ (late => reviews.deep) => reviews.own = mine
ShowsReviews == Reviewing /\ OnProduct /\ ~reviews.failed /\ ~foreign
ReviewsFresh == ShowsReviews /\ ~owed => Listed /\ reviews.own \in {NoText, mine}

ModerationFresh ==
  Moderating /\ ~lists[view.filter].failed =>
    \A r \in lists[view.filter].rows \ disturbed : state[r] = view.filter

CatalogueFresh ==
  Searching /\ ~view.failed /\ ~view.timer /\ view.going = {} =>
    view.box.text = view.url /\ view.shown = {view.url}

\* A screen at rest shows what this tab has done: an own review just written,
\* edited or deleted is listed so, no row stays under the filter it was moved out
\* of, and the results are those of the box and of the URL; whatever older fetches
\* were in flight when the change succeeded, and wherever the user went meanwhile.
\* A list whose refetch is owed is the exception (use-product-reviews.ts): :61-62,
\* the first load was still out and is joined; :51-53, "Load more" cancelled it.
AtRestFresh == AtRest => ReviewsFresh /\ ModerationFresh /\ CatalogueFresh

\* The address of a new product is the server's derivation of the name it was
\* created with, unless the user typed into the slug field: revealing the field
\* and then renaming the product sends no preview (product-form.tsx, slugTouched).
SlugIsTheServers == \A p \in minted : p.typed \/ p.slug = p.name

\* Nothing waits for nothing: a link request, a form, a dialog or a moderation row
\* shows as busy only while a call of its own is out, whose answer or failure will
\* end the wait (sign-in-screen.tsx:36-43, "Submitting is always left").
OwnCall(ops) == \E c \in calls : c.here /\ c.op \in ops
SpinnersHaveCalls ==
  /\ view.page = "signIn" /\ view.status = "submitting" => OwnCall({"link"})
  /\ OnProduct /\ view.busy => OwnCall({"submit", "update"})
  /\ OnProduct /\ view.dialog = "busy" => OwnCall({"remove"})
  /\ Authoring /\ view.busy => OwnCall({"create", "amend"})
  /\ Moderating => \A r \in view.pending :
       \E c \in calls : c.here /\ c.op = "act" /\ c.of.token = r

\* router.tsx:46-51: "returnTo is the location the user was on when the session
\* expired, so signing back in resumes rather than restarts".
ReturnResumes == Page = "signIn" /\ Len(place) > 1 => place[2] # "signIn"
=============================================================================
