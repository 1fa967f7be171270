----------------------------- MODULE WebAppProofs -----------------------------
(***************************************************************************)
(* WebApp for any journeys, depth of locations, texts, reviews, words and  *)
(* names.  TabInv says what the screens, the location and the calls owe    *)
(* one another: a call that is of the mounted screen shows there, what     *)
(* shows as busy has its call, and two mutations are out only from a       *)
(* moderation page, for two reviews.  On it stand that a draft is never    *)
(* lost, that a slug is the server's, and that a screen at rest is fresh.  *)
(***************************************************************************)
EXTENDS WebApp, FiniteSetTheorems, SequenceTheorems, TLAPS

SignInViews ==
  [page : {"signIn"}, status : {"idle", "submitting", "sent", "error"}, back : Locations \cup {<<>>}]
ProductViews ==
  [page : {"product"}, form : {"closed", "open"}, text : Texts \cup {NoText},
   busy : BOOLEAN, error : {"none", "invalid", "conflict", "failed"},
   dialog : {"closed", "open", "busy", "failed"}]
ModerationViews == [page : {"moderation"}, filter : States, pending : SUBSET Reviews]
CatalogueViews ==
  [page : {"home"}, url : Filters, box : Drafts, timer : BOOLEAN,
   going : SUBSET Filters, shown : SUBSET Filters, failed : BOOLEAN]
AuthoringViews ==
  [page : {"create", "amend"}, name : Names \cup {NoName}, slug : Names \cup {NoName},
   open : BOOLEAN, touched : BOOLEAN, busy : BOOLEAN,
   error : {"none", "invalid", "conflict", "failed"}]

\* A screen v at the location p: it is of the location's page; a form is open where
\* the location says so, and no dialog beside it; a form that waits shows no error.
Fits(v, p) ==
  /\ v \in Screens
  /\ v.page = "product" =>
       /\ p[1] \in ProductPages
       /\ v.form = "open" <=> p[1] # "product"
       /\ v.dialog # "closed" => v.form = "closed"
       /\ v.busy => v.form = "open" /\ v.error = "none"
  /\ v.page \in Pages \ {"product"} => v.page = p[1]

Replies == {"sent", "ok", "failed", "conflict", "unauthorized"}

\* What a call asks and what came of it have their types; only a call that needs a
\* session is refused for want of one, and only a new product's slug that was typed
\* is sent.
Typed(c) ==
  /\ c = [op |-> c.op, of |-> c.of, got |-> c.got, here |-> c.here]
  /\ c.here \in BOOLEAN /\ c.got.is \in Replies
  /\ c.got.is = "unauthorized" => c.op \in Private
  /\ c.op = "link" => c.of.back \in Locations \cup {<<>>}
  /\ c.op = "reviews" =>
       /\ c.of.deep \in BOOLEAN /\ c.of.more \in BOOLEAN /\ (c.of.more => c.of.deep)
       /\ c.got.is = "ok" => /\ c.got.own \in Texts \cup {NoText}
                             /\ c.got.signed \in BOOLEAN
  /\ c.op \in {"submit", "update", "remove"} => c.of.text \in Texts \cup {NoText}
  /\ c.op = "products" => c.of.filter \in Filters
  /\ c.op = "moderation" => /\ c.of.filter \in States
                            /\ c.got.is = "ok" => c.got.rows \subseteq Reviews
  /\ c.op = "act" => c.of.token \in Reviews /\ c.of.filter \in States
  /\ c.op = "detail" => (c.got.is = "ok" => c.got.name \in Names)
  /\ c.op \in {"create", "amend"} => c.of.name \in Names
  /\ c.op = "create" => /\ c.of.slug \in Names \cup {Derive} /\ c.of.typed \in BOOLEAN
                        /\ ~c.of.typed => c.of.slug = Derive

\* The screen v shows that it waits for a mutation such as c.
Waits(v, c) ==
  \/ c.op = "link" /\ v.page = "signIn" /\ v.status = "submitting"
  \/ c.op \in {"submit", "update"} /\ v.page = "product" /\ v.busy
  \/ c.op = "remove" /\ v.page = "product" /\ v.dialog = "busy"
  \/ c.op \in {"create", "amend"} /\ v.page \in {"create", "amend"} /\ v.busy
  \/ c.op = "act" /\ v.page = "moderation" /\ c.of.token \in v.pending

\* A query lives no longer than the screen that watches it.
Watched(v, c) ==
  /\ c.op = "reviews" => v.page = "product"
  /\ c.op = "moderation" => v.page = "moderation"
  /\ c.op = "products" => v.page = "home"

Mutation(c) == c.op \notin Reads

\* The calls S and the screen v.
Good(S, v) ==
  /\ \A c \in S : Typed(c) /\ Watched(v, c) /\ (c.here /\ Mutation(c) => Waits(v, c))
  /\ \A c, d \in S : Mutation(c) /\ Mutation(d) /\ c # d =>
       c.op = "act" /\ d.op = "act" /\ c.of.token # d.of.token
  /\ v.page = "signIn" /\ v.status = "submitting" => \E c \in S : c.here /\ c.op = "link"
  /\ v.page = "product" /\ v.busy => \E c \in S : c.here /\ c.op \in {"submit", "update"}
  /\ v.page = "product" /\ v.dialog = "busy" => \E c \in S : c.here /\ c.op = "remove"
  /\ v.page \in {"create", "amend"} /\ v.busy =>
       \E c \in S : c.here /\ c.op \in {"create", "amend"}
  /\ v.page = "moderation" => \A r \in v.pending :
       \E c \in S : c.here /\ c.op = "act" /\ c.of.token = r

\* The rest of the tab, of sessionStorage and of the server.
TabTypes ==
  /\ journey \in Journeys /\ place \in Locations
  /\ live \in BOOLEAN /\ staff \in BOOLEAN /\ known \in BOOLEAN
ReviewTypes ==
  /\ draft \in Texts \cup {NoText} /\ typed \in Texts \cup {NoText} /\ mine \in Texts \cup {NoText}
  /\ late \in BOOLEAN /\ foreign \in BOOLEAN /\ overtaken \in BOOLEAN /\ owed \in BOOLEAN
  /\ reviews \in [loaded : BOOLEAN, failed : BOOLEAN, own : Texts \cup {NoText},
                  signed : BOOLEAN, deep : BOOLEAN]
ModerationTypes ==
  /\ state \in [Reviews -> States] /\ disturbed \subseteq Reviews
  /\ lists \in [States -> [failed : BOOLEAN, rows : SUBSET Reviews]]
AuthoringTypes ==
  /\ product \in Names /\ detail \in [loaded : BOOLEAN, name : Names \cup {NoName}]
  /\ detail.loaded => detail.name \in Names
  /\ minted \subseteq [name : Names, slug : Names, typed : BOOLEAN]

TypesInv == TabTypes /\ ReviewTypes /\ ModerationTypes /\ AuthoringTypes
TabInv == TypesInv /\ Fits(view, place) /\ Good(calls, view)

\* The list of reviews on display is fresh, is being read whole or shows its error, or
\* a change of this tab's is about to have it read again; or its refetch is owed.
\* "Load more" is out beside a fresh list alone, for it keeps what is cached.
IsFresh(own, signed, whole) == (signed /\ whole => own = mine) /\ own \in {NoText, mine}
Changed == \E c \in calls : c.op \in {"submit", "update", "remove"} /\ c.got.is = "ok"
ReadWhole ==
  /\ \A c \in calls : c.op = "reviews" => ~c.of.more
  /\ reviews.failed \/ \E c \in calls : c.op = "reviews"
ReviewsInv ==
  Reviewing /\ OnProduct /\ ~foreign /\ ~owed =>
    \/ Changed
    \/ /\ \A c \in calls : c.op = "reviews" /\ c.got.is = "ok" =>
                             IsFresh(c.got.own, c.got.signed, Carries(c))
       /\ \/ IsFresh(reviews.own, reviews.signed, late => reviews.deep)
          \/ ReadWhole

\* So is the list of the filter on display.
UnderFilter(rows, f) == \A r \in rows \ disturbed : state[r] = f
ListInv ==
  Moderating =>
    \/ \E c \in calls : c.op = "act" /\ c.got.is = "ok" /\ c.of.filter = view.filter
    \/ /\ \A c \in calls : c.op = "moderation" /\ c.got.is = "ok" /\ c.of.filter = view.filter =>
                             UnderFilter(c.got.rows, view.filter)
       /\ \/ \E c \in calls : c.op = "moderation" /\ c.of.filter = view.filter
          \/ lists[view.filter].failed
          \/ UnderFilter(lists[view.filter].rows, view.filter)

\* The box is on its way to the URL, and the URL's results to the screen.
SearchInv ==
  Searching =>
    /\ view.timer \/ view.box.text = view.url \/ view.going = {view.box.text}
    /\ \A c \in calls : c.op = "products" => c.of.filter = view.url
    /\ view.failed \/ view.shown = {view.url} \/ \E c \in calls : c.op = "products"

-----------------------------------------------------------------------------
(* Screens and locations. *)

\* A screen is known by its page.
LEMMA Shapes ==
  ASSUME NEW v \in Screens
  PROVE  /\ v.page = "signIn" => v \in SignInViews
         /\ v.page = "product" => v \in ProductViews
         /\ v.page = "moderation" => v \in ModerationViews
         /\ v.page = "home" => v \in CatalogueViews
         /\ v.page \in {"create", "amend"} => v \in AuthoringViews
<1>1. \/ v \in {Blank, Broken} \/ v \in SignInViews \/ v \in ProductViews
      \/ v \in ModerationViews \/ v \in CatalogueViews \/ v \in AuthoringViews
  BY DEF Screens, SignInViews, ProductViews, ModerationViews, CatalogueViews, AuthoringViews
<1>2. /\ v \in {Blank, Broken} => v.page \in {"blank", "error"}
      /\ v \in SignInViews => v.page = "signIn"
      /\ v \in ProductViews => v.page = "product"
      /\ v \in ModerationViews => v.page = "moderation"
      /\ v \in CatalogueViews => v.page = "home"
      /\ v \in AuthoringViews => v.page \in {"create", "amend"}
  BY DEF Blank, Broken, SignInViews, ProductViews, ModerationViews, CatalogueViews, AuthoringViews
<1> QED BY <1>1, <1>2

LEMMA ShapesAre ==
  /\ {Blank, Broken} \subseteq Screens /\ SignInViews \subseteq Screens
  /\ ProductViews \subseteq Screens /\ ModerationViews \subseteq Screens
  /\ CatalogueViews \subseteq Screens /\ AuthoringViews \subseteq Screens
BY DEF Screens, SignInViews, ProductViews, ModerationViews, CatalogueViews, AuthoringViews

\* The pages of a location; one page is a location.
LEMMA LocationOf ==
  ASSUME NEW p \in Locations
  PROVE  /\ Len(p) \in 1 .. MaxDepth /\ p \in Seq(Pages) /\ p = [i \in 1 .. Len(p) |-> p[i]]
         /\ Head(p) = p[1] /\ p[1] \in Pages
<1>1. PICK n \in 1 .. MaxDepth : p \in [1 .. n -> Pages]
  BY DEF Locations
<1>2. n \in Nat /\ 1 \in 1 .. n
  BY TabAssumption
<1>3. p \in Seq(Pages) /\ Len(p) = n
  BY <1>1, <1>2
<1> QED BY <1>1, <1>2, <1>3

LEMMA LocationIs ==
  ASSUME NEW p \in Seq(Pages), Len(p) \in 1 .. MaxDepth
  PROVE  p \in Locations
BY DEF Locations

LEMMA OnePage ==
  ASSUME NEW a \in Pages
  PROVE  <<a>> \in Locations /\ <<a>>[1] = a
<1>1. <<a>> \in Seq(Pages) /\ Len(<<a>>) = 1
  OBVIOUS
<1>2. 1 \in 1 .. MaxDepth
  BY TabAssumption
<1> QED BY <1>1, <1>2, LocationIs

\* The sign-in page, and behind it as much of a location as fits.
LEMMA SignInLocation ==
  ASSUME NEW p \in Locations
  PROVE  SignInFrom(p) \in Locations /\ SignInFrom(p)[1] = "signIn"
<1> DEFINE n == IF Len(p) < MaxDepth THEN Len(p) ELSE MaxDepth - 1
           q == SubSeq(p, 1, n)
           s == <<"signIn">>
<1>1. p \in Seq(Pages) /\ Len(p) \in 1 .. MaxDepth /\ MaxDepth \in Nat /\ MaxDepth >= 3
  BY LocationOf, TabAssumption
<1>2. n \in 1 .. Len(p) /\ n \in Nat /\ 1 + n \in 1 .. MaxDepth
  BY <1>1
<1> HIDE DEF n
<1>3. q \in Seq(Pages) /\ Len(q) = n
  BY <1>1, <1>2
<1>4. s \in Seq(Pages) /\ Len(s) = 1 /\ s[1] = "signIn"
  BY DEF Pages
<1> HIDE DEF q, s
<1>5. s \o q \in Seq(Pages) /\ Len(s \o q) = Len(s) + Len(q) /\ (s \o q)[1] = s[1]
  <2>1. /\ s \o q \in Seq(Pages) /\ Len(s \o q) = Len(s) + Len(q)
        /\ \A i \in 1 .. Len(s) + Len(q) : (s \o q)[i] = IF i <= Len(s) THEN s[i] ELSE q[i - Len(s)]
    BY <1>3, <1>4, ConcatProperties
  <2>2. 1 \in 1 .. Len(s) + Len(q) /\ 1 <= Len(s)
    BY <1>2, <1>3, <1>4
  <2> QED BY <2>1, <2>2
<1>6. SignInFrom(p) = s \o q
  BY DEF SignInFrom, s, q, n
<1> QED BY <1>2, <1>3, <1>4, <1>5, <1>6, LocationIs

LEMMA TailLocation ==
  ASSUME NEW p \in Locations
  PROVE  Tail(p) \in Locations \cup {<<>>}
<1>1. p \in Seq(Pages) /\ Len(p) \in 1 .. MaxDepth /\ MaxDepth \in Nat /\ p # <<>>
  BY LocationOf, TabAssumption
<1>2. Tail(p) \in Seq(Pages) /\ Len(Tail(p)) = Len(p) - 1
  BY <1>1
<1> DEFINE t == Tail(p)
<1> HIDE DEF t
<1>3. CASE Len(p) = 1
  <2>1. Len(t) = 0 /\ t \in Seq(Pages)
    BY <1>1, <1>2, <1>3 DEF t
  <2>2. t = <<>>
    BY <2>1, EmptySeq
  <2> QED BY <2>2 DEF t
<1>4. CASE Len(p) # 1
  <2>1. Len(t) \in 1 .. MaxDepth /\ t \in Seq(Pages)
    BY <1>1, <1>2, <1>4 DEF t
  <2> QED BY <2>1, LocationIs DEF t
<1> QED BY <1>3, <1>4

-----------------------------------------------------------------------------
(* Calls: what may become of them under a screen. *)

\* Nothing on the screen shows that it waits.
Quiet(v) ==
  /\ v.page = "signIn" => v.status # "submitting"
  /\ v.page = "product" => ~v.busy /\ v.dialog # "busy"
  /\ v.page \in {"create", "amend"} => ~v.busy
  /\ v.page = "moderation" => v.pending = {}

\* The fetches of v's screen have no watcher on w's.
SameWatch(v, w) == v.page = w.page \/ v.page \notin {"product", "moderation", "home"}

\* A screen that shows the same waits.
SameWaits(v, w) ==
  /\ v.page = w.page
  /\ v.page = "signIn" => (v.status = "submitting" <=> w.status = "submitting")
  /\ v.page = "product" => (v.busy <=> w.busy) /\ (v.dialog = "busy" <=> w.dialog = "busy")
  /\ v.page \in {"create", "amend"} => (v.busy <=> w.busy)
  /\ v.page = "moderation" => v.pending = w.pending

LEMMA SameGood ==
  ASSUME NEW S, NEW v, NEW w, Good(S, v), SameWaits(v, w)
  PROVE  Good(S, w)
<1>1. \A c : Watched(v, c) <=> Watched(w, c)
  BY DEF SameWaits, Watched
<1>2. \A c : Waits(v, c) <=> Waits(w, c)
  BY DEF SameWaits, Waits
<1> QED BY <1>1, <1>2 DEF Good, SameWaits

\* Nothing is out that a quiet screen would have to show.
LEMMA QuietCalls ==
  ASSUME NEW S, NEW v, Good(S, v), Quiet(v)
  PROVE  \A c \in S : c.here => ~Mutation(c)
<1>1. \A c : ~Waits(v, c)
  BY DEF Quiet, Waits
<1> QED BY <1>1 DEF Good

LEMMA QuietGood ==
  ASSUME NEW S, NEW v, NEW w, Quiet(w), SameWatch(v, w),
         Good(S, v), \A c \in S : c.here => ~Mutation(c)
  PROVE  Good(S, w)
<1>1. \A c \in S : Watched(v, c)
  BY DEF Good
<1>2. \A c \in S : Watched(w, c)
  BY <1>1 DEF Watched, SameWatch
<1> QED BY <1>2 DEF Good, Quiet

\* A call changes what came of it.
LEMMA GotIs ==
  ASSUME NEW c, Typed(c), NEW g
  PROVE  LET d == [c EXCEPT !.got = g] IN
         /\ d.op = c.op /\ d.of = c.of /\ d.got = g /\ d.here = c.here
         /\ d = [op |-> d.op, of |-> d.of, got |-> d.got, here |-> d.here]
BY DEF Typed

LEMMA HereIs ==
  ASSUME NEW c, c = [op |-> c.op, of |-> c.of, got |-> c.got, here |-> c.here], NEW b
  PROVE  [c EXCEPT !.here = b] = [op |-> c.op, of |-> c.of, got |-> c.got, here |-> b]
OBVIOUS

\* A call whose component is gone.
LEMMA GoneIs ==
  ASSUME NEW c, Typed(c)
  PROVE  LET d == [c EXCEPT !.here = FALSE] IN
         d.op = c.op /\ d.of = c.of /\ d.got = c.got /\ d.here = FALSE /\ Typed(d)
<1> DEFINE d == [c EXCEPT !.here = FALSE]
<1>0. c = [op |-> c.op, of |-> c.of, got |-> c.got, here |-> c.here]
  BY DEF Typed
<1>1. d = [op |-> c.op, of |-> c.of, got |-> c.got, here |-> FALSE]
  BY <1>0, HereIs
<1>2. d.op = c.op /\ d.of = c.of /\ d.got = c.got /\ d.here = FALSE
  BY <1>1
<1> HIDE DEF d
<1>3. Typed(d)
  BY <1>1, <1>2 DEF Typed
<1> QED BY <1>2, <1>3 DEF d

LEMMA AnsweredGood ==
  ASSUME NEW S, NEW v, Good(S, v), NEW c \in S, NEW d, Typed(d),
         d.op = c.op, d.of = c.of, d.here = c.here
  PROVE  Good((S \ {c}) \cup {d}, v)
<1> DEFINE T == (S \ {c}) \cup {d}
<1>1. \A e \in T : \E x \in S : e.op = x.op /\ e.of = x.of /\ e.here = x.here /\ (e = d => x = c)
                                /\ (e # d => e = x /\ e # c)
  OBVIOUS
<1>2. \A x \in S : \E e \in T : e.op = x.op /\ e.of = x.of /\ e.here = x.here
  OBVIOUS
<1> HIDE DEF T
<1>3. \A e \in T : Typed(e)
  BY DEF Good, T
<1>4. \A e \in T : Watched(v, e) /\ (e.here /\ Mutation(e) => Waits(v, e))
  BY <1>1 DEF Good, Watched, Waits, Mutation
<1>5. \A e, f \in T : Mutation(e) /\ Mutation(f) /\ e # f =>
        e.op = "act" /\ f.op = "act" /\ e.of.token # f.of.token
  BY <1>1 DEF Good, Mutation
<1> QED BY <1>2, <1>3, <1>4, <1>5 DEF Good, T

\* Fetches, and calls whose component is gone, may be dropped.
LEMMA DroppedGood ==
  ASSUME NEW S, NEW v, Good(S, v), NEW R, R \subseteq S,
         \A c \in S \ R : c.here => ~Mutation(c)
  PROVE  Good(R, v)
<1>1. \A c \in S : c.here /\ Mutation(c) => c \in R
  OBVIOUS
<1>2. \A c : c.op \in {"link", "submit", "update", "remove", "create", "amend", "act"} => Mutation(c)
  BY DEF Mutation, Reads
<1> QED BY <1>1, <1>2 DEF Good

\* A fetch the screen watches.
LEMMA FetchGood ==
  ASSUME NEW S, NEW v, Good(S, v), NEW d, Typed(d), ~Mutation(d), Watched(v, d)
  PROVE  Good(S \cup {d}, v)
BY DEF Good

\* The screen is left: its fetches are aborted, its mutations run on without it.
LEMMA LeftGood ==
  ASSUME NEW S, NEW v, Good(S, v), NEW w, Quiet(w),
         NEW R, R \subseteq S, \A c \in R : Mutation(c)
  PROVE  Good({[c EXCEPT !.here = FALSE] : c \in R}, w)
<1> DEFINE T == {[c EXCEPT !.here = FALSE] : c \in R}
<1>1. \A e \in T : \E c \in S : e = [c EXCEPT !.here = FALSE] /\ Mutation(c)
  OBVIOUS
<1> HIDE DEF T
<1>2. \A c \in S : Typed(c)
  BY DEF Good
<1>3. ASSUME NEW e \in T, NEW f \in T
      PROVE  /\ Typed(e) /\ ~e.here /\ Mutation(e)
             /\ e # f => e.op = "act" /\ f.op = "act" /\ e.of.token # f.of.token
  <2>1. PICK c \in S : e = [c EXCEPT !.here = FALSE] /\ Mutation(c)
    BY <1>1
  <2>2. PICK d \in S : f = [d EXCEPT !.here = FALSE] /\ Mutation(d)
    BY <1>1
  <2>3. e.op = c.op /\ e.of = c.of /\ e.got = c.got /\ e.here = FALSE /\ Typed(e)
    BY <1>2, <2>1, GoneIs
  <2>4. f.op = d.op /\ f.of = d.of
    BY <1>2, <2>2, GoneIs
  <2>5. e # f => c # d
    BY <2>1, <2>2
  <2> QED BY <2>1, <2>2, <2>3, <2>4, <2>5 DEF Good, Mutation
<1>4. \A e \in T : Watched(w, e)
  BY <1>3 DEF Watched, Mutation, Reads
<1> QED BY <1>3, <1>4 DEF Good, Quiet, T

\* The form is left, its page is not.
LEMMA BlurredGood ==
  ASSUME NEW S, NEW v, Good(S, v), NEW w, Quiet(w), v.page = w.page
  PROVE  Good({IF c.op \in Reads THEN c ELSE [c EXCEPT !.here = FALSE] : c \in S}, w)
<1> DEFINE M == {c \in S : Mutation(c)}
           T == {[c EXCEPT !.here = FALSE] : c \in M}
           R == {c \in S : ~Mutation(c)}
<1>1. {IF c.op \in Reads THEN c ELSE [c EXCEPT !.here = FALSE] : c \in S} = T \cup R
  BY DEF Mutation
<1>2. Good(T, w)
  <2>1. M \subseteq S /\ \A c \in M : Mutation(c)
    OBVIOUS
  <2> HIDE DEF M
  <2> QED BY <2>1, LeftGood
<1>3. \A c \in R : Typed(c) /\ Watched(w, c) /\ ~Mutation(c)
  BY DEF Good, Watched
<1> HIDE DEF T, R
<1>4. Good(T \cup R, w)
  BY <1>2, <1>3 DEF Good
<1> QED BY <1>1, <1>4

\* Beside a mutation that is not a moderator's there is no other.
LEMMA AloneGood ==
  ASSUME NEW S, NEW v, Good(S, v), NEW c \in S, Mutation(c), c.op # "act",
         NEW w, Quiet(w), SameWatch(v, w)
  PROVE  Good(S \ {c}, w)
<1>1. \A d \in S \ {c} : ~Mutation(d)
  BY DEF Good
<1>2. \A d \in S \ {c} : Typed(d) /\ Watched(v, d)
  BY DEF Good
<1>3. \A d \in S \ {c} : Watched(w, d)
  BY <1>2 DEF Watched, SameWatch
<1> QED BY <1>1, <1>2, <1>3 DEF Good, Quiet

\* A mutation that is not a moderator's starts when none is out.
LEMMA StartGood ==
  ASSUME NEW S, NEW v, Good(S, v), \A c \in S : ~Mutation(c),
         NEW d, Typed(d), Mutation(d), d.op # "act", d.here,
         NEW w, v.page = w.page, Waits(w, d),
         w.page = "product" => ~(w.busy /\ w.dialog = "busy")
  PROVE  Good(S \cup {d}, w)
<1>1. \A c \in S : Typed(c) /\ Watched(w, c) /\ ~Mutation(c)
  BY DEF Good, Watched
<1>2. Watched(w, d)
  BY DEF Watched, Mutation, Reads
<1>3. d \in S \cup {d}
  OBVIOUS
<1> QED BY <1>1, <1>2, <1>3 DEF Good, Waits

\* A moderator starts on one more review.
LEMMA ActGood ==
  ASSUME NEW S, NEW v, Good(S, v), v.page = "moderation", \A c \in S : c.here,
         NEW d, Typed(d), d.op = "act", d.here, d.of.token \notin v.pending,
         NEW w, w.page = "moderation", w.pending = v.pending \cup {d.of.token}
  PROVE  Good(S \cup {d}, w)
<1>1. \A c \in S : Mutation(c) => c.op = "act" /\ c.of.token \in v.pending
  BY DEF Good, Waits
<1>2. \A c \in S : Typed(c) /\ Watched(w, c) /\ (Mutation(c) => Waits(w, c))
  BY <1>1 DEF Good, Watched, Waits
<1>3. Watched(w, d) /\ Waits(w, d)
  BY DEF Watched, Waits
<1>4. \A c, e \in S \cup {d} : Mutation(c) /\ Mutation(e) /\ c # e =>
        c.op = "act" /\ e.op = "act" /\ c.of.token # e.of.token
  BY <1>1 DEF Good
<1> QED BY <1>2, <1>3, <1>4 DEF Good

\* One of the moderator's calls is over.
LEMMA ActedGood ==
  ASSUME NEW S, NEW v, Good(S, v), NEW c \in S, c.op = "act", c.here,
         NEW w, w.page = "moderation", w.pending = v.pending \ {c.of.token}
  PROVE  Good(S \ {c}, w)
<1>1. Mutation(c) /\ v.page = "moderation"
  BY DEF Good, Mutation, Reads, Waits
<1>2. \A d \in S \ {c} : Mutation(d) => d.op = "act" /\ d.of.token # c.of.token
  BY <1>1 DEF Good
<1>3. \A d \in S \ {c} : Typed(d) /\ Watched(w, d) /\ (d.here /\ Mutation(d) => Waits(w, d))
  BY <1>1, <1>2 DEF Good, Watched, Waits
<1>4. \A r \in w.pending : \E d \in S \ {c} : d.here /\ d.op = "act" /\ d.of.token = r
  BY <1>1 DEF Good
<1> QED BY <1>3, <1>4 DEF Good

-----------------------------------------------------------------------------
(* The steps. *)

LEMMA TabInitHolds == Init => TabInv
<1> SUFFICES ASSUME Init PROVE TabInv
  OBVIOUS
<1> USE DEF Init, TabInit, ReviewInit, ModerationInit, AuthoringInit
<1>1. TabTypes
  BY OnePage DEF TabTypes, Pages
<1>2. ReviewTypes
  BY DEF ReviewTypes, NoReviews
<1>3. ModerationTypes
  BY DEF ModerationTypes, NoList, States
<1>4. AuthoringTypes
  BY DEF AuthoringTypes, NoDetail
<1>5. Fits(view, place)
  BY ShapesAre DEF Fits, Blank, Pages
<1>6. Good(calls, view)
  BY DEF Good, Blank
<1> QED BY <1>1, <1>2, <1>3, <1>4, <1>5, <1>6 DEF TabInv, TypesInv

\* The parts of the next state.
LEMMA TabInvNext ==
  ASSUME TabTypes', ReviewTypes', ModerationTypes', AuthoringTypes',
         Fits(view', place'), Good(calls', view')
  PROVE  TabInv'
BY DEF TabInv, TypesInv

LEMMA ReviewsRest == ReviewTypes /\ UNCHANGED reviewVars => ReviewTypes'
BY DEF ReviewTypes, reviewVars

LEMMA ModerationRests == ModerationTypes /\ UNCHANGED modVars => ModerationTypes'
BY DEF ModerationTypes, modVars

LEMMA AuthoringRests == AuthoringTypes /\ UNCHANGED authorVars => AuthoringTypes'
BY DEF AuthoringTypes, authorVars

LEMMA TabMoves ==
  ASSUME TabTypes, journey' = journey, staff' = staff, place' \in Locations,
         live' \in BOOLEAN, known' \in BOOLEAN
  PROVE  TabTypes'
BY DEF TabTypes

LEMMA Parts ==
  ASSUME TabInv
  PROVE  /\ TabTypes /\ ReviewTypes /\ ModerationTypes /\ AuthoringTypes
         /\ Fits(view, place) /\ Good(calls, view) /\ view \in Screens
         /\ place \in Locations /\ Page = place[1] /\ Page \in Pages
         /\ live \in BOOLEAN /\ known \in BOOLEAN
BY LocationOf DEF TabInv, TypesInv, TabTypes, Fits, Page

\* Only what the tab caches has been asked for again.
LEMMA CacheKept ==
  ASSUME ReviewTypes, UNCHANGED <<reviews, storage, server>>, owed' \in BOOLEAN
  PROVE  ReviewTypes'
BY DEF ReviewTypes, storage, server

\* Only the draft and what is known of it have moved.
LEMMA StorageMoves ==
  ASSUME ReviewTypes, reviews' = reviews, UNCHANGED server, owed' \in BOOLEAN,
         NEW text \in Texts \cup {NoText}, draft' \in {draft, text}, typed' \in {typed, text},
         NEW b \in BOOLEAN, overtaken' \in {overtaken, b}
  PROVE  ReviewTypes'
<1>1. draft' \in Texts \cup {NoText} /\ typed' \in Texts \cup {NoText}
  BY DEF ReviewTypes
<1>2. overtaken' \in BOOLEAN
  BY Zenon DEF ReviewTypes
<1>3. mine' = mine /\ late' = late /\ foreign' = foreign
  BY DEF server
<1> QED BY <1>1, <1>2, <1>3, Zenon DEF ReviewTypes

\* Only the tab and the reviews have moved.
LEMMA ReviewsAlone ==
  ASSUME TabInv, ReviewTypes', UNCHANGED <<modVars, authorVars>>, journey' = journey, staff' = staff,
         place' \in Locations, live' \in BOOLEAN, known' \in BOOLEAN,
         Fits(view', place'), Good(calls', view')
  PROVE  TabInv'
<1>1. TabTypes' /\ ModerationTypes' /\ AuthoringTypes'
  BY Parts, TabMoves, ModerationRests, AuthoringRests
<1> QED BY <1>1, TabInvNext

\* Only the tab has moved.
LEMMA TabAlone ==
  ASSUME TabInv, UNCHANGED <<reviewVars, modVars, authorVars>>, journey' = journey, staff' = staff,
         place' \in Locations, live' \in BOOLEAN, known' \in BOOLEAN,
         Fits(view', place'), Good(calls', view')
  PROVE  TabInv'
<1>1. TabTypes' /\ ReviewTypes' /\ ModerationTypes' /\ AuthoringTypes'
  BY Parts, TabMoves, ReviewsRest, ModerationRests, AuthoringRests
<1> QED BY <1>1, TabInvNext

LEMMA SessionKeeps == TabInv /\ SessionStep => TabInv'
<1> SUFFICES ASSUME TabInv, SessionStep PROVE TabInv'
  OBVIOUS
<1>1. /\ UNCHANGED <<journey, staff, place, view, calls, reviewVars, modVars, authorVars>>
      /\ live' \in {live, FALSE} /\ known' \in {known, TRUE, FALSE}
  BY DEF SessionStep, Expire, RefreshSession, CollectSession
<1> QED BY <1>1, Parts, TabAlone

\* What an unmounted screen leaves.
LEMMA UnmountedGood ==
  ASSUME NEW R \in SUBSET calls, Good(calls, view), NEW w, Quiet(w)
  PROVE  Good(Unmounted(R), w)
<1>1. R \ Reading \subseteq calls /\ \A c \in R \ Reading : Mutation(c)
  BY DEF Reading, Mutation
<1> QED BY <1>1, LeftGood DEF Unmounted

LEMMA BlankFits == \A p : Fits(Blank, p) /\ Fits(Broken, p) /\ Quiet(Blank) /\ Quiet(Broken)
BY ShapesAre DEF Fits, Quiet, Blank, Broken, Pages

LEMMA GotoKeeps ==
  ASSUME TabInv, NEW loc \in Locations, Goto(loc), UNCHANGED <<reviewVars, modVars, authorVars>>
  PROVE  TabInv'
<1>1. /\ UNCHANGED <<journey, live, staff, known>>
      /\ place' = loc /\ view' = Blank /\ calls' = Unmounted(calls)
  BY DEF Goto
<1>2. Fits(view', place')
  BY <1>1, BlankFits
<1>3. Good(calls', view')
  BY <1>1, BlankFits, UnmountedGood, Parts
<1> QED BY <1>1, <1>2, <1>3, Parts, TabAlone

LEMMA LoadKeeps == TabInv /\ LoadPage => TabInv'
<1> SUFFICES ASSUME TabInv, LoadPage PROVE TabInv'
  OBVIOUS
<1>1. /\ UNCHANGED <<journey, staff>> /\ live' \in {live, TRUE} /\ known' = FALSE
      /\ view' = Blank /\ calls' = {} /\ ForgetCaches
      /\ UNCHANGED <<storage, server, state, disturbed, product, minted>>
  BY DEF LoadPage, Reload, FollowLink, Load
<1>2. place' \in Locations
  <2>1. CASE Reload
    BY <2>1, Parts DEF Reload, Load
  <2>2. CASE FollowLink
    <3>1. view \in SignInViews /\ place' = ReturnTo(view.back)
      BY <2>2, Parts, Shapes DEF FollowLink, Load
    <3>2. view.back \in Locations \cup {<<>>}
      BY <3>1 DEF SignInViews
    <3>3. <<"home">> \in Locations
      BY OnePage DEF Pages
    <3> QED BY <3>1, <3>2, <3>3 DEF ReturnTo
  <2> QED BY <2>1, <2>2 DEF LoadPage
<1>3. TabTypes'
  BY <1>1, <1>2, Parts, TabMoves
<1>4. ReviewTypes'
  BY <1>1, Parts DEF ReviewTypes, ForgetCaches, NoReviews, storage, server
<1>5. ModerationTypes'
  BY <1>1, Parts DEF ModerationTypes, ForgetCaches, NoList
<1>6. AuthoringTypes'
  BY <1>1, Parts DEF AuthoringTypes, ForgetCaches, NoDetail
<1>7. Fits(view', place')
  BY <1>1, BlankFits
<1>8. Good(calls', view')
  BY <1>1 DEF Good, Blank
<1> QED BY <1>3, <1>4, <1>5, <1>6, <1>7, <1>8, TabInvNext

LEMMA TurnAwayKeeps ==
  ASSUME TabInv, TurnAway, UNCHANGED <<reviewVars, modVars, authorVars>>
  PROVE  TabInv'
<1>1. /\ UNCHANGED <<journey, live, staff, view, calls>> /\ known' \in BOOLEAN /\ view = Blank
  BY Parts DEF TurnAway, HasSession
<1>2. place' \in Locations
  BY Parts, SignInLocation, OnePage DEF TurnAway, Pages
<1> QED BY <1>1, <1>2, BlankFits, Parts, TabAlone

LEMMA FailureKeeps == TabInv /\ EntryFails => TabInv'
<1> SUFFICES ASSUME TabInv, EntryFails PROVE TabInv'
  OBVIOUS
<1>1. /\ UNCHANGED <<journey, live, staff, known, place, calls, reviewVars, modVars, authorVars>>
      /\ view = Blank /\ view' = Broken
  BY DEF EntryFails, GuardFails, ProductFails, tabIdentity
<1>2. SameWatch(Blank, Broken)
  BY DEF SameWatch, Blank
<1>3. Good(calls', view')
  BY <1>1, <1>2, BlankFits, QuietCalls, QuietGood, Parts
<1> QED BY <1>1, <1>3, BlankFits, Parts, TabAlone

\* A screen is mounted: it waits for nothing yet.
LEMMA MountGood ==
  ASSUME TabInv, view = Blank, NEW w, Quiet(w)
  PROVE  Good(calls, w)
<1>1. SameWatch(Blank, w)
  BY DEF SameWatch, Blank
<1> QED BY <1>1, BlankFits, QuietCalls, QuietGood, Parts

LEMMA Mounts ==
  ASSUME TabInv, NEW w, Mount(w)
  PROVE  /\ UNCHANGED <<journey, place, live, staff>> /\ known' \in BOOLEAN
         /\ view = Blank /\ view' = w /\ Admitted
BY Parts DEF Mount

LEMMA SignInMounts ==
  ASSUME TabInv, MountSignIn, CollectLists, UNCHANGED <<reviewVars, authorVars>>
  PROVE  TabInv'
<1> DEFINE w == [page |-> "signIn", status |-> "idle", back |-> <<>>]
<1>1. Mount(w) /\ Page = "signIn" /\ calls' = calls
  BY DEF MountSignIn
<1>2. /\ UNCHANGED <<journey, place, live, staff>> /\ known' \in BOOLEAN
      /\ view = Blank /\ view' = w
  BY <1>1, Mounts
<1>3. w \in SignInViews /\ Quiet(w) /\ w.page = "signIn"
  BY DEF SignInViews, Quiet
<1> HIDE DEF w
<1>4. Fits(w, place)
  BY <1>1, <1>3, ShapesAre, Parts DEF Fits
<1>5. ModerationTypes'
  BY Parts DEF CollectLists, ModerationTypes, NoList
<1>6. TabTypes' /\ ReviewTypes' /\ AuthoringTypes'
  BY <1>2, Parts, TabMoves, ReviewsRest, AuthoringRests
<1> QED BY <1>1, <1>2, <1>3, <1>4, <1>5, <1>6, MountGood, TabInvNext

\* The fetches of the catalogue, of the moderation lists and of the reviews.
LEMMA ProductsGood ==
  ASSUME NEW S, NEW v, Good(S, v), v.page = "home", NEW f \in Filters
  PROVE  Good(ReadFilter(f, S), v)
<1> DEFINE d == Call("products", [filter |-> f])
           R == {c \in S : c.op # "products"}
<1>1. /\ d = [op |-> d.op, of |-> d.of, got |-> d.got, here |-> d.here]
      /\ d.op = "products" /\ d.of.filter = f /\ d.got.is = "sent" /\ d.here = TRUE
  BY DEF Call
<1> HIDE DEF d
<1>2. Typed(d) /\ ~Mutation(d) /\ Watched(v, d)
  BY <1>1 DEF Typed, Replies, Mutation, Reads, Watched
<1>3. R \subseteq S /\ \A c \in S \ R : ~Mutation(c)
  BY DEF Mutation, Reads
<1> HIDE DEF R
<1>4. Good(R \cup {d}, v)
  BY <1>2, <1>3, DroppedGood, FetchGood
<1> QED BY <1>4 DEF ReadFilter, ReadProducts, d, R

LEMMA ListGood ==
  ASSUME NEW S, NEW v, Good(S, v), v.page = "moderation", NEW f \in States
  PROVE  Good(ReadAgain(f, S), v)
<1> DEFINE d == Call("moderation", [filter |-> f])
           R == {c \in S : ~(c.op = "moderation" /\ c.of.filter = f)}
<1>1. /\ d = [op |-> d.op, of |-> d.of, got |-> d.got, here |-> d.here]
      /\ d.op = "moderation" /\ d.of.filter = f /\ d.got.is = "sent" /\ d.here = TRUE
  BY DEF Call
<1> HIDE DEF d
<1>2. Typed(d) /\ ~Mutation(d) /\ Watched(v, d)
  BY <1>1 DEF Typed, Replies, Mutation, Reads, Watched
<1>3. R \subseteq S /\ \A c \in S \ R : ~Mutation(c)
  BY DEF Mutation, Reads
<1> HIDE DEF R
<1>4. Good(R \cup {d}, v)
  BY <1>2, <1>3, DroppedGood, FetchGood
<1> QED BY <1>4 DEF ReadAgain, d, R

LEMMA ReviewsCallGood ==
  ASSUME NEW S, NEW v, Good(S, v), v.page = "product",
         NEW deep \in BOOLEAN, NEW more \in BOOLEAN, more => deep
  PROVE  Good(S \cup {Call("reviews", [deep |-> deep, more |-> more])}, v)
<1> DEFINE d == Call("reviews", [deep |-> deep, more |-> more])
<1>1. /\ d = [op |-> d.op, of |-> d.of, got |-> d.got, here |-> d.here]
      /\ d.op = "reviews" /\ d.of.deep = deep /\ d.of.more = more /\ d.got.is = "sent" /\ d.here = TRUE
  BY DEF Call
<1> HIDE DEF d
<1>2. Typed(d) /\ ~Mutation(d) /\ Watched(v, d)
  BY <1>1 DEF Typed, Replies, Mutation, Reads, Watched
<1> QED BY <1>2, FetchGood DEF d

LEMMA RefetchedGood ==
  ASSUME ReviewTypes, NEW S, NEW v, Good(S, v), v.page = "product"
  PROVE  Good(Refetched(S), v) /\ Joins(S) \in BOOLEAN
<1> DEFINE R == {c \in S : c.op # "reviews"}
<1>1. reviews.deep \in BOOLEAN
  BY DEF ReviewTypes
<1>2. R \subseteq S /\ \A c \in S \ R : ~Mutation(c)
  BY DEF Mutation, Reads
<1> HIDE DEF R
<1>3. Good(R \cup {Call("reviews", [deep |-> reviews.deep, more |-> FALSE])}, v)
  BY <1>1, <1>2, DroppedGood, ReviewsCallGood
<1>4. Good(Refetched(S), v)
  BY <1>3 DEF Refetched, NotReading, ReadReviews, R
<1> QED BY <1>4 DEF Joins

LEMMA CatalogueMounts ==
  ASSUME TabInv, MountCatalogue, CollectLists, UNCHANGED <<reviewVars, authorVars>>
  PROVE  TabInv'
<1> DEFINE w == [page |-> "home", url |-> All, box |-> Plain(All), timer |-> FALSE,
                 going |-> {}, shown |-> {}, failed |-> FALSE]
<1>1. Mount(w) /\ Page = "home" /\ calls' \in {calls, ReadFilter(All, calls)}
  BY DEF MountCatalogue
<1>2. /\ UNCHANGED <<journey, place, live, staff>> /\ known' \in BOOLEAN
      /\ view = Blank /\ view' = w
  BY <1>1, Mounts
<1>3. Plain(All) \in Drafts /\ All \in Filters
  BY DEF Plain, Drafts, Filters
<1>4. w \in CatalogueViews /\ Quiet(w) /\ w.page = "home"
  BY <1>3 DEF CatalogueViews, Quiet
<1> HIDE DEF w
<1>5. Fits(w, place)
  BY <1>1, <1>4, ShapesAre, Parts DEF Fits
<1>6. ModerationTypes'
  BY Parts DEF CollectLists, ModerationTypes, NoList
<1>7. TabTypes' /\ ReviewTypes' /\ AuthoringTypes'
  BY <1>2, Parts, TabMoves, ReviewsRest, AuthoringRests
<1>8. Good(calls', w)
  BY <1>1, <1>2, <1>3, <1>4, MountGood, ProductsGood
<1> QED BY <1>1, <1>2, <1>4, <1>5, <1>6, <1>7, <1>8, TabInvNext

LEMMA FormIs ==
  ASSUME NEW t \in Texts \cup {NoText}
  PROVE  /\ Closed \in ProductViews /\ Quiet(Closed) /\ Closed.page = "product" /\ ~Closed.busy
         /\ Closed.form = "closed" /\ Closed.dialog = "closed"
         /\ Open(t) \in ProductViews /\ Quiet(Open(t)) /\ Open(t).page = "product" /\ ~Open(t).busy
         /\ Open(t).form = "open" /\ Open(t).dialog = "closed" /\ Open(t).text = t
<1>1. /\ Closed \in ProductViews /\ Quiet(Closed) /\ Closed.page = "product" /\ ~Closed.busy
      /\ Closed.form = "closed" /\ Closed.dialog = "closed"
  BY DEF Closed, ProductViews, Quiet
<1>2. Open(t) \in ProductViews
  BY <1>1 DEF Open, ProductViews
<1>3. /\ Open(t).page = Closed.page /\ Open(t).busy = Closed.busy /\ Open(t).dialog = Closed.dialog
      /\ Open(t).form = "open" /\ Open(t).text = t
  BY <1>1 DEF Open, ProductViews
<1>4. Quiet(Open(t))
  BY <1>1, <1>3 DEF Quiet
<1> QED BY <1>1, <1>2, <1>3, <1>4

LEMMA FormFits ==
  /\ Fits(Closed, <<"product">>)
  /\ \A p : p[1] = "product" => Fits(Closed, p)
  /\ \A p, t : t \in Texts \cup {NoText} /\ p[1] \in {"new", "edit"} => Fits(Open(t), p)
<1>1. ASSUME NEW p, p[1] = "product" PROVE Fits(Closed, p)
  BY <1>1, FormIs, ShapesAre DEF Fits, ProductPages
<1>2. ASSUME NEW p, NEW t, t \in Texts \cup {NoText}, p[1] \in {"new", "edit"} PROVE Fits(Open(t), p)
  BY <1>2, FormIs, ShapesAre DEF Fits, ProductPages
<1> QED BY <1>1, <1>2

LEMMA InitialIsText ==
  ASSUME ReviewTypes, NEW p
  PROVE  InitialText(p) \in Texts \cup {NoText}
BY DEF ReviewTypes, InitialText

LEMMA ProductMounts ==
  ASSUME TabInv, MountProduct, UNCHANGED <<modVars, authorVars>>
  PROVE  TabInv'
<1> DEFINE t == InitialText(Page)
           w == IF Page = "product" THEN Closed ELSE Open(t)
<1>1. /\ Mount(w) /\ Page \in ProductPages /\ calls' \in {calls, Refetched(calls)}
      /\ owed' \in {owed, Joins(calls)} /\ UNCHANGED <<reviews, storage, server>>
  BY DEF MountProduct, RefetchReviews
<1>2. /\ UNCHANGED <<journey, place, live, staff>> /\ known' \in BOOLEAN
      /\ view = Blank /\ view' = w
  BY <1>1, Mounts
<1>3. t \in Texts \cup {NoText}
  BY Parts, InitialIsText
<1> HIDE DEF t
<1>4. Quiet(w) /\ w.page = "product"
  BY <1>3, FormIs
<1>5. Fits(w, place)
  BY <1>1, <1>3, FormFits, Parts DEF ProductPages
<1> HIDE DEF w
<1>6. Good(calls', w)
  BY <1>1, <1>2, <1>4, MountGood, RefetchedGood, Parts
<1>7. ReviewTypes'
  BY <1>1, Parts, CacheKept DEF Joins, ReviewTypes
<1> QED BY <1>1, <1>2, <1>5, <1>6, <1>7, Parts, ReviewsAlone

LEMMA ModerationMounts ==
  ASSUME TabInv, MountModeration, UNCHANGED <<reviewVars, authorVars>>
  PROVE  TabInv'
<1> DEFINE w == [page |-> "moderation", filter |-> "published", pending |-> {}]
<1>1. /\ Mount(w) /\ Page = "moderation" /\ calls' = ReadAgain("published", calls)
      /\ UNCHANGED modVars
  BY DEF MountModeration
<1>2. /\ UNCHANGED <<journey, place, live, staff>> /\ known' \in BOOLEAN
      /\ view = Blank /\ view' = w
  BY <1>1, Mounts
<1>3. w \in ModerationViews /\ Quiet(w) /\ w.page = "moderation" /\ "published" \in States
  BY DEF ModerationViews, Quiet, States
<1> HIDE DEF w
<1>4. Fits(w, place)
  BY <1>1, <1>3, ShapesAre, Parts DEF Fits
<1>5. Good(calls', w)
  BY <1>1, <1>2, <1>3, MountGood, ListGood
<1> QED BY <1>1, <1>2, <1>4, <1>5, Parts, TabAlone

LEMMA AuthoringMounts ==
  ASSUME TabInv, MountCreate \/ MountAmend, UNCHANGED <<reviewVars, modVars>>
  PROVE  TabInv'
<1>1. PICK p \in {"create", "amend"}, n \in Names \cup {NoName} :
        /\ Mount([page |-> p, name |-> n, slug |-> NoName, open |-> FALSE,
                  touched |-> FALSE, busy |-> FALSE, error |-> "none"])
        /\ Page = p /\ calls' = calls /\ UNCHANGED authorVars
  <2>1. detail.name \in Names \cup {NoName}
    BY Parts DEF AuthoringTypes
  <2> QED BY <2>1 DEF MountCreate, MountAmend
<1> DEFINE w == [page |-> p, name |-> n, slug |-> NoName, open |-> FALSE,
                 touched |-> FALSE, busy |-> FALSE, error |-> "none"]
<1>2. /\ UNCHANGED <<journey, place, live, staff>> /\ known' \in BOOLEAN
      /\ view = Blank /\ view' = w
  BY <1>1, Mounts
<1>3. w \in AuthoringViews /\ Quiet(w) /\ w.page = p
  BY DEF AuthoringViews, Quiet
<1> HIDE DEF w
<1>4. Fits(w, place)
  BY <1>1, <1>3, ShapesAre, Parts DEF Fits
<1>5. Good(calls', w)
  BY <1>1, <1>2, <1>3, MountGood
<1> QED BY <1>1, <1>2, <1>4, <1>5, Parts, TabAlone

LEMMA EnterKeeps == TabInv /\ Enter => TabInv'
BY TurnAwayKeeps, SignInMounts, CatalogueMounts, ProductMounts, ModerationMounts, AuthoringMounts
   DEF Enter

LEMMA FetchKeeps == TabInv /\ FetchProduct => TabInv'
<1> SUFFICES ASSUME TabInv, FetchProduct PROVE TabInv'
  OBVIOUS
<1> DEFINE d == Call("detail", [slug |-> "product"])
<1>1. /\ UNCHANGED <<journey, live, staff, known, place, view, reviewVars, modVars, authorVars>>
      /\ calls' = calls \cup {d}
  BY DEF FetchProduct, ReadDetail, authorTab
<1>2. /\ d = [op |-> d.op, of |-> d.of, got |-> d.got, here |-> d.here]
      /\ d.op = "detail" /\ d.got.is = "sent" /\ d.here = TRUE
  BY DEF Call
<1> HIDE DEF d
<1>3. Typed(d) /\ ~Mutation(d) /\ Watched(view, d)
  BY <1>2 DEF Typed, Replies, Mutation, Reads, Watched
<1>4. Good(calls', view')
  BY <1>1, <1>3, FetchGood, Parts
<1> QED BY <1>1, <1>4, Parts, TabAlone

-----------------------------------------------------------------------------
(* What becomes of a call, whatever it is. *)

\* The api answers.
LEMMA AnswerGood ==
  ASSUME TabInv, NEW c \in calls, NEW g, g.is \in Replies \ {"unauthorized"},
         c.op = "reviews" /\ g.is = "ok" =>
           g.own \in Texts \cup {NoText} /\ g.signed \in BOOLEAN,
         c.op = "moderation" /\ g.is = "ok" => g.rows \subseteq Reviews,
         c.op = "detail" /\ g.is = "ok" => g.name \in Names
  PROVE  Good(Answered(c, g), view)
<1> DEFINE d == [c EXCEPT !.got = g]
<1>1. Typed(c)
  BY Parts DEF Good
<1>2. /\ d.op = c.op /\ d.of = c.of /\ d.got = g /\ d.here = c.here
      /\ d = [op |-> d.op, of |-> d.of, got |-> d.got, here |-> d.here]
  BY <1>1, GotIs
<1>3. Answered(c, g) = (calls \ {c}) \cup {d}
  BY DEF Answered
<1> HIDE DEF d
<1>4. Typed(d)
  BY <1>1, <1>2 DEF Typed
<1> QED BY <1>2, <1>3, <1>4, AnsweredGood, Parts

\* A reply that says nothing more.
LEMMA ReplyGood ==
  ASSUME TabInv, NEW c \in calls, NEW x \in Replies,
         x = "unauthorized" => c.op \in Private,
         x = "ok" => c.op \notin {"reviews", "moderation", "detail"}
  PROVE  Good(Answered(c, [is |-> x]), view)
<1> DEFINE g == [is |-> x]
           d == [c EXCEPT !.got = g]
<1>1. Typed(c)
  BY Parts DEF Good
<1>2. /\ d.op = c.op /\ d.of = c.of /\ d.got = g /\ d.here = c.here
      /\ d = [op |-> d.op, of |-> d.of, got |-> d.got, here |-> d.here]
  BY <1>1, GotIs
<1>3. Answered(c, g) = (calls \ {c}) \cup {d}
  BY DEF Answered
<1>4. g.is = x
  OBVIOUS
<1> HIDE DEF d, g
<1>5. Typed(d)
  BY <1>1, <1>2, <1>4 DEF Typed
<1>6. Good((calls \ {c}) \cup {d}, view)
  BY <1>2, <1>5, AnsweredGood, Parts
<1> QED BY <1>3, <1>6 DEF g

\* Only the calls have moved.
LEMMA CallsAlone ==
  ASSUME TabInv, UNCHANGED <<reviewVars, modVars, authorVars, journey, place, view, live, staff, known>>,
         Good(calls', view)
  PROVE  TabInv'
BY Parts, TabAlone

\* Only the calls and the screen have.
LEMMA ScreenAlone ==
  ASSUME TabInv, UNCHANGED <<reviewVars, modVars, authorVars, journey, live, staff, known>>,
         place' \in Locations, Fits(view', place'), Good(calls', view')
  PROVE  TabInv'
BY Parts, TabAlone

LEMMA RepliesKeep ==
  ASSUME TabInv, NEW c \in calls, Refuse(c) \/ Fail(c) \/ ServeLink(c),
         UNCHANGED <<reviewVars, modVars, authorVars>>
  PROVE  TabInv'
<1>1. UNCHANGED <<journey, place, view, live, staff, known>>
  BY DEF Refuse, Fail, ServeLink
<1>2. Good(calls', view)
  <2>1. PICK x \in Replies : /\ x = "unauthorized" => c.op \in Private
                             /\ x = "ok" => c.op \notin {"reviews", "moderation", "detail"}
                             /\ calls' = Answered(c, [is |-> x])
    BY DEF Refuse, Fail, ServeLink, Replies
  <2> QED BY <2>1, ReplyGood
<1> QED BY <1>1, <1>2, CallsAlone

\* A 401: the sign-in page comes, or stays.
LEMMA BounceKeeps ==
  ASSUME TabInv, NEW c \in calls, Bounce(c), UNCHANGED <<reviewVars, modVars, authorVars>>
  PROVE  TabInv'
<1>1. /\ UNCHANGED <<journey, live, staff, known>> /\ place' = SignInFrom(place)
      /\ c.got.is = "unauthorized"
  BY DEF Bounce
<1>2. place' \in Locations /\ place'[1] = "signIn"
  BY <1>1, SignInLocation, Parts
<1>3. CASE view.page = "signIn"
  <2>1. view' = view /\ calls' = calls \ {c}
    BY <1>3 DEF Bounce
  <2>2. Fits(view', place')
    BY <1>2, <1>3, <2>1, Parts DEF Fits
  <2>3. c.op \in Private
    BY <1>1, Parts DEF Good, Typed
  <2>4. c.here => ~Mutation(c)
    BY <1>3, <2>3, Parts DEF Good, Waits, Private
  <2>5. Good(calls', view')
    BY <2>1, <2>4, DroppedGood, Parts
  <2> QED BY <1>1, <1>2, <2>2, <2>5, ScreenAlone
<1>4. CASE view.page # "signIn"
  <2>1. view' = Blank /\ calls' = Unmounted(calls \ {c})
    BY <1>4 DEF Bounce
  <2>2. Fits(view', place')
    BY <2>1, BlankFits
  <2>3. Good(calls', view')
    BY <2>1, BlankFits, UnmountedGood, Parts
  <2> QED BY <1>1, <1>2, <2>2, <2>3, ScreenAlone
<1> QED BY <1>3, <1>4

LEMMA AnswerLinkKeeps ==
  ASSUME TabInv, NEW c \in calls, AnswerLink(c), UNCHANGED <<reviewVars, modVars, authorVars>>
  PROVE  TabInv'
<1>1. /\ UNCHANGED <<journey, place, live, staff, known>> /\ calls' = calls \ {c} /\ c.op = "link"
  BY DEF AnswerLink
<1>2. Mutation(c) /\ Typed(c) /\ (c.here => Waits(view, c))
  BY <1>1, Parts DEF Mutation, Reads, Good
<1>3. CASE ~c.here
  <2>1. view' = view
    BY <1>3 DEF AnswerLink
  <2>2. Good(calls', view')
    BY <1>1, <1>3, <2>1, DroppedGood, Parts
  <2> QED BY <1>1, <2>1, <2>2, Parts, ScreenAlone
<1>4. CASE c.here
  <2>1. view.page = "signIn" /\ view \in SignInViews
    BY <1>1, <1>2, <1>4, Parts, Shapes DEF Waits
  <2>2. PICK s \in {"sent", "error"}, b \in Locations \cup {<<>>} :
          view' = [view EXCEPT !.status = s, !.back = b]
    <3>1. c.of.back \in Locations \cup {<<>>} /\ view.back \in Locations \cup {<<>>}
      BY <1>1, <1>2, <2>1 DEF Typed, SignInViews
    <3>2. CASE c.got.is = "ok"
      BY <1>4, <3>1, <3>2 DEF AnswerLink
    <3>3. CASE c.got.is # "ok"
      <4>1. view' = [view EXCEPT !.status = "error"]
        BY <1>4, <3>3 DEF AnswerLink
      <4>2. [view EXCEPT !.status = "error"] = [view EXCEPT !.status = "error", !.back = view.back]
        BY <2>1 DEF SignInViews
      <4> QED BY <3>1, <4>1, <4>2
    <3> QED BY <3>2, <3>3
  <2>3. view' \in SignInViews /\ view'.page = "signIn" /\ view'.status = s
    BY <2>1, <2>2 DEF SignInViews
  <2>4. Quiet(view') /\ SameWatch(view, view')
    BY <2>1, <2>3 DEF Quiet, SameWatch
  <2>5. Good(calls', view')
    BY <1>1, <1>2, <2>4, AloneGood, Parts
  <2>6. Fits(view', place')
    BY <1>1, <2>1, <2>3, ShapesAre, Parts DEF Fits
  <2> QED BY <1>1, <2>5, <2>6, Parts, ScreenAlone
<1> QED BY <1>2, <1>3, <1>4 DEF Typed

\* A mutation a screen is about to send, and what the screen then shows.
LEMMA SignInMoves ==
  ASSUME TabInv, (\E p \in Pages : Visit(p)) \/ EditEmail \/ RequestLink,
         UNCHANGED <<reviewVars, modVars, authorVars>>
  PROVE  TabInv'
<1>1. ASSUME NEW p \in Pages, Visit(p) PROVE TabInv'
  <2>1. PICK loc \in Locations : Goto(loc)
    BY <1>1, OnePage, SignInLocation DEF Visit, Pages
  <2> QED BY <2>1, GotoKeeps
<1>2. CASE EditEmail
  <2>1. /\ view \in SignInViews /\ view.status # "submitting" /\ view.page = "signIn"
        /\ UNCHANGED <<journey, place, live, staff, known, calls>>
        /\ view' = [view EXCEPT !.status = "idle", !.back = <<>>]
    BY <1>2, Shapes, Parts DEF EditEmail
  <2>2. view' \in SignInViews /\ view'.page = "signIn" /\ view'.status = "idle"
    BY <2>1 DEF SignInViews
  <2>3. SameWaits(view, view')
    BY <2>1, <2>2 DEF SameWaits
  <2>4. Fits(view', place')
    BY <2>1, <2>2, ShapesAre, Parts DEF Fits
  <2> QED BY <2>1, <2>3, <2>4, SameGood, Parts, ScreenAlone
<1>3. CASE RequestLink
  <2> DEFINE d == Call("link", [back |-> Tail(place)])
  <2>1. /\ view \in SignInViews /\ view.page = "signIn" /\ calls = Reading
        /\ UNCHANGED <<journey, place, live, staff, known>>
        /\ view' = [view EXCEPT !.status = "submitting", !.back = <<>>]
        /\ calls' = calls \cup {d}
    BY <1>3, Shapes, Parts DEF RequestLink, MaySend
  <2>2. view' \in SignInViews /\ view'.page = "signIn" /\ view'.status = "submitting"
    BY <2>1 DEF SignInViews
  <2>3. /\ d = [op |-> d.op, of |-> d.of, got |-> d.got, here |-> d.here]
        /\ d.op = "link" /\ d.of.back = Tail(place) /\ d.got.is = "sent" /\ d.here = TRUE
    BY DEF Call
  <2> HIDE DEF d
  <2>4. Typed(d) /\ Mutation(d) /\ Waits(view', d)
    BY <2>2, <2>3, TailLocation, Parts DEF Typed, Replies, Mutation, Reads, Waits
  <2>5. \A c \in calls : ~Mutation(c)
    BY <2>1 DEF Reading, Mutation
  <2>6. Good(calls', view')
    BY <2>1, <2>2, <2>3, <2>4, <2>5, StartGood, Parts
  <2>7. Fits(view', place')
    BY <2>1, <2>2, ShapesAre, Parts DEF Fits
  <2> QED BY <2>1, <2>6, <2>7, Parts, ScreenAlone
<1> QED BY <1>1, <1>2, <1>3

-----------------------------------------------------------------------------
(* The product page. *)

LEMMA ReviewMoves ==
  ASSUME TabInv, UNCHANGED <<modVars, authorVars, journey, live, staff, known>>,
         place' \in Locations, Fits(view', place'), Good(calls', view'), ReviewTypes'
  PROVE  TabInv'
<1>1. TabTypes' /\ ModerationTypes' /\ AuthoringTypes'
  BY Parts, TabMoves, ModerationRests, AuthoringRests
<1> QED BY <1>1, TabInvNext

LEMMA ServeReviewKeeps ==
  ASSUME TabInv, NEW c \in calls, ServeReview(c), UNCHANGED <<modVars, authorVars>>
  PROVE  TabInv'
<1>1. /\ UNCHANGED <<journey, live, staff, known, place, view, cached, storage>>
      /\ c.op \in {"submit", "update", "remove"}
  BY DEF ServeReview, tabIdentity
<1>2. PICK x \in {"ok", "failed", "conflict"} : calls' = Answered(c, [is |-> x])
  BY DEF ServeReview, Written
<1>3. Good(calls', view')
  BY <1>1, <1>2, ReplyGood DEF Replies
<1>4. c.of.text \in Texts \cup {NoText}
  BY <1>1, Parts DEF Good, Typed
<1>5. mine' \in Texts \cup {NoText} /\ late' \in BOOLEAN /\ foreign' \in BOOLEAN
  BY <1>4, Parts DEF ServeReview, Written, server, ReviewTypes
<1>6. ReviewTypes'
  BY <1>1, <1>5, Parts DEF ReviewTypes, cached, storage
<1> QED BY <1>1, <1>3, <1>6, Parts, ReviewMoves

LEMMA ServeReviewsKeeps ==
  ASSUME TabInv, NEW c \in calls, ServeReviews(c), UNCHANGED <<modVars, authorVars>>
  PROVE  TabInv'
<1> DEFINE g == [is |-> "ok", signed |-> live,
                 own |-> IF live /\ Carries(c) THEN mine ELSE NoText]
<1>1. /\ UNCHANGED <<journey, live, staff, known, place, view, reviewVars>>
      /\ c.op = "reviews" /\ calls' = Answered(c, g)
  BY DEF ServeReviews, tabIdentity
<1>2. g.is = "ok" /\ g.own \in Texts \cup {NoText}
  <2>1. mine \in Texts \cup {NoText}
    BY Parts DEF ReviewTypes
  <2>2. g.own = IF live /\ Carries(c) THEN mine ELSE NoText
    OBVIOUS
  <2>3. g.own = mine \/ g.own = NoText
    BY <2>2, Zenon
  <2>4. g.is = "ok"
    OBVIOUS
  <2> QED BY <2>1, <2>3, <2>4, Zenon
<1>3. g.signed \in BOOLEAN
  BY Parts
<1> HIDE DEF g
<1>4. Good(calls', view)
  BY <1>1, <1>2, <1>3, AnswerGood DEF Replies
<1> QED BY <1>1, <1>4, CallsAlone

\* The product's page without a form, over whatever screen shows.
LEMMA AfterWriteGood ==
  ASSUME TabInv, NEW c \in calls, c.op \in {"submit", "update"}, AfterWrite(c)
  PROVE  /\ place' \in Locations /\ Fits(view', place') /\ Good(calls', view')
         /\ owed' \in BOOLEAN
<1>1. Mutation(c) /\ Typed(c) /\ (c.here => Waits(view, c))
  BY Parts DEF Mutation, Reads, Good
<1>2. place' \in Locations
  BY OnePage, Parts DEF AfterWrite, Pages
<1>3. Closed.page = "product" /\ Quiet(Closed) /\ Closed # Blank
  BY FormIs DEF Blank
<1>4. CASE place' = place /\ ~c.here
  <2>1. view' = view
    BY <1>4 DEF AfterWrite
  <2>2. Good(calls \ {c}, view)
    BY <1>4, DroppedGood, Parts
  <2>3. CASE view.page = "product"
    BY <2>1, <2>2, <2>3, <1>2, <1>4, RefetchedGood, Parts DEF AfterWrite, RefetchReviews
  <2>4. CASE view = Blank
    <3>1. calls' = Unmounted(calls \ {c}) /\ owed' = owed
      BY <2>1, <2>4 DEF AfterWrite, Blank
    <3>2. Good(calls', Blank)
      BY <3>1, UnmountedGood, BlankFits, Parts
    <3> QED BY <1>2, <1>4, <2>1, <2>4, <3>1, <3>2, Parts DEF ReviewTypes
  <2>5. CASE view.page # "product" /\ view # Blank
    BY <1>2, <1>4, <2>1, <2>2, <2>5, Parts DEF AfterWrite, ReviewTypes
  <2> QED BY <2>3, <2>4, <2>5
<1>5. CASE ~(place' = place /\ ~c.here)
  <2>1. place' = <<"product">> /\ view' = IF OnProduct THEN Closed ELSE Blank
    BY <1>1, <1>5 DEF AfterWrite, Typed
  <2>2. CASE OnProduct
    <3>1. calls' = Refetched(calls \ {c}) /\ view' = Closed /\ owed' = Joins(calls \ {c})
      BY <1>3, <2>1, <2>2 DEF AfterWrite, RefetchReviews
    <3>2. SameWatch(view, Closed)
      BY <1>3, <2>2 DEF SameWatch, OnProduct
    <3>3. Good(calls \ {c}, Closed)
      BY <1>1, <1>3, <3>2, AloneGood, Parts
    <3>4. Good(calls', view')
      BY <1>3, <3>1, <3>3, RefetchedGood, Parts
    <3> QED BY <1>2, <2>1, <3>1, <3>4, FormFits DEF Joins
  <2>3. CASE ~OnProduct
    <3>1. view' = Blank /\ calls' = Unmounted(calls \ {c}) /\ owed' = owed
      BY <2>1, <2>3 DEF AfterWrite, Blank
    <3>2. Good(calls', Blank)
      BY <3>1, UnmountedGood, BlankFits, Parts
    <3> QED BY <1>2, <2>1, <3>1, <3>2, BlankFits, Parts DEF ReviewTypes
  <2> QED BY <2>2, <2>3
<1> QED BY <1>4, <1>5

LEMMA WrittenKeeps ==
  ASSUME TabInv, NEW c \in calls, AnswerWritten(c), UNCHANGED <<modVars, authorVars>>
  PROVE  TabInv'
<1>1. /\ UNCHANGED <<journey, live, staff, known, reviews, mine, late, foreign>>
      /\ c.op \in {"submit", "update"} /\ AfterWrite(c)
      /\ draft' \in {draft, NoText} /\ typed' \in {typed, NoText}
      /\ overtaken' \in {overtaken, typed' # NoText} /\ UNCHANGED server
  BY DEF AnswerWritten, tabIdentity, server, storage
<1>2. ReviewTypes'
  <2>1. NoText \in Texts \cup {NoText} /\ (typed' # NoText) \in BOOLEAN /\ reviews' = reviews
    BY <1>1
  <2>2. owed' \in BOOLEAN
    BY <1>1, AfterWriteGood
  <2> QED BY <1>1, <2>1, <2>2, StorageMoves, Parts
<1> QED BY <1>1, <1>2, AfterWriteGood, ReviewMoves

\* A form that shows its error is editable again.
LEMMA FormEnds ==
  ASSUME TabInv, NEW c \in calls, Mutation(c), c.op # "act", view.page = "product", NEW w,
         w \in ProductViews, Quiet(w), w.form = view.form,
         w.dialog # "closed" => view.form = "closed"
  PROVE  Fits(w, place) /\ Good(calls \ {c}, w)
<1>1. w.page = "product" /\ ~w.busy
  BY DEF ProductViews, Quiet
<1>2. SameWatch(view, w)
  BY <1>1 DEF SameWatch
<1>3. Fits(w, place)
  BY <1>1, ShapesAre, Parts DEF Fits
<1> QED BY <1>2, <1>3, AloneGood, Parts

LEMMA NotWrittenKeeps ==
  ASSUME TabInv, NEW c \in calls, AnswerNotWritten(c), UNCHANGED <<modVars, authorVars>>
  PROVE  TabInv'
<1>1. /\ UNCHANGED <<journey, place, live, staff, known, reviewVars>>
      /\ c.op \in {"submit", "update"} /\ calls' = calls \ {c} /\ c.got.is \in {"conflict", "failed"}
      /\ view' = IF c.here THEN [view EXCEPT !.busy = FALSE, !.error = c.got.is] ELSE view
  BY DEF AnswerNotWritten, tabIdentity
<1>2. Mutation(c) /\ Typed(c) /\ (c.here => Waits(view, c))
  BY <1>1, Parts DEF Mutation, Reads, Good
<1>3. CASE ~c.here
  <2>1. Good(calls', view)
    BY <1>1, <1>3, DroppedGood, Parts
  <2> QED BY <1>1, <1>3, <2>1, Parts, ScreenAlone
<1>4. CASE c.here
  <2>1. view.page = "product" /\ view.busy /\ view \in ProductViews
    BY <1>1, <1>2, <1>4, Shapes, Parts DEF Waits
  <2>2. view.form = "open" /\ view.dialog = "closed"
    BY <2>1, Parts DEF Fits, ProductViews
  <2>3. view' = [view EXCEPT !.busy = FALSE, !.error = c.got.is]
    BY <1>1, <1>4
  <2>4. view' \in ProductViews /\ view'.form = view.form /\ view'.dialog = view.dialog
    BY <1>1, <2>1, <2>3 DEF ProductViews
  <2>5. ~view'.busy /\ view'.page = "product"
    BY <2>1, <2>3 DEF ProductViews
  <2>6. Quiet(view')
    BY <2>2, <2>4, <2>5 DEF Quiet
  <2>7. Fits(view', place') /\ Good(calls', view')
    BY <1>1, <1>2, <2>1, <2>2, <2>4, <2>6, FormEnds
  <2> QED BY <1>1, <2>7, Parts, ScreenAlone
<1> QED BY <1>3, <1>4

LEMMA RemovedKeeps ==
  ASSUME TabInv, NEW c \in calls, AnswerRemoved(c), UNCHANGED <<modVars, authorVars>>
  PROVE  TabInv'
<1>1. /\ UNCHANGED <<journey, place, live, staff, known, reviews, storage, server>>
      /\ c.op = "remove" /\ owed' \in {owed, Joins(calls \ {c})}
      /\ view' = IF ~c.here THEN view
                 ELSE [view EXCEPT !.dialog = IF c.got.is = "ok" THEN "closed" ELSE "failed"]
      /\ calls' = IF OnProduct /\ c.got.is = "ok" THEN Refetched(calls \ {c}) ELSE calls \ {c}
  BY DEF AnswerRemoved, RefetchReviews, tabIdentity
<1>2. Mutation(c) /\ Typed(c) /\ (c.here => Waits(view, c))
  BY <1>1, Parts DEF Mutation, Reads, Good
<1>3. view'.page = view.page /\ Fits(view', place) /\ Good(calls \ {c}, view')
  <2>1. CASE ~c.here
    BY <1>1, <2>1, DroppedGood, Parts
  <2>2. CASE c.here
    <3> DEFINE s == IF c.got.is = "ok" THEN "closed" ELSE "failed"
    <3>1. view.page = "product" /\ view.dialog = "busy" /\ view \in ProductViews
      BY <1>1, <1>2, <2>2, Shapes, Parts DEF Waits
    <3>2. view.form = "closed" /\ ~view.busy
      BY <3>1, Parts DEF Fits, ProductViews
    <3>3. view' = [view EXCEPT !.dialog = s] /\ s \in {"closed", "failed"}
      BY <1>1, <2>2
    <3> HIDE DEF s
    <3>4. view' \in ProductViews /\ view'.form = view.form /\ view'.dialog = s
          /\ view'.busy = view.busy /\ view'.page = "product"
      BY <3>1, <3>3 DEF ProductViews
    <3>5. Quiet(view')
      BY <3>2, <3>3, <3>4 DEF Quiet
    <3> QED BY <1>1, <1>2, <3>1, <3>2, <3>4, <3>5, FormEnds
  <2> QED BY <2>1, <2>2
<1>4. Good(calls', view')
  <2>1. CASE OnProduct /\ c.got.is = "ok"
    BY <1>1, <1>3, <2>1, RefetchedGood, Parts DEF OnProduct
  <2>2. CASE ~(OnProduct /\ c.got.is = "ok")
    BY <1>1, <1>3, <2>2
  <2> QED BY <2>1, <2>2
<1>5. ReviewTypes'
  BY <1>1, Parts, CacheKept DEF Joins, ReviewTypes
<1> QED BY <1>1, <1>3, <1>4, <1>5, Parts, ReviewMoves

\* A refetch that no longer has the review takes the dialog on it away.
LEMMA ListReadKeeps ==
  ASSUME TabInv, NEW c \in calls, AnswerReviews(c), UNCHANGED <<modVars, authorVars>>
  PROVE  TabInv'
<1> DEFINE own == IF c.of.more /\ reviews.own # NoText THEN reviews.own ELSE c.got.own
           signed == c.got.signed /\ (c.of.more => reviews.signed)
<1>1. /\ UNCHANGED <<journey, place, live, staff, known, owed, storage, server>>
      /\ c.op = "reviews" /\ c.got.is \in {"ok", "failed"}
      /\ reviews' = IF c.got.is = "failed" THEN [reviews EXCEPT !.failed = TRUE]
                    ELSE [loaded |-> TRUE, failed |-> FALSE, deep |-> c.of.deep,
                          own |-> own, signed |-> signed]
      /\ IF reviews'.own = NoText /\ view.dialog # "closed"
           THEN view' = [view EXCEPT !.dialog = "closed"] /\ calls' = Unmounted(calls)
           ELSE calls' = calls \ {c} /\ view' = view
  BY DEF AnswerReviews, tabIdentity
<1>2. ~Mutation(c) /\ Typed(c) /\ view.page = "product"
  BY <1>1, Parts DEF Mutation, Reads, Good, Watched
<1>3. reviews' \in [loaded : BOOLEAN, failed : BOOLEAN, own : Texts \cup {NoText},
                    signed : BOOLEAN, deep : BOOLEAN]
  <2>1. CASE c.got.is = "failed"
    BY <1>1, <2>1, Parts DEF ReviewTypes
  <2>2. CASE c.got.is # "failed"
    <3>1. own \in Texts \cup {NoText} /\ signed \in BOOLEAN /\ c.of.deep \in BOOLEAN
      BY <1>1, <1>2, <2>2, Parts DEF Typed, ReviewTypes
    <3>2. reviews' = [loaded |-> TRUE, failed |-> FALSE, deep |-> c.of.deep,
                      own |-> own, signed |-> signed]
      BY <1>1, <2>2
    <3> HIDE DEF own, signed
    <3> QED BY <3>1, <3>2
  <2> QED BY <2>1, <2>2
<1>4. ReviewTypes'
  BY <1>1, <1>3, Parts DEF ReviewTypes, storage, server
<1>5. Fits(view', place) /\ Good(calls', view')
  <2>1. CASE reviews'.own = NoText /\ view.dialog # "closed"
    <3>1. view' = [view EXCEPT !.dialog = "closed"] /\ calls' = Unmounted(calls)
      BY <1>1, <2>1
    <3>2. view \in ProductViews
      BY <1>2, Shapes, Parts
    <3>3. view.form = "closed" /\ ~view.busy
      BY <1>2, <2>1, <3>2, Parts DEF Fits, ProductViews
    <3>4. view' \in ProductViews /\ view'.form = view.form /\ view'.dialog = "closed"
          /\ view'.busy = view.busy /\ view'.page = "product"
      BY <3>1, <3>2 DEF ProductViews
    <3>5. Quiet(view')
      BY <3>3, <3>4 DEF Quiet
    <3>6. Fits(view', place)
      BY <1>2, <3>3, <3>4, ShapesAre, Parts DEF Fits
    <3>7. Good(calls', view')
      BY <3>1, <3>5, UnmountedGood, Parts
    <3> QED BY <3>6, <3>7
  <2>2. CASE ~(reviews'.own = NoText /\ view.dialog # "closed")
    <3>1. calls' = calls \ {c} /\ view' = view
      BY <1>1, <2>2
    <3> QED BY <1>2, <3>1, DroppedGood, Parts
  <2> QED BY <2>1, <2>2
<1> QED BY <1>1, <1>4, <1>5, Parts, ReviewMoves

LEMMA ReviewCallKeeps ==
  ASSUME TabInv, NEW c \in calls, ReviewCall(c), UNCHANGED <<modVars, authorVars>>
  PROVE  TabInv'
BY ServeReviewKeeps, ServeReviewsKeeps, WrittenKeeps, NotWrittenKeeps, ListReadKeeps, RemovedKeeps
   DEF ReviewCall

\* A form, or the page without one, over a page that waits for nothing.
LEMMA FormShows ==
  ASSUME TabInv, view.page = "product", \A c \in calls : c.here => ~Mutation(c),
         NEW t \in Texts \cup {NoText}, NEW w \in {Closed, Open(t)}
  PROVE  Good(calls, w)
<1>1. Quiet(w) /\ SameWatch(view, w)
  BY FormIs DEF SameWatch
<1> QED BY <1>1, QuietGood, Parts

\* A form that is not waiting has nothing out, nor a page with a closed dialog.
LEMMA NothingOut ==
  ASSUME TabInv, view.page = "product", ~view.busy, view.dialog # "busy"
  PROVE  \A c \in calls : c.here => ~Mutation(c)
<1>1. Quiet(view)
  BY DEF Quiet
<1> QED BY <1>1, QuietCalls, Parts

\* The form opens on the page, or its mode changes under it.
LEMMA FormComes ==
  ASSUME TabInv, NEW p \in {"new", "edit"}, OpenForm(p) \/ SwitchForm(p),
         UNCHANGED <<modVars, authorVars>>
  PROVE  TabInv'
<1>1. /\ UNCHANGED <<journey, live, staff, known>> /\ view.page = "product"
      /\ place' = <<p>> /\ place' \in Locations /\ place'[1] = p
  BY OnePage DEF OpenForm, SwitchForm, tabIdentity, OnProduct, Pages
<1>2. CASE OpenForm(p)
  <2> DEFINE t == InitialText(p)
  <2>1. view' = Open(t) /\ calls' = Abandoned(calls) /\ UNCHANGED reviewVars
    BY <1>2 DEF OpenForm
  <2>2. t \in Texts \cup {NoText}
    BY InitialIsText, Parts
  <2> HIDE DEF t
  <2>3. Quiet(view') /\ view'.page = view.page /\ Fits(view', place')
    BY <1>1, <2>1, <2>2, FormIs, FormFits
  <2>4. Good(calls', view')
    BY <2>1, <2>3, BlurredGood, Parts DEF Abandoned
  <2> QED BY <1>1, <2>1, <2>3, <2>4, ScreenAlone
<1>3. CASE SwitchForm(p)
  <2>1. /\ UNCHANGED <<view, calls, cached, server>> /\ view.form = "open" /\ typed' = typed
        /\ draft' \in {draft, view.text} /\ overtaken' \in {overtaken, view.text # typed}
    BY <1>3 DEF SwitchForm, storage
  <2>2. view.text \in Texts \cup {NoText}
    BY <1>1, Shapes, Parts DEF ProductViews
  <2>3. ReviewTypes'
    <3>1. (view.text # typed) \in BOOLEAN /\ reviews' = reviews /\ owed' \in BOOLEAN
      BY <2>1, Parts DEF cached, ReviewTypes
    <3> QED BY <2>1, <2>2, <3>1, StorageMoves, Parts
  <2>4. Fits(view', place')
    BY <1>1, <2>1, Parts DEF Fits, ProductPages
  <2> QED BY <1>1, <2>1, <2>3, <2>4, Parts, ReviewMoves
<1> QED BY <1>2, <1>3

LEMMA FormGoes ==
  ASSUME TabInv, CancelForm \/ BackToPage \/ ViewYours, UNCHANGED <<modVars, authorVars>>
  PROVE  TabInv'
<1>1. UNCHANGED <<journey, live, staff, known>> /\ view.page = "product" /\ view \in ProductViews
  BY Shapes, Parts DEF CancelForm, BackToPage, ViewYours, tabIdentity, OnProduct
<1>2. Fits(view, place) /\ Page = place[1] /\ <<"product">> \in Locations
  BY Parts, OnePage DEF Pages
<1>3. CASE CancelForm
  <2>1. /\ view' = Closed /\ place' = <<"product">> /\ calls' = calls
        /\ UNCHANGED <<cached, server>> /\ overtaken' \in {overtaken, FALSE}
        /\ draft' \in {draft, NoText} /\ typed' \in {typed, NoText}
        /\ ~view.busy /\ view.form = "open"
    BY <1>3 DEF CancelForm, storage
  <2>2. view.dialog # "busy"
    BY <1>1, <1>2, <2>1 DEF Fits
  <2>3. Good(calls', view')
    BY <1>1, <2>1, <2>2, NothingOut, FormShows
  <2>4. ReviewTypes'
    <3>1. reviews' = reviews /\ owed' \in BOOLEAN /\ NoText \in Texts \cup {NoText} /\ FALSE \in BOOLEAN
      BY <2>1, Parts DEF cached, ReviewTypes
    <3> QED BY <2>1, <3>1, StorageMoves, Parts
  <2> QED BY <1>1, <1>2, <2>1, <2>3, <2>4, FormFits, ReviewMoves
<1>4. CASE BackToPage
  <2>1. /\ view' = Closed /\ place' = <<"product">> /\ UNCHANGED reviewVars
        /\ calls' = Abandoned(calls)
    BY <1>4 DEF BackToPage
  <2>2. Quiet(Closed) /\ view.page = Closed.page
    BY <1>1, FormIs
  <2>3. Good(calls', view')
    BY <2>1, <2>2, BlurredGood, Parts DEF Abandoned
  <2> QED BY <1>1, <1>2, <2>1, <2>3, FormFits, ScreenAlone
<1>5. CASE ViewYours
  <2>1. /\ view' = Closed /\ place' = <<"product">> /\ calls' = Refetched(calls)
        /\ owed' = Joins(calls) /\ UNCHANGED <<reviews, storage, server>>
        /\ view.form = "open" /\ view.error = "conflict"
    BY <1>5 DEF ViewYours, RefetchReviews
  <2>2. view.dialog # "busy" /\ ~view.busy
    BY <1>1, <1>2, <2>1 DEF Fits
  <2>3. Good(calls, Closed)
    BY <1>1, <2>2, NothingOut, FormShows
  <2>4. Good(calls', view')
    BY <2>1, <2>3, FormIs, RefetchedGood, Parts
  <2>5. ReviewTypes'
    BY <2>1, Parts, CacheKept DEF Joins
  <2> QED BY <1>1, <1>2, <2>1, <2>4, <2>5, FormFits, ReviewMoves
<1> QED BY <1>3, <1>4, <1>5

LEMMA TypeKeeps ==
  ASSUME TabInv, NEW text \in Texts \cup {NoText}, Type(text), UNCHANGED <<modVars, authorVars>>
  PROVE  TabInv'
<1>1. /\ UNCHANGED <<journey, live, staff, known, place, calls, cached, server>>
      /\ view.page = "product" /\ view.form = "open" /\ ~view.busy /\ view \in ProductViews
      /\ view' = [view EXCEPT !.text = text, !.error = "none"]
      /\ draft' \in {draft, text} /\ typed' \in {typed, text} /\ overtaken' \in {overtaken, FALSE}
  BY Shapes, Parts DEF Type, tabIdentity, storage, OnProduct
<1>2. /\ view' \in ProductViews /\ view'.page = "product" /\ view'.form = view.form
      /\ view'.busy = view.busy /\ view'.dialog = view.dialog
  BY <1>1 DEF ProductViews
<1>3. SameWaits(view, view')
  BY <1>1, <1>2 DEF SameWaits
<1>4. Fits(view', place')
  BY <1>1, <1>2, ShapesAre, Parts DEF Fits
<1>5. ReviewTypes'
  <2>1. reviews' = reviews /\ owed' \in BOOLEAN /\ FALSE \in BOOLEAN
    BY <1>1, Parts DEF cached, ReviewTypes
  <2> QED BY <1>1, <2>1, StorageMoves, Parts
<1> QED BY <1>1, <1>3, <1>4, <1>5, SameGood, Parts, ReviewMoves

LEMMA SubmitKeeps ==
  ASSUME TabInv, SubmitForm, UNCHANGED <<modVars, authorVars>>
  PROVE  TabInv'
<1>1. /\ UNCHANGED <<journey, live, staff, known, place, reviewVars>> /\ calls = Reading
      /\ view.page = "product" /\ view.form = "open" /\ ~view.busy /\ view \in ProductViews
  BY Shapes, Parts DEF SubmitForm, MaySend, tabIdentity, OnProduct
<1>2. view.dialog = "closed"
  BY <1>1, Parts DEF Fits
<1>3. CASE view.text = NoText
  <2>1. view' = [view EXCEPT !.error = "invalid"] /\ calls' = calls
    BY <1>3 DEF SubmitForm
  <2>2. /\ view' \in ProductViews /\ view'.page = "product" /\ view'.form = view.form
        /\ view'.busy = view.busy /\ view'.dialog = view.dialog
    BY <1>1, <2>1 DEF ProductViews
  <2>3. SameWaits(view, view')
    BY <1>1, <2>2 DEF SameWaits
  <2>4. Fits(view', place')
    BY <1>1, <2>2, ShapesAre, Parts DEF Fits
  <2> QED BY <1>1, <2>1, <2>3, <2>4, SameGood, Parts, ScreenAlone
<1>4. CASE view.text # NoText
  <2> DEFINE op == IF Page = "edit" /\ reviews.own # NoText THEN "update" ELSE "submit"
             d == Call(op, [text |-> view.text, mode |-> Page])
  <2>1. view' = [view EXCEPT !.busy = TRUE, !.error = "none"] /\ calls' = calls \cup {d}
    BY <1>4 DEF SubmitForm
  <2>2. op \in {"submit", "update"}
    OBVIOUS
  <2> HIDE DEF op
  <2>3. /\ d = [op |-> d.op, of |-> d.of, got |-> d.got, here |-> d.here]
        /\ d.op = op /\ d.of.text = view.text /\ d.got.is = "sent" /\ d.here = TRUE
    BY DEF Call
  <2> HIDE DEF d
  <2>4. /\ view' \in ProductViews /\ view'.page = "product" /\ view'.form = view.form
        /\ view'.dialog = view.dialog /\ view'.error = "none"
    BY <1>1, <2>1 DEF ProductViews
  <2>5. view'.busy
    BY <1>1, <2>1 DEF ProductViews
  <2>6. view.text \in Texts \cup {NoText}
    BY <1>1 DEF ProductViews
  <2>7. Typed(d) /\ Mutation(d) /\ Waits(view', d)
    BY <2>2, <2>3, <2>4, <2>5, <2>6 DEF Typed, Replies, Mutation, Reads, Waits
  <2>8. \A c \in calls : ~Mutation(c)
    BY <1>1 DEF Reading, Mutation
  <2>9. Good(calls', view')
    BY <1>1, <1>2, <2>1, <2>2, <2>3, <2>4, <2>7, <2>8, StartGood, Parts
  <2>10. Fits(view', place')
    BY <1>1, <1>2, <2>4, ShapesAre, Parts DEF Fits
  <2> QED BY <1>1, <2>9, <2>10, Parts, ScreenAlone
<1> QED BY <1>3, <1>4

LEMMA DialogKeeps ==
  ASSUME TabInv, ToggleDialog \/ ConfirmDelete, UNCHANGED <<modVars, authorVars>>
  PROVE  TabInv'
<1>1. /\ UNCHANGED <<journey, live, staff, known, place, reviewVars>>
      /\ view.page = "product" /\ view \in ProductViews /\ Fits(view, place) /\ view.dialog # "busy"
  BY Shapes, Parts DEF ToggleDialog, ConfirmDelete, tabIdentity, OnProduct
<1>2. view.form = "closed" /\ ~view.busy
  BY <1>1 DEF ToggleDialog, ConfirmDelete, Fits, ProductViews
<1>3. ASSUME NEW s \in {"closed", "open", "busy"}, view' = [view EXCEPT !.dialog = s]
      PROVE  /\ view' \in ProductViews /\ view'.page = "product" /\ view'.form = view.form
             /\ view'.busy = view.busy /\ view'.dialog = s /\ Fits(view', place')
  <2>1. /\ view' \in ProductViews /\ view'.page = "product" /\ view'.form = view.form
        /\ view'.busy = view.busy /\ view'.dialog = s
    BY <1>1, <1>3 DEF ProductViews
  <2> QED BY <1>1, <1>2, <2>1, ShapesAre DEF Fits
<1>4. CASE ToggleDialog
  <2>1. calls' = calls /\ view' = [view EXCEPT !.dialog = IF @ = "closed" THEN "open" ELSE "closed"]
    BY <1>4 DEF ToggleDialog
  <2>2. PICK s \in {"closed", "open"} : view' = [view EXCEPT !.dialog = s]
    BY <2>1
  <2>3. SameWaits(view, view') /\ Fits(view', place')
    BY <1>1, <1>3, <2>2 DEF SameWaits
  <2> QED BY <1>1, <2>1, <2>3, SameGood, Parts, ScreenAlone
<1>5. CASE ConfirmDelete
  <2> DEFINE d == Call("remove", [text |-> NoText])
  <2>1. calls = Reading /\ view' = [view EXCEPT !.dialog = "busy"] /\ calls' = calls \cup {d}
    BY <1>5 DEF ConfirmDelete, MaySend
  <2>2. /\ d = [op |-> d.op, of |-> d.of, got |-> d.got, here |-> d.here]
        /\ d.op = "remove" /\ d.of.text = NoText /\ d.got.is = "sent" /\ d.here = TRUE
    BY DEF Call
  <2> HIDE DEF d
  <2>3. /\ view'.page = "product" /\ view'.dialog = "busy" /\ Fits(view', place')
        /\ view'.busy = view.busy
    BY <1>3, <2>1
  <2>4. Typed(d) /\ Mutation(d) /\ Waits(view', d)
    BY <2>2, <2>3 DEF Typed, Replies, Mutation, Reads, Waits
  <2>5. \A c \in calls : ~Mutation(c)
    BY <2>1 DEF Reading, Mutation
  <2>6. Good(calls', view')
    BY <1>1, <1>2, <2>1, <2>2, <2>3, <2>4, <2>5, StartGood, Parts
  <2> QED BY <1>1, <2>3, <2>6, Parts, ScreenAlone
<1> QED BY <1>4, <1>5

LEMMA ReadingKeeps ==
  ASSUME TabInv, LoadMore \/ RefreshReviews \/ PromptSignIn \/ WriteElsewhere,
         UNCHANGED <<modVars, authorVars>>
  PROVE  TabInv'
<1>1. CASE LoadMore
  <2>1. /\ UNCHANGED <<journey, live, staff, known, place, view, reviews, storage, server>>
        /\ view.page = "product" /\ owed' \in BOOLEAN
        /\ calls' = NotReading(calls) \cup {Call("reviews", [deep |-> TRUE, more |-> TRUE])}
    BY <1>1, Parts DEF LoadMore, tabIdentity, OnProduct, ReviewTypes
  <2>2. NotReading(calls) \subseteq calls /\ \A c \in calls \ NotReading(calls) : ~Mutation(c)
    BY DEF NotReading, Mutation, Reads
  <2>3. Good(NotReading(calls), view)
    BY <2>2, DroppedGood, Parts
  <2>4. Good(calls', view')
    BY <2>1, <2>3, ReviewsCallGood
  <2> QED BY <2>1, <2>4, CacheKept, Parts, ReviewMoves
<1>2. CASE RefreshReviews
  <2>1. /\ UNCHANGED <<journey, live, staff, known, place, view, reviews, storage, server>>
        /\ view.page = "product" /\ owed' = Joins(calls) /\ calls' = Refetched(calls)
    BY <1>2 DEF RefreshReviews, RefetchReviews, tabIdentity, OnProduct
  <2>2. Good(calls', view') /\ owed' \in BOOLEAN
    BY <2>1, RefetchedGood, Parts
  <2> QED BY <2>1, <2>2, CacheKept, Parts, ReviewMoves
<1>3. CASE PromptSignIn
  <2>1. Goto(SignInFrom(<<"new">>)) /\ UNCHANGED reviewVars
    BY <1>3 DEF PromptSignIn
  <2> QED BY <2>1, OnePage, SignInLocation, GotoKeeps DEF Pages
<1>4. CASE WriteElsewhere
  <2>1. /\ UNCHANGED <<journey, live, staff, known, place, view, calls, cached, storage>>
        /\ mine' \in {NoText} \cup Texts /\ late' \in BOOLEAN /\ foreign' = TRUE
    BY <1>4, Parts DEF WriteElsewhere, tabIdentity, ReviewTypes
  <2>2. ReviewTypes'
    BY <2>1, Parts DEF ReviewTypes, cached, storage
  <2> QED BY <2>1, <2>2, Parts, ReviewMoves
<1> QED BY <1>1, <1>2, <1>3, <1>4

LEMMA ReviewStepKeeps == TabInv /\ ReviewStep /\ UNCHANGED <<modVars, authorVars>> => TabInv'
BY FormComes, FormGoes, TypeKeeps, SubmitKeeps, DialogKeeps, ReadingKeeps DEF ReviewStep

-----------------------------------------------------------------------------
(* The moderation page. *)

LEMMA OtherIs ==
  ASSUME NEW f \in States
  PROVE  Other(f) \in States /\ \A g \in States : g = f \/ g = Other(f)
<1>1. \E g \in States : g # f
  BY DEF States
<1>2. Other(f) \in States /\ Other(f) # f
  BY <1>1 DEF Other
<1> QED BY <1>2 DEF States

LEMMA ModerationMoves ==
  ASSUME TabInv, UNCHANGED <<reviewVars, authorVars, journey, place, live, staff, known>>,
         Fits(view', place'), Good(calls', view'), ModerationTypes'
  PROVE  TabInv'
<1>1. TabTypes' /\ ReviewTypes' /\ AuthoringTypes'
  BY Parts, TabMoves, ReviewsRest, AuthoringRests
<1> QED BY <1>1, TabInvNext

LEMMA ServeActKeeps ==
  ASSUME TabInv, NEW c \in calls, ServeAct(c), UNCHANGED <<reviewVars, authorVars>>
  PROVE  TabInv'
<1>1. /\ UNCHANGED <<journey, place, live, staff, known, view, lists>> /\ c.op = "act"
      /\ state' = [state EXCEPT ![c.of.token] = Other(c.of.filter)]
      /\ disturbed' \in {disturbed, disturbed \cup {c.of.token}}
  BY DEF ServeAct, modTab
<1>2. PICK x \in {"ok", "failed"} : calls' = Answered(c, [is |-> x])
  BY DEF ServeAct
<1>3. Good(calls', view')
  BY <1>1, <1>2, ReplyGood DEF Replies
<1>4. c.of.token \in Reviews /\ c.of.filter \in States
  BY <1>1, Parts DEF Good, Typed
<1>5. Other(c.of.filter) \in States
  BY <1>4, OtherIs
<1>6. ModerationTypes'
  BY <1>1, <1>4, <1>5, Parts DEF ModerationTypes
<1> QED BY <1>1, <1>3, <1>6, Parts, ModerationMoves

LEMMA ListCallsKeep ==
  ASSUME TabInv, NEW c \in calls, ServeList(c) \/ AnswerList(c), UNCHANGED <<reviewVars, authorVars>>
  PROVE  TabInv'
<1>1. /\ UNCHANGED <<journey, place, live, staff, known, view, state, disturbed>> /\ c.op = "moderation"
  BY DEF ServeList, AnswerList, modTab, modVars
<1>2. CASE ServeList(c)
  <2> DEFINE g == [is |-> "ok", rows |-> {r \in Reviews : state[r] = c.of.filter}]
  <2>1. calls' = Answered(c, g) /\ UNCHANGED modVars
    BY <1>2 DEF ServeList
  <2>2. g.is = "ok" /\ g.rows \subseteq Reviews
    OBVIOUS
  <2> HIDE DEF g
  <2>3. Good(calls', view)
    BY <1>1, <2>1, <2>2, AnswerGood DEF Replies
  <2> QED BY <1>1, <2>1, <2>3, CallsAlone
<1>3. CASE AnswerList(c)
  <2>1. /\ calls' = calls \ {c} /\ c.got.is \in {"ok", "failed"}
        /\ lists' = [lists EXCEPT ![c.of.filter] =
                       IF c.got.is = "failed" THEN [failed |-> TRUE, rows |-> {}]
                       ELSE [failed |-> FALSE, rows |-> c.got.rows]]
    BY <1>3 DEF AnswerList
  <2>2. Typed(c) /\ ~Mutation(c)
    BY <1>1, Parts DEF Good, Mutation, Reads
  <2>3. Good(calls', view)
    BY <2>1, <2>2, DroppedGood, Parts
  <2>4. c.got.is # "failed" => c.got.rows \subseteq Reviews
    BY <1>1, <2>1, <2>2 DEF Typed
  <2>5. ModerationTypes'
    BY <1>1, <2>1, <2>4, Parts DEF ModerationTypes
  <2> QED BY <1>1, <2>3, <2>5, Parts, ModerationMoves
<1> QED BY <1>2, <1>3

LEMMA AnswerActKeeps ==
  ASSUME TabInv, NEW c \in calls, AnswerAct(c), UNCHANGED <<reviewVars, authorVars>>
  PROVE  TabInv'
<1>1. /\ UNCHANGED <<journey, place, live, staff, known, modVars>> /\ c.op = "act"
      /\ calls' = IF c.got.is = "ok" /\ Moderating /\ view.filter = c.of.filter
                    THEN ReadAgain(c.of.filter, calls \ {c}) ELSE calls \ {c}
      /\ view' = IF ~c.here THEN view ELSE [view EXCEPT !.pending = @ \ {c.of.token}]
  BY DEF AnswerAct, modTab
<1>2. Typed(c) /\ (c.here => Waits(view, c)) /\ c.of.filter \in States
  BY <1>1, Parts DEF Good, Mutation, Reads, Typed
<1>3. Good(calls \ {c}, view') /\ Fits(view', place) /\ view'.page = view.page
  <2>1. CASE ~c.here
    BY <1>1, <2>1, DroppedGood, Parts
  <2>2. CASE c.here
    <3>1. view.page = "moderation" /\ view \in ModerationViews
      BY <1>1, <1>2, <2>2, Shapes, Parts DEF Waits
    <3>2. view' = [view EXCEPT !.pending = @ \ {c.of.token}]
      BY <1>1, <2>2
    <3>3. view' \in ModerationViews /\ view'.page = "moderation"
          /\ view'.pending = view.pending \ {c.of.token}
      BY <3>1, <3>2 DEF ModerationViews
    <3>4. Fits(view', place)
      BY <3>1, <3>3, ShapesAre, Parts DEF Fits
    <3>5. Good(calls \ {c}, view')
      BY <1>1, <2>2, <3>3, ActedGood, Parts
    <3> QED BY <3>1, <3>3, <3>4, <3>5
  <2> QED BY <2>1, <2>2
<1>4. Good(calls', view')
  <2>1. CASE c.got.is = "ok" /\ Moderating /\ view.filter = c.of.filter
    BY <1>1, <1>2, <1>3, <2>1, ListGood DEF Moderating
  <2>2. CASE ~(c.got.is = "ok" /\ Moderating /\ view.filter = c.of.filter)
    BY <1>1, <1>3, <2>2
  <2> QED BY <2>1, <2>2
<1> QED BY <1>1, <1>3, <1>4, Parts, ScreenAlone

LEMMA ModerationCallKeeps ==
  ASSUME TabInv, NEW c \in calls, ModerationCall(c), UNCHANGED <<reviewVars, authorVars>>
  PROVE  TabInv'
BY ServeActKeeps, ListCallsKeep, AnswerActKeeps DEF ModerationCall

LEMMA ModerationStepKeeps == TabInv /\ ModerationStep /\ UNCHANGED <<reviewVars, authorVars>> => TabInv'
<1> SUFFICES ASSUME TabInv, ModerationStep, UNCHANGED <<reviewVars, authorVars>> PROVE TabInv'
  OBVIOUS
<1>1. /\ UNCHANGED <<journey, place, live, staff, known, modVars>>
      /\ view.page = "moderation" /\ view \in ModerationViews /\ view.filter \in States
  <2>1. UNCHANGED <<journey, place, live, staff, known, modVars>> /\ view.page = "moderation"
    BY DEF ModerationStep, SwitchFilter, RefreshList, Act, modTab, Moderating
  <2>2. view \in ModerationViews
    BY <2>1, Shapes, Parts
  <2> QED BY <2>1, <2>2 DEF ModerationViews
<1>2. CASE SwitchFilter
  <2>1. /\ view' = [view EXCEPT !.filter = Other(@)]
        /\ calls' = ReadAgain(view'.filter, calls \ Reading)
    BY <1>2 DEF SwitchFilter
  <2>2. Other(view.filter) \in States
    BY <1>1, OtherIs
  <2>3. /\ view' \in ModerationViews /\ view'.page = "moderation" /\ view'.pending = view.pending
        /\ view'.filter \in States
    BY <1>1, <2>1, <2>2 DEF ModerationViews
  <2>4. SameWaits(view, view')
    BY <1>1, <2>3 DEF SameWaits
  <2>5. Good(calls \ Reading, view)
    <3>1. \A c \in calls \ (calls \ Reading) : ~Mutation(c)
      BY DEF Reading, Mutation
    <3> QED BY <3>1, DroppedGood, Parts
  <2>6. Good(calls', view')
    BY <2>1, <2>3, <2>4, <2>5, SameGood, ListGood
  <2>7. Fits(view', place')
    BY <1>1, <2>3, ShapesAre, Parts DEF Fits
  <2> QED BY <1>1, <2>6, <2>7, Parts, ScreenAlone
<1>3. CASE RefreshList
  <2>1. calls' = ReadAgain(view.filter, calls) /\ view' = view
    BY <1>3 DEF RefreshList
  <2> QED BY <1>1, <2>1, ListGood, Parts, ScreenAlone
<1>4. ASSUME NEW r \in Reviews, Act(r) PROVE TabInv'
  <2> DEFINE d == Call("act", [token |-> r, filter |-> view.filter])
  <2>1. /\ view' = [view EXCEPT !.pending = @ \cup {r}] /\ calls' = calls \cup {d}
        /\ r \notin view.pending /\ \A c \in calls : c.here
    BY <1>4 DEF Act
  <2>2. /\ d = [op |-> d.op, of |-> d.of, got |-> d.got, here |-> d.here]
        /\ d.op = "act" /\ d.of.token = r /\ d.of.filter = view.filter /\ d.got.is = "sent"
        /\ d.here = TRUE
    BY DEF Call
  <2> HIDE DEF d
  <2>3. Typed(d)
    BY <1>1, <2>2 DEF Typed, Replies
  <2>4. /\ view' \in ModerationViews /\ view'.page = "moderation"
        /\ view'.pending = view.pending \cup {r}
    BY <1>1, <2>1 DEF ModerationViews
  <2>5. Good(calls', view')
    <3>1. /\ d.of.token \notin view.pending /\ d.here /\ d.op = "act"
          /\ view'.pending = view.pending \cup {d.of.token}
      BY <2>1, <2>2, <2>4
    <3>2. Good(calls \cup {d}, view')
      BY <1>1, <2>1, <2>3, <2>4, <3>1, ActGood, Parts
    <3> QED BY <2>1, <3>2
  <2>6. Fits(view', place')
    BY <1>1, <2>4, ShapesAre, Parts DEF Fits
  <2> QED BY <1>1, <2>5, <2>6, Parts, ScreenAlone
<1> QED BY <1>2, <1>3, <1>4 DEF ModerationStep

-----------------------------------------------------------------------------
(* The catalogue. *)

\* Whatever its box and its results, the catalogue has no spinner.
LEMMA CatalogueMoves ==
  ASSUME TabInv, UNCHANGED <<reviewVars, modVars, authorVars, journey, place, live, staff, known>>,
         view.page = "home", view' \in CatalogueViews,
         NEW f \in Filters, NEW S, Good(S, view), calls' \in {S, ReadFilter(f, S)}
  PROVE  TabInv'
<1>1. view'.page = "home"
  BY DEF CatalogueViews
<1>2. SameWaits(view, view')
  BY <1>1 DEF SameWaits
<1>3. Good(S, view') /\ Good(ReadFilter(f, S), view')
  BY <1>1, <1>2, SameGood, ProductsGood
<1>4. Fits(view', place')
  BY <1>1, ShapesAre, Parts DEF Fits
<1> QED BY <1>3, <1>4, Parts, ScreenAlone

LEMMA CatalogueCallKeeps ==
  ASSUME TabInv, NEW c \in calls, CatalogueCall(c), UNCHANGED <<reviewVars, modVars, authorVars>>
  PROVE  TabInv'
<1>1. UNCHANGED <<journey, place, live, staff, known>> /\ c.op = "products"
  BY DEF CatalogueCall, ServeProducts, AnswerProducts, catalogueTab
<1>2. CASE ServeProducts(c)
  BY <1>1, <1>2, ReplyGood, CallsAlone DEF ServeProducts, Replies
<1>3. CASE AnswerProducts(c)
  <2>1. Typed(c) /\ ~Mutation(c) /\ view.page = "home" /\ view \in CatalogueViews
    BY <1>1, Parts, Shapes DEF Good, Mutation, Reads, Watched
  <2>2. c.of.filter \in Filters /\ calls' = calls \ {c}
    BY <1>1, <1>3, <2>1 DEF Typed, AnswerProducts
  <2>3. view' \in CatalogueViews
    BY <1>3, <2>1, <2>2 DEF AnswerProducts, CatalogueViews
  <2>4. Good(calls \ {c}, view)
    BY <2>1, DroppedGood, Parts
  <2> QED BY <1>1, <2>1, <2>2, <2>3, <2>4, CatalogueMoves
<1> QED BY <1>2, <1>3 DEF CatalogueCall

LEMMA CommittedKeeps ==
  ASSUME TabInv, view.page = "home", NEW f \in Filters, Committed(f),
         UNCHANGED <<reviewVars, modVars, authorVars>>
  PROVE  TabInv'
<1>1. view \in CatalogueViews /\ Plain(f) \in Drafts
  BY Shapes, Parts DEF Plain, Drafts
<1>2. /\ UNCHANGED <<journey, place, live, staff, known>> /\ calls' = ReadFilter(f, calls)
      /\ view' = [view EXCEPT !.url = f, !.box = Plain(f), !.timer = FALSE, !.going = {},
                              !.shown = {}, !.failed = FALSE]
  BY DEF Committed, catalogueTab
<1>3. view' \in CatalogueViews
  BY <1>1, <1>2 DEF CatalogueViews
<1> QED BY <1>2, <1>3, Parts, CatalogueMoves

LEMMA CatalogueStepKeeps ==
  TabInv /\ CatalogueStep /\ UNCHANGED <<reviewVars, modVars, authorVars>> => TabInv'
<1> SUFFICES ASSUME TabInv, CatalogueStep, UNCHANGED <<reviewVars, modVars, authorVars>> PROVE TabInv'
  OBVIOUS
<1>1. view.page = "home" /\ view \in CatalogueViews
  BY Shapes, Parts DEF CatalogueStep, TypeSearch, Debounce, ClearFilters, Arrive, BackOrForward,
                       RefreshProducts, Searching, Browsing
<1>2. view.url \in Filters /\ view.box.text \in Filters /\ view.going \subseteq Filters /\ All \in Filters
  BY <1>1 DEF CatalogueViews, Drafts, Filters
<1>3. ASSUME view' \in CatalogueViews, calls' \in {calls, ReadFilter(view.url, calls)},
             UNCHANGED <<journey, place, live, staff, known>>
      PROVE  TabInv'
  BY <1>1, <1>2, <1>3, Parts, CatalogueMoves
<1>4. ASSUME NEW box \in Drafts, TypeSearch(box) PROVE TabInv'
  <2>1. /\ view' = [view EXCEPT !.box = box, !.timer = Typing(box, view.url)]
        /\ calls' = calls /\ UNCHANGED <<journey, place, live, staff, known>>
    BY <1>4 DEF TypeSearch, catalogueTab
  <2>2. Typing(box, view.url) \in BOOLEAN
    BY DEF Typing
  <2>3. view' \in CatalogueViews
    BY <1>1, <2>1, <2>2 DEF CatalogueViews
  <2> QED BY <1>3, <2>1, <2>3
<1>5. CASE Debounce
  <2>1. view' \in CatalogueViews
    BY <1>1, <1>2, <1>5 DEF Debounce, CatalogueViews
  <2> QED BY <1>3, <1>5, <2>1 DEF Debounce, catalogueTab
<1>6. CASE ClearFilters
  <2>1. Plain(All) \in Drafts
    BY <1>2 DEF Plain, Drafts
  <2>2. view' \in CatalogueViews
    BY <1>1, <1>2, <1>6, <2>1 DEF ClearFilters, CatalogueViews
  <2> QED BY <1>3, <1>6, <2>2 DEF ClearFilters, catalogueTab
<1>7. CASE Arrive
  <2>1. PICK f \in view.going : IF f # view.url THEN Committed(f)
                                ELSE /\ view' = [view EXCEPT !.going = {}]
                                     /\ UNCHANGED calls /\ UNCHANGED catalogueTab
    BY <1>7 DEF Arrive
  <2>2. CASE f # view.url
    BY <1>1, <1>2, <2>1, <2>2, CommittedKeeps
  <2>3. CASE f = view.url
    <3>1. view' \in CatalogueViews
      BY <1>1, <2>1, <2>3 DEF CatalogueViews
    <3> QED BY <1>3, <2>1, <2>3, <3>1 DEF catalogueTab
  <2> QED BY <2>2, <2>3
<1>8. CASE BackOrForward
  BY <1>1, <1>8, CommittedKeeps DEF BackOrForward
<1>9. CASE RefreshProducts
  BY <1>1, <1>3, <1>9 DEF RefreshProducts, catalogueTab
<1> QED BY <1>4, <1>5, <1>6, <1>7, <1>8, <1>9 DEF CatalogueStep

-----------------------------------------------------------------------------
(* The product form. *)

LEMMA AuthoringMoves ==
  ASSUME TabInv, UNCHANGED <<reviewVars, modVars, journey, live, staff, known>>,
         place' \in Locations, Fits(view', place'), Good(calls', view'), AuthoringTypes'
  PROVE  TabInv'
<1>1. TabTypes' /\ ReviewTypes' /\ ModerationTypes'
  BY Parts, TabMoves, ReviewsRest, ModerationRests
<1> QED BY <1>1, TabInvNext

LEMMA ServeProductKeeps ==
  ASSUME TabInv, NEW c \in calls, ServeCreate(c) \/ ServeAmend(c) \/ ServeDetail(c),
         UNCHANGED <<reviewVars, modVars>>
  PROVE  TabInv'
<1>1. UNCHANGED <<journey, live, staff, known, place, view, detail>>
  BY DEF ServeCreate, ServeAmend, ServeDetail, authorTab, authorVars
<1>2. Typed(c)
  BY Parts DEF Good
<1>3. CASE ServeCreate(c)
  <2>1. /\ c.op = "create" /\ product' = product
        /\ \/ minted' = minted
           \/ minted' = {[name |-> c.of.name, typed |-> c.of.typed,
                          slug |-> IF c.of.slug = Derive THEN c.of.name ELSE c.of.slug]}
    BY <1>3 DEF ServeCreate
  <2>2. PICK x \in {"ok", "failed", "conflict"} : calls' = Answered(c, [is |-> x])
    BY <1>3 DEF ServeCreate
  <2>3. Good(calls', view')
    BY <1>1, <2>1, <2>2, ReplyGood DEF Replies
  <2>4. c.of.name \in Names /\ c.of.slug \in Names \cup {Derive} /\ c.of.typed \in BOOLEAN
    BY <1>2, <2>1 DEF Typed
  <2>5. AuthoringTypes'
    BY <1>1, <2>1, <2>4, Parts DEF AuthoringTypes
  <2> QED BY <1>1, <2>3, <2>5, Parts, AuthoringMoves
<1>4. CASE ServeAmend(c)
  <2>1. c.op = "amend" /\ minted' = minted /\ product' = c.of.name
    BY <1>4 DEF ServeAmend
  <2>2. PICK x \in {"ok", "failed"} : calls' = Answered(c, [is |-> x])
    BY <1>4 DEF ServeAmend
  <2>3. Good(calls', view')
    BY <1>1, <2>1, <2>2, ReplyGood DEF Replies
  <2>4. c.of.name \in Names
    BY <1>2, <2>1 DEF Typed
  <2>5. AuthoringTypes'
    BY <1>1, <2>1, <2>4, Parts DEF AuthoringTypes
  <2> QED BY <1>1, <2>3, <2>5, Parts, AuthoringMoves
<1>5. CASE ServeDetail(c)
  <2> DEFINE g == [is |-> "ok", name |-> product]
  <2>1. c.op = "detail" /\ calls' = Answered(c, g) /\ UNCHANGED authorVars
    BY <1>5 DEF ServeDetail
  <2>2. g.is = "ok" /\ g.name \in Names
    BY Parts DEF AuthoringTypes
  <2> HIDE DEF g
  <2>3. Good(calls', view)
    BY <2>1, <2>2, AnswerGood DEF Replies
  <2> QED BY <1>1, <2>1, <2>3, CallsAlone
<1> QED BY <1>3, <1>4, <1>5

LEMMA SavedKeeps ==
  ASSUME TabInv, NEW c \in calls, AnswerSaved(c), UNCHANGED <<reviewVars, modVars>>
  PROVE  TabInv'
<1>1. /\ UNCHANGED <<journey, live, staff, known, authorVars>> /\ c.op \in {"create", "amend"}
      /\ place' \in {place, <<"product">>}
      /\ view' = IF c.here \/ place' # place THEN Blank ELSE view
      /\ calls' = IF view' = Blank THEN Unmounted(calls \ {c}) ELSE calls \ {c}
  BY DEF AnswerSaved, authorTab
<1>2. place' \in Locations
  BY <1>1, OnePage, Parts DEF Pages
<1>3. CASE view' = Blank
  <2>1. Good(calls', view') /\ Fits(view', place')
    BY <1>1, <1>3, UnmountedGood, BlankFits, Parts
  <2> QED BY <1>1, <1>2, <2>1, ScreenAlone
<1>4. CASE view' # Blank
  <2>1. ~c.here /\ place' = place /\ view' = view /\ calls' = calls \ {c}
    BY <1>1, <1>4
  <2>2. Good(calls', view')
    BY <2>1, DroppedGood, Parts
  <2> QED BY <1>1, <1>2, <2>1, <2>2, Parts, ScreenAlone
<1> QED BY <1>3, <1>4

LEMMA NotSavedKeeps ==
  ASSUME TabInv, NEW c \in calls, AnswerNotSaved(c), UNCHANGED <<reviewVars, modVars>>
  PROVE  TabInv'
<1>1. /\ UNCHANGED <<journey, place, live, staff, known, authorVars>>
      /\ c.op \in {"create", "amend"} /\ calls' = calls \ {c} /\ c.got.is \in {"conflict", "failed"}
      /\ view' = IF c.here THEN [view EXCEPT !.busy = FALSE, !.error = c.got.is] ELSE view
  BY DEF AnswerNotSaved, authorTab
<1>2. Mutation(c) /\ Typed(c) /\ (c.here => Waits(view, c))
  BY <1>1, Parts DEF Mutation, Reads, Good
<1>3. CASE ~c.here
  <2>1. Good(calls', view)
    BY <1>1, <1>3, DroppedGood, Parts
  <2> QED BY <1>1, <1>3, <2>1, Parts, ScreenAlone
<1>4. CASE c.here
  <2>1. view.page \in {"create", "amend"} /\ view \in AuthoringViews
    BY <1>1, <1>2, <1>4, Shapes, Parts DEF Waits
  <2>2. view' = [view EXCEPT !.busy = FALSE, !.error = c.got.is]
    BY <1>1, <1>4
  <2>3. view' \in AuthoringViews /\ view'.page = view.page
    BY <1>1, <2>1, <2>2 DEF AuthoringViews
  <2>4. ~view'.busy
    BY <2>1, <2>2 DEF AuthoringViews
  <2>5. Quiet(view') /\ SameWatch(view, view')
    BY <2>1, <2>3, <2>4 DEF Quiet, SameWatch
  <2>6. Good(calls', view')
    BY <1>1, <1>2, <2>5, AloneGood, Parts
  <2>7. Fits(view', place')
    BY <1>1, <2>1, <2>3, ShapesAre, Parts DEF Fits
  <2> QED BY <1>1, <2>6, <2>7, Parts, ScreenAlone
<1> QED BY <1>3, <1>4

LEMMA DetailKeeps ==
  ASSUME TabInv, NEW c \in calls, AnswerDetail(c), UNCHANGED <<reviewVars, modVars>>
  PROVE  TabInv'
<1>1. /\ UNCHANGED <<journey, place, live, staff, known, product, minted>>
      /\ c.op = "detail" /\ calls' = calls \ {c} /\ c.got.is \in {"ok", "failed"}
      /\ detail' = IF c.got.is = "ok" THEN [loaded |-> TRUE, name |-> c.got.name] ELSE detail
      /\ view' = IF view = Blank /\ c.got.is = "failed" THEN Broken ELSE view
  BY DEF AnswerDetail, authorTab
<1>2. Typed(c) /\ ~Mutation(c)
  BY <1>1, Parts DEF Good, Mutation, Reads
<1>3. c.got.is = "ok" => c.got.name \in Names
  BY <1>1, <1>2 DEF Typed
<1>4. AuthoringTypes'
  BY <1>1, <1>3, Parts DEF AuthoringTypes
<1>5. Good(calls \ {c}, view)
  BY <1>2, DroppedGood, Parts
<1>6. Good(calls', view') /\ Fits(view', place)
  <2>1. CASE view = Blank /\ c.got.is = "failed"
    <3>1. SameWatch(Blank, Broken)
      BY DEF SameWatch, Blank
    <3> QED BY <1>1, <1>5, <2>1, <3>1, BlankFits, QuietCalls, QuietGood
  <2>2. CASE ~(view = Blank /\ c.got.is = "failed")
    BY <1>1, <1>5, <2>2, Parts
  <2> QED BY <2>1, <2>2
<1> QED BY <1>1, <1>4, <1>6, Parts, AuthoringMoves

LEMMA AuthoringCallKeeps ==
  ASSUME TabInv, NEW c \in calls, AuthoringCall(c), UNCHANGED <<reviewVars, modVars>>
  PROVE  TabInv'
BY ServeProductKeeps, SavedKeeps, NotSavedKeeps, DetailKeeps DEF AuthoringCall

LEMMA AuthoringStepKeeps == TabInv /\ AuthoringStep /\ UNCHANGED <<reviewVars, modVars>> => TabInv'
<1> SUFFICES ASSUME TabInv, AuthoringStep, UNCHANGED <<reviewVars, modVars>> PROVE TabInv'
  OBVIOUS
<1>1. /\ UNCHANGED <<journey, live, staff, known, authorVars>> /\ view.page \in {"create", "amend"}
      /\ ~view.busy /\ view \in AuthoringViews
  <2>1. Editable /\ UNCHANGED authorVars /\ UNCHANGED <<journey, live, staff, known>>
    BY DEF AuthoringStep, RevealSlug, SubmitProduct, CancelProduct, TypeName, TypeSlug, authorTab, Goto
  <2> QED BY <2>1, Shapes, Parts DEF Editable, Authoring
<1>2. view.name \in Names \cup {NoName} /\ view.slug \in Names \cup {NoName} /\ view.touched \in BOOLEAN
  BY <1>1 DEF AuthoringViews
<1>3. ASSUME view' \in AuthoringViews, view'.page = view.page, view'.busy = view.busy,
             place' = place, calls' = calls
      PROVE  TabInv'
  <2>1. SameWaits(view, view')
    BY <1>1, <1>3 DEF SameWaits
  <2>2. Fits(view', place')
    BY <1>1, <1>3, ShapesAre, Parts DEF Fits
  <2> QED BY <1>1, <1>3, <2>1, <2>2, SameGood, Parts, ScreenAlone
<1>4. CASE RevealSlug
  <2>1. PICK s \in Names \cup {NoName} : view' = [view EXCEPT !.open = TRUE, !.slug = s]
    <3>1. view' = [view EXCEPT !.open = TRUE, !.slug = IF view.touched THEN @ ELSE view.name]
      BY <1>4 DEF RevealSlug
    <3> DEFINE s == IF view.touched THEN view.slug ELSE view.name
    <3>2. s \in Names \cup {NoName} /\ view' = [view EXCEPT !.open = TRUE, !.slug = s]
      BY <1>2, <3>1
    <3> QED BY <3>2
  <2>2. view' \in AuthoringViews /\ view'.page = view.page /\ view'.busy = view.busy
    BY <1>1, <2>1 DEF AuthoringViews
  <2> QED BY <1>3, <1>4, <2>2 DEF RevealSlug
<1>5. ASSUME NEW n \in Names \cup {NoName}, TypeName(n) \/ TypeSlug(n) PROVE TabInv'
  <2>1. view' \in AuthoringViews /\ view'.page = view.page /\ view'.busy = view.busy
    BY <1>1, <1>5 DEF TypeName, TypeSlug, AuthoringViews
  <2> QED BY <1>3, <1>5, <2>1 DEF TypeName, TypeSlug
<1>6. CASE CancelProduct
  <2>1. PICK loc \in Locations : Goto(loc)
    BY <1>6, OnePage DEF CancelProduct, Pages
  <2> QED BY <1>1, <2>1, GotoKeeps
<1>7. CASE SubmitProduct /\ Invalid
  <2>1. view' = [view EXCEPT !.error = "invalid"] /\ calls' = calls /\ place' = place
    BY <1>7 DEF SubmitProduct
  <2>2. view' \in AuthoringViews /\ view'.page = view.page /\ view'.busy = view.busy
    BY <1>1, <2>1 DEF AuthoringViews
  <2> QED BY <1>3, <2>1, <2>2
<1>8. CASE SubmitProduct /\ ~Invalid
  <2> DEFINE d == ProductCall
  <2>1. /\ view' = [view EXCEPT !.busy = TRUE, !.error = "none"] /\ calls' = calls \cup {d}
        /\ place' = place /\ calls = Reading
    BY <1>8 DEF SubmitProduct, MaySend
  <2>2. /\ d = [op |-> d.op, of |-> d.of, got |-> d.got, here |-> d.here]
        /\ d.op \in {"create", "amend"} /\ d.of.name = view.name /\ d.got.is = "sent" /\ d.here = TRUE
        /\ d.op = "create" => d.of.slug = SlugSent /\ d.of.typed = view.touched
    BY DEF ProductCall, Call
  <2> HIDE DEF d
  <2>3. view.name \in Names /\ SlugSent \in Names \cup {Derive} /\ (~view.touched => SlugSent = Derive)
    BY <1>2, <1>8 DEF Invalid, SlugSent
  <2>4. d.op = "create" => d.of.typed \in BOOLEAN /\ (~d.of.typed => d.of.slug = Derive)
                           /\ d.of.slug \in Names \cup {Derive}
    BY <1>2, <2>2, <2>3
  <2>5. view' \in AuthoringViews /\ view'.page = view.page
    BY <1>1, <2>1 DEF AuthoringViews
  <2>6. view'.busy
    BY <1>1, <2>1 DEF AuthoringViews
  <2>7. Typed(d) /\ Mutation(d) /\ Waits(view', d)
    BY <1>1, <2>2, <2>3, <2>4, <2>5, <2>6 DEF Typed, Replies, Mutation, Reads, Waits
  <2>8. \A c \in calls : ~Mutation(c)
    BY <2>1 DEF Reading, Mutation
  <2>9. Good(calls', view')
    <3>1. d.op # "act" /\ d.here /\ (view'.page = "product" => ~(view'.busy /\ view'.dialog = "busy"))
      BY <1>1, <2>2, <2>5
    <3> QED BY <2>1, <2>5, <2>7, <2>8, <3>1, StartGood, Parts
  <2>10. Fits(view', place')
    BY <1>1, <2>1, <2>5, ShapesAre, Parts DEF Fits
  <2> QED BY <1>1, <2>1, <2>9, <2>10, Parts, ScreenAlone
<1> QED BY <1>4, <1>5, <1>6, <1>7, <1>8 DEF AuthoringStep

-----------------------------------------------------------------------------
(* All of them. *)

LEMMA CallStepKeeps == ASSUME TabInv, NEW c \in calls, CallStep(c) PROVE TabInv'
BY RepliesKeep, BounceKeeps, AnswerLinkKeeps, ReviewCallKeeps, ModerationCallKeeps,
   CatalogueCallKeeps, AuthoringCallKeeps DEF CallStep

LEMMA UserStepKeeps == TabInv /\ UserStep => TabInv'
BY SignInMoves, ReviewStepKeeps, ModerationStepKeeps, CatalogueStepKeeps, AuthoringStepKeeps
   DEF UserStep

LEMMA TabStepKeeps == TabInv /\ [Next]_vars => TabInv'
<1> SUFFICES ASSUME TabInv, [Next]_vars PROVE TabInv'
  OBVIOUS
<1>1. CASE Next
  BY <1>1, LoadKeeps, EnterKeeps, FailureKeeps, FetchKeeps, UserStepKeeps, SessionKeeps, CallStepKeeps
     DEF Next
<1>2. CASE UNCHANGED vars
  BY <1>2, Parts, TabAlone DEF vars, tabVars
<1> QED BY <1>1, <1>2

LEMMA TabInductive == Spec => []TabInv
BY TabInitHolds, TabStepKeeps, PTL DEF Spec

\* The tab's types for any instance: in particular the screen on display is always that
\* of the location's page, through every redirect, bounce and late navigation (router.tsx).
THEOREM TabTypesHold == Spec => []TypeOK
<1>1. TabInv => TypeOK
  <2> SUFFICES ASSUME TabInv PROVE TypeOK
    OBVIOUS
  <2>1. \A c \in calls : DOMAIN c = {"op", "of", "got", "here"} /\ c.here \in BOOLEAN
    <3> SUFFICES ASSUME NEW c \in calls PROVE DOMAIN c = {"op", "of", "got", "here"} /\ c.here \in BOOLEAN
      OBVIOUS
    <3>1. c = [op |-> c.op, of |-> c.of, got |-> c.got, here |-> c.here] /\ c.here \in BOOLEAN
      BY Parts DEF Good, Typed
    <3> QED BY <3>1
  <2>2. journey \in Journeys /\ place \in Locations /\ view \in Screens
    BY Parts DEF TabTypes
  <2>3. {live, staff, known, late, foreign, overtaken, owed} \subseteq BOOLEAN
    BY Parts DEF TabTypes, ReviewTypes
  <2>4. /\ {draft, typed, mine} \subseteq Texts \cup {NoText}
        /\ reviews \in [loaded : BOOLEAN, failed : BOOLEAN, own : Texts \cup {NoText},
                        signed : BOOLEAN, deep : BOOLEAN]
    BY Parts DEF ReviewTypes
  <2>5. /\ OnProduct => Page \in ProductPages
        /\ view.page \in Pages \ {"product"} => view.page = Page
    BY Parts DEF Fits, OnProduct
  <2> QED BY <2>1, <2>2, <2>3, <2>4, <2>5, Parts DEF TypeOK, ModerationTypes, AuthoringTypes
<1> QED BY <1>1, TabInductive, PTL

\* SpinnersHaveCalls for any instance: whatever was left, failed, expired or loaded anew,
\* what shows as busy waits for a call of its own (sign-in-screen.tsx:36-43).
THEOREM NothingSpinsForNothing == Spec => []SpinnersHaveCalls
<1>1. TabInv => SpinnersHaveCalls
  BY Parts DEF Good, SpinnersHaveCalls, OwnCall, OnProduct, Authoring, Moderating
<1> QED BY <1>1, TabInductive, PTL

-----------------------------------------------------------------------------
(* A step of one screen leaves the calls of another alone. *)

\* Two calls that ask the same and have the same news, or none.
Alike(c, d) ==
  /\ d.op = c.op /\ d.of = c.of
  /\ d.got = c.got \/ (d.got.is # "ok" /\ c.got.is # "ok")

\* Of the operations in K, S and T hold the same calls.
SameCalls(K, S, T) ==
  /\ \A d \in T : d.op \in K => \E c \in S : Alike(c, d)
  /\ \A c \in S : c.op \in K => \E d \in T : Alike(c, d)

ReviewOps == {"reviews", "submit", "update", "remove"}
ModerationOps == {"moderation", "act"}
CatalogueOps == {"products"}

\* The screen on display, its location and its calls stay.
Aside(K) == UNCHANGED <<place, view>> /\ SameCalls(K, calls, calls')

LEMMA AnsweredSame ==
  ASSUME NEW K, NEW S, NEW c \in S, Typed(c), NEW g,
         c.op \notin K \/ (c.got.is # "ok" /\ g.is # "ok")
  PROVE  SameCalls(K, S, (S \ {c}) \cup {[c EXCEPT !.got = g]})
<1> DEFINE d == [c EXCEPT !.got = g]
<1>1. d.op = c.op /\ d.of = c.of /\ d.got = g
  BY GotIs
<1> HIDE DEF d
<1>2. c.op \in K => Alike(c, d) 
  BY <1>1 DEF Alike
<1>3. \A e : Alike(e, e)
  BY DEF Alike
<1>4. SameCalls(K, S, (S \ {c}) \cup {d})
  BY <1>1, <1>2, <1>3 DEF SameCalls
<1> QED BY <1>4 DEF d

\* Calls of other operations come and go.
LEMMA OthersSame ==
  ASSUME NEW K, NEW S, NEW T,
         \A c \in S \ T : c.op \notin K, \A c \in T \ S : c.op \notin K
  PROVE  SameCalls(K, S, T)
<1>1. \A e : Alike(e, e)
  BY DEF Alike
<1> QED BY <1>1 DEF SameCalls

LEMMA TabCallAside ==
  ASSUME TabInv, NEW c \in calls,
         Refuse(c) \/ Fail(c) \/ Bounce(c) \/ ServeLink(c) \/ AnswerLink(c),
         view'.page \in {"product", "moderation", "home"}, NEW K, "link" \notin K
  PROVE  Aside(K)
<1>1. Typed(c) /\ (c.here /\ Mutation(c) => Waits(view, c))
  BY Parts DEF Good
<1>2. CASE Refuse(c) \/ Fail(c)
  <2>1. PICK g : g.is # "ok" /\ calls' = (calls \ {c}) \cup {[c EXCEPT !.got = g]}
    <3>1. [is |-> "unauthorized"].is # "ok" /\ [is |-> "failed"].is # "ok"
      OBVIOUS
    <3> QED BY <1>2, <3>1 DEF Refuse, Fail, Answered
  <2>2. c.got.is # "ok" /\ UNCHANGED <<place, view>>
    BY <1>2 DEF Refuse, Fail, Sent
  <2> QED BY <1>1, <2>1, <2>2, AnsweredSame DEF Aside
<1>3. CASE ServeLink(c)
  BY <1>1, <1>3, AnsweredSame DEF Aside, ServeLink, Answered
<1>4. CASE AnswerLink(c)
  <2>1. calls' = calls \ {c} /\ c.op \notin K
    BY <1>4 DEF AnswerLink
  <2>2. ~c.here
    <3>1. ASSUME c.here PROVE FALSE
      <4>1. view.page = "signIn" /\ view \in SignInViews
        BY <1>1, <1>4, <3>1, Shapes, Parts DEF Waits, AnswerLink, Mutation, Reads
      <4>2. view'.page = "signIn"
        BY <1>4, <4>1 DEF AnswerLink, SignInViews
      <4> QED BY <4>2
    <3> QED BY <3>1
  <2>3. SameCalls(K, calls, calls')
    BY <2>1, OthersSame
  <2> QED BY <1>4, <2>2, <2>3 DEF Aside, AnswerLink
<1>5. CASE Bounce(c)
  BY <1>5 DEF Bounce, Blank
<1> QED BY <1>2, <1>3, <1>4, <1>5

LEMMA ReviewCallAside ==
  ASSUME TabInv, NEW c \in calls, ReviewCall(c),
         view'.page \in {"moderation", "home"}, NEW K, K \cap ReviewOps = {}
  PROVE  Aside(K)
<1>1. Typed(c) /\ (c.here /\ Mutation(c) => Waits(view, c)) /\ Watched(view, c)
  BY Parts DEF Good
<1>2. view.page = "product" => view \in ProductViews
  BY Shapes, Parts
<1>3. CASE ServeReview(c) \/ ServeReviews(c)
  <2>1. c.op \in ReviewOps /\ UNCHANGED <<place, view>>
    BY <1>3 DEF ServeReview, ServeReviews, ReviewOps
  <2>2. PICK g : calls' = Answered(c, g)
    <3>1. ServeReview(c) => \E x \in {"ok", "failed", "conflict"} : calls' = Answered(c, [is |-> x])
      BY DEF ServeReview, Written
    <3> QED BY <1>3, <3>1 DEF ServeReviews
  <2> QED BY <1>1, <2>1, <2>2, AnsweredSame DEF Aside, Answered
<1>4. CASE AnswerReviews(c)
  <2>1. view.page = "product"
    BY <1>1, <1>4 DEF AnswerReviews, Watched
  <2>2. view'.page = "product"
    BY <1>2, <1>4, <2>1 DEF AnswerReviews, ProductViews
  <2> QED BY <2>2
<1>5. CASE AnswerWritten(c)
  <2>1. c.op \in ReviewOps /\ AfterWrite(c)
    BY <1>5 DEF AnswerWritten, ReviewOps
  <2>2. place' = place /\ view' = view /\ calls' = calls \ {c}
    BY <2>1 DEF AfterWrite, OnProduct, Closed, Blank
  <2>3. SameCalls(K, calls, calls \ {c})
    BY <2>1, OthersSame
  <2> QED BY <2>2, <2>3 DEF Aside
<1>6. CASE AnswerNotWritten(c) \/ AnswerRemoved(c)
  <2>1. c.op \in ReviewOps /\ Mutation(c) /\ UNCHANGED place
    BY <1>6 DEF AnswerNotWritten, AnswerRemoved, ReviewOps, Mutation, Reads
  <2>2. view.page = "product" => view'.page = "product"
    BY <1>2, <1>6 DEF AnswerNotWritten, AnswerRemoved, ProductViews
  <2>3. view.page # "product" /\ ~c.here
    BY <1>1, <1>6, <2>1, <2>2 DEF Waits, AnswerNotWritten, AnswerRemoved
  <2>4. view' = view /\ calls' = calls \ {c}
    BY <1>6, <2>3 DEF AnswerNotWritten, AnswerRemoved, OnProduct
  <2>5. SameCalls(K, calls, calls \ {c})
    BY <2>1, OthersSame
  <2> QED BY <2>1, <2>4, <2>5 DEF Aside
<1> QED BY <1>3, <1>4, <1>5, <1>6 DEF ReviewCall

LEMMA ModerationCallAside ==
  ASSUME TabInv, NEW c \in calls, ModerationCall(c),
         view'.page \in {"product", "home"}, NEW K, K \cap ModerationOps = {}
  PROVE  Aside(K)
<1>1. Typed(c) /\ (c.here /\ Mutation(c) => Waits(view, c))
  BY Parts DEF Good
<1>2. c.op \in ModerationOps /\ UNCHANGED place
  BY DEF ModerationCall, ServeAct, ServeList, AnswerAct, AnswerList, ModerationOps, modTab
<1>3. CASE ServeAct(c) \/ ServeList(c)
  <2>1. UNCHANGED view
    BY <1>3 DEF ServeAct, ServeList
  <2>2. PICK g : calls' = Answered(c, g)
    BY <1>3 DEF ServeAct, ServeList
  <2> QED BY <1>1, <1>2, <2>1, <2>2, AnsweredSame DEF Aside, Answered
<1>4. CASE AnswerAct(c) \/ AnswerList(c)
  <2>1. view.page = "moderation" => view'.page = "moderation"
    <3>1. view.page = "moderation" => view \in ModerationViews
      BY Shapes, Parts
    <3> QED BY <1>4, <3>1 DEF AnswerAct, AnswerList, ModerationViews
  <2>2. view.page # "moderation" /\ view' = view /\ calls' = calls \ {c}
    <3>1. view.page # "moderation"
      BY <2>1
    <3>2. c.op = "act" => ~c.here
      BY <1>1, <3>1 DEF Mutation, Reads, Waits
    <3> QED BY <1>4, <3>1, <3>2 DEF AnswerAct, AnswerList, Moderating
  <2>3. SameCalls(K, calls, calls \ {c})
    BY <1>2, OthersSame
  <2> QED BY <1>2, <2>2, <2>3 DEF Aside
<1> QED BY <1>3, <1>4 DEF ModerationCall

LEMMA CatalogueCallAside ==
  ASSUME TabInv, NEW c \in calls, CatalogueCall(c)
  PROVE  view'.page = "home"
<1>1. c.op = "products" /\ Watched(view, c)
  BY Parts DEF CatalogueCall, ServeProducts, AnswerProducts, Good
<1>2. view \in CatalogueViews
  BY <1>1, Shapes, Parts DEF Watched
<1> QED BY <1>1, <1>2 DEF CatalogueCall, ServeProducts, AnswerProducts, Watched, CatalogueViews

LEMMA AuthoringCallAside ==
  ASSUME TabInv, NEW c \in calls, AuthoringCall(c),
         view'.page \in {"product", "moderation", "home"},
         NEW K, K \cap {"create", "amend", "detail"} = {}
  PROVE  Aside(K)
<1>1. Typed(c) /\ (c.here /\ Mutation(c) => Waits(view, c))
  BY Parts DEF Good
<1>2. c.op \in {"create", "amend", "detail"}
  BY DEF AuthoringCall, ServeCreate, ServeAmend, ServeDetail, AnswerSaved, AnswerNotSaved, AnswerDetail
<1>3. SameCalls(K, calls, calls \ {c})
  BY <1>2, OthersSame
<1>4. CASE ServeCreate(c) \/ ServeAmend(c) \/ ServeDetail(c)
  <2>1. /\ UNCHANGED <<place, view>>
        /\ \E g : calls' = (calls \ {c}) \cup {[c EXCEPT !.got = g]}
    BY <1>4 DEF ServeCreate, ServeAmend, ServeDetail, Answered
  <2> QED BY <1>1, <1>2, <2>1, AnsweredSame DEF Aside
<1>5. CASE AnswerSaved(c)
  <2>1. view' # Blank
    BY DEF Blank
  <2> QED BY <1>3, <1>5, <2>1 DEF Aside, AnswerSaved
<1>6. CASE AnswerNotSaved(c)
  <2>1. view.page \in {"create", "amend"} => view'.page = view.page
    <3>1. view.page \in {"create", "amend"} => view \in AuthoringViews
      BY Shapes, Parts
    <3> QED BY <1>6, <3>1 DEF AnswerNotSaved, AuthoringViews
  <2>2. ~c.here
    BY <1>1, <1>6, <2>1 DEF AnswerNotSaved, Mutation, Reads, Waits
  <2> QED BY <1>3, <1>6, <2>2 DEF Aside, AnswerNotSaved
<1>7. CASE AnswerDetail(c)
  <2>1. view' # Broken
    BY DEF Broken
  <2> QED BY <1>3, <1>7, <2>1 DEF Aside, AnswerDetail
<1> QED BY <1>4, <1>5, <1>6, <1>7 DEF AuthoringCall

\* The screen each of the user's steps leaves on display.
LEMMA StepPages ==
  ASSUME TabInv
  PROVE  /\ \A p \in Pages : Visit(p) => view'.page = "blank"
         /\ EditEmail \/ RequestLink => view'.page = "signIn"
         /\ ModerationStep => view'.page = "moderation"
         /\ CatalogueStep => view'.page = "home"
         /\ AuthoringStep => view'.page \in {"create", "amend", "blank"}
         /\ ReviewStep => WriteElsewhere \/ view'.page \in {"product", "blank"}
<1>1. \A p \in Pages : Visit(p) => view'.page = "blank"
  BY DEF Visit, Goto, Blank
<1>2. EditEmail \/ RequestLink => view'.page = "signIn"
  <2>1. view.page = "signIn" => view \in SignInViews
    BY Shapes, Parts
  <2> QED BY <2>1 DEF EditEmail, RequestLink, SignInViews
<1>3. ModerationStep => view'.page = "moderation"
  <2>1. view.page = "moderation" => view \in ModerationViews
    BY Shapes, Parts
  <2>2. SwitchFilter => view'.page = "moderation"
    BY <2>1 DEF SwitchFilter, Moderating, ModerationViews
  <2>3. RefreshList => view'.page = "moderation"
    BY <2>1 DEF RefreshList, Moderating
  <2>4. \A r \in Reviews : Act(r) => view'.page = "moderation"
    BY <2>1 DEF Act, Moderating, ModerationViews
  <2> QED BY <2>2, <2>3, <2>4 DEF ModerationStep
<1>4. CatalogueStep => view'.page = "home"
  <2>1. view.page = "home" => view \in CatalogueViews
    BY Shapes, Parts
  <2>2. \A box \in Drafts : TypeSearch(box) => view'.page = "home"
    BY <2>1 DEF TypeSearch, Searching, Browsing, CatalogueViews
  <2>3. Debounce => view'.page = "home"
    BY <2>1 DEF Debounce, Browsing, CatalogueViews
  <2>6. ClearFilters => view'.page = "home"
    BY <2>1 DEF ClearFilters, Searching, Browsing, CatalogueViews
  <2>7. RefreshProducts => view'.page = "home"
    BY DEF RefreshProducts, Searching, Browsing
  <2>4. \A f : view.page = "home" /\ Committed(f) => view'.page = "home"
    BY <2>1 DEF Committed, CatalogueViews
  <2>5. Arrive \/ BackOrForward => view'.page = "home"
    BY <2>1, <2>4 DEF Arrive, BackOrForward, Searching, Browsing, CatalogueViews
  <2> QED BY <2>2, <2>3, <2>5, <2>6, <2>7 DEF CatalogueStep
<1>5. AuthoringStep => view'.page \in {"create", "amend", "blank"}
  <2>1. view.page \in {"create", "amend"} => view \in AuthoringViews
    BY Shapes, Parts
  <2>2. \A n : TypeName(n) \/ TypeSlug(n) => view'.page \in {"create", "amend"}
    BY <2>1 DEF TypeName, TypeSlug, Editable, Authoring, AuthoringViews
  <2>3. RevealSlug => view'.page \in {"create", "amend"}
    BY <2>1 DEF RevealSlug, Editable, Authoring, AuthoringViews
  <2>4. SubmitProduct => view'.page \in {"create", "amend"}
    BY <2>1 DEF SubmitProduct, Editable, Authoring, AuthoringViews
  <2>5. CancelProduct => view'.page = "blank"
    BY DEF CancelProduct, Goto, Blank
  <2> QED BY <2>2, <2>3, <2>4, <2>5 DEF AuthoringStep
<1>6. ReviewStep => WriteElsewhere \/ view'.page \in {"product", "blank"}
  <2>1. view.page = "product" => view \in ProductViews
    BY Shapes, Parts
  <2>2. \A t : Open(t).page = "product"
    BY DEF Open, Closed
  <2>3. Closed.page = "product" /\ Blank.page = "blank"
    BY DEF Closed, Blank
  <2>4. CancelForm \/ BackToPage \/ PromptSignIn \/ ViewYours \/ (\E p \in {"new", "edit"} : OpenForm(p))
          => view'.page \in {"product", "blank"}
    BY <2>2, <2>3 DEF OpenForm, CancelForm, BackToPage, PromptSignIn, ViewYours, Goto
  <2>5. ASSUME (\E t \in Texts \cup {NoText} : Type(t)) \/ SubmitForm \/ LoadMore \/ RefreshReviews
                 \/ ToggleDialog \/ ConfirmDelete \/ (\E p \in {"new", "edit"} : SwitchForm(p))
        PROVE  view'.page = "product"
    BY <2>1, <2>5 DEF Type, SwitchForm, SubmitForm, LoadMore, RefreshReviews, ToggleDialog, ConfirmDelete,
                      OnProduct, ProductViews
  <2> QED BY <2>4, <2>5 DEF ReviewStep
<1> QED BY <1>1, <1>2, <1>3, <1>4, <1>5, <1>6

\* The screen each mount displays, and what else enters a location.
LEMMA MountPages ==
  /\ MountSignIn => view'.page = "signIn"
  /\ MountCatalogue => view'.page = "home"
  /\ MountProduct => view'.page = "product"
  /\ MountModeration => view'.page = "moderation"
  /\ MountCreate => view'.page = "create"
  /\ MountAmend => view'.page = "amend"
  /\ TurnAway \/ EntryFails \/ LoadPage => view'.page \in {"blank", "error"}
<1>1. \A t : Open(t).page = "product" /\ Closed.page = "product"
  BY DEF Open, Closed
<1>2. MountProduct => view'.page = "product"
  BY <1>1 DEF MountProduct, Mount
<1>3. MountSignIn => view'.page = "signIn"
  BY DEF MountSignIn, Mount
<1>4. MountCatalogue => view'.page = "home"
  BY DEF MountCatalogue, Mount
<1>5. MountModeration => view'.page = "moderation"
  BY DEF MountModeration, Mount
<1>6. MountCreate => view'.page = "create"
  BY DEF MountCreate, Mount
<1>7. MountAmend => view'.page = "amend"
  BY DEF MountAmend, Mount
<1>8. TurnAway \/ EntryFails => view'.page \in {"blank", "error"}
  BY DEF TurnAway, EntryFails, GuardFails, ProductFails, Blank, Broken
<1>9. LoadPage => view'.page = "blank"
  <2>1. ASSUME NEW loc, Load(loc) PROVE view'.page = "blank"
    BY <2>1 DEF Load, Blank
  <2> QED BY <2>1 DEF LoadPage, Reload, FollowLink
<1> QED BY <1>2, <1>3, <1>4, <1>5, <1>6, <1>7, <1>8, <1>9

\* A loader's read of the product concerns no other screen.
LEMMA FetchAside ==
  ASSUME FetchProduct, NEW K, "detail" \notin K
  PROVE  Aside(K)
<1>1. calls' = calls \cup {Call("detail", [slug |-> "product"])} /\ UNCHANGED <<place, view>>
  BY DEF FetchProduct, ReadDetail
<1>2. Call("detail", [slug |-> "product"]).op = "detail"
  BY DEF Call
<1>3. SameCalls(K, calls, calls')
  BY <1>1, <1>2, OthersSame
<1> QED BY <1>1, <1>3 DEF Aside

LEMMA NothingAside ==
  ASSUME UNCHANGED <<place, view, calls>>, NEW K
  PROVE  Aside(K)
<1>1. SameCalls(K, calls, calls')
  BY OthersSame
<1> QED BY <1>1 DEF Aside

\* The steps that leave a product page on display.
LEMMA ProductSteps ==
  ASSUME TabInv, Next, view'.page = "product"
  PROVE  \/ MountProduct \/ ReviewStep \/ (\E c \in calls : ReviewCall(c))
         \/ Aside(ReviewOps) /\ UNCHANGED reviewVars
<1> DEFINE K == ReviewOps
<1>1. /\ "link" \notin K /\ "detail" \notin K /\ K \cap ModerationOps = {}
      /\ K \cap {"create", "amend", "detail"} = {}
  BY DEF ReviewOps, ModerationOps
<1> HIDE DEF K
<1>2. CASE LoadPage \/ EntryFails
  BY <1>2, MountPages
<1>3. CASE Enter
  BY <1>3, MountPages DEF Enter
<1>4. CASE FetchProduct
  BY <1>1, <1>4, FetchAside DEF FetchProduct, K
<1>5. CASE SessionStep
  BY <1>5, NothingAside DEF SessionStep, Expire, RefreshSession, CollectSession, K
<1>6. CASE UserStep
  BY <1>6, StepPages DEF UserStep
<1>7. ASSUME NEW c \in calls, CallStep(c)
      PROVE  ReviewCall(c) \/ (Aside(K) /\ UNCHANGED reviewVars)
  BY <1>1, <1>7, TabCallAside, ModerationCallAside, CatalogueCallAside, AuthoringCallAside DEF CallStep
<1> QED BY <1>2, <1>3, <1>4, <1>5, <1>6, <1>7 DEF Next, K

LEMMA ModerationSteps ==
  ASSUME TabInv, Next, view'.page = "moderation"
  PROVE  \/ MountModeration \/ ModerationStep \/ (\E c \in calls : ModerationCall(c))
         \/ Aside(ModerationOps) /\ UNCHANGED modVars
<1> DEFINE K == ModerationOps
<1>1. /\ "link" \notin K /\ "detail" \notin K /\ K \cap ReviewOps = {}
      /\ K \cap {"create", "amend", "detail"} = {}
  BY DEF ReviewOps, ModerationOps
<1> HIDE DEF K
<1>2. CASE LoadPage \/ EntryFails
  BY <1>2, MountPages
<1>3. CASE Enter
  BY <1>3, MountPages DEF Enter
<1>4. CASE FetchProduct
  BY <1>1, <1>4, FetchAside DEF FetchProduct, K
<1>5. CASE SessionStep
  BY <1>5, NothingAside DEF SessionStep, Expire, RefreshSession, CollectSession, K
<1>6. CASE UserStep
  <2>1. WriteElsewhere => Aside(K)
    BY NothingAside DEF WriteElsewhere
  <2> QED BY <1>6, <2>1, StepPages DEF UserStep, K
<1>7. ASSUME NEW c \in calls, CallStep(c)
      PROVE  ModerationCall(c) \/ (Aside(K) /\ UNCHANGED modVars)
  BY <1>1, <1>7, TabCallAside, ReviewCallAside, CatalogueCallAside, AuthoringCallAside DEF CallStep
<1> QED BY <1>2, <1>3, <1>4, <1>5, <1>6, <1>7 DEF Next, K

LEMMA CatalogueSteps ==
  ASSUME TabInv, Next, view'.page = "home"
  PROVE  \/ MountCatalogue \/ CatalogueStep \/ (\E c \in calls : CatalogueCall(c))
         \/ Aside(CatalogueOps)
<1> DEFINE K == CatalogueOps
<1>1. /\ "link" \notin K /\ "detail" \notin K /\ K \cap ReviewOps = {} /\ K \cap ModerationOps = {}
      /\ K \cap {"create", "amend", "detail"} = {}
  BY DEF ReviewOps, ModerationOps, CatalogueOps
<1> HIDE DEF K
<1>2. CASE LoadPage \/ EntryFails
  BY <1>2, MountPages
<1>3. CASE Enter
  BY <1>3, MountPages DEF Enter
<1>4. CASE FetchProduct
  BY <1>1, <1>4, FetchAside DEF FetchProduct, K
<1>5. CASE SessionStep
  BY <1>5, NothingAside DEF SessionStep, Expire, RefreshSession, CollectSession, K
<1>6. CASE UserStep
  <2>1. WriteElsewhere => Aside(K)
    BY NothingAside DEF WriteElsewhere
  <2> QED BY <1>6, <2>1, StepPages DEF UserStep, K
<1>7. ASSUME NEW c \in calls, CallStep(c)
      PROVE  CatalogueCall(c) \/ Aside(K)
  BY <1>1, <1>7, TabCallAside, ReviewCallAside, ModerationCallAside, AuthoringCallAside DEF CallStep
<1> QED BY <1>2, <1>3, <1>4, <1>5, <1>6, <1>7 DEF Next, K

\* The pages a user may move between are a behaviour's.
LEMMA JourneyStays == [Next]_vars => journey' = journey
<1>1. LoadPage \/ Enter \/ EntryFails \/ FetchProduct => journey' = journey
  BY DEF LoadPage, Reload, FollowLink, Enter, TurnAway, MountSignIn, MountCatalogue, MountProduct,
         MountModeration, MountCreate, MountAmend, Mount, EntryFails, GuardFails, ProductFails,
         FetchProduct, ReadDetail, tabIdentity, authorTab
<1>2. SessionStep => journey' = journey
  BY DEF SessionStep, Expire, RefreshSession, CollectSession
<1>3. ReviewStep => journey' = journey
  BY DEF ReviewStep, OpenForm, SwitchForm, Type, CancelForm, BackToPage, PromptSignIn, SubmitForm, ViewYours,
         LoadMore, RefreshReviews, ToggleDialog, ConfirmDelete, WriteElsewhere, Goto, tabIdentity
<1>4. ModerationStep \/ CatalogueStep \/ AuthoringStep => journey' = journey
  BY DEF ModerationStep, SwitchFilter, RefreshList, Act, modTab,
         CatalogueStep, TypeSearch, Debounce, ClearFilters, Arrive, BackOrForward, RefreshProducts,
         Committed, catalogueTab, AuthoringStep, RevealSlug, SubmitProduct, CancelProduct, TypeName,
         TypeSlug, authorTab, Goto
<1>5. UserStep => journey' = journey
  BY <1>3, <1>4 DEF UserStep, Visit, Goto, EditEmail, RequestLink
<1>6. \A c \in calls : ReviewCall(c) \/ ModerationCall(c) => journey' = journey
  BY DEF ReviewCall, ServeReview, ServeReviews, AnswerWritten, AnswerNotWritten, AnswerReviews,
         AnswerRemoved, tabIdentity, ModerationCall, ServeAct, ServeList, AnswerAct, AnswerList, modTab
<1>7. \A c \in calls : CatalogueCall(c) \/ AuthoringCall(c) => journey' = journey
  BY DEF CatalogueCall, ServeProducts, AnswerProducts, catalogueTab, AuthoringCall, ServeCreate,
         ServeAmend, ServeDetail, AnswerSaved, AnswerNotSaved, AnswerDetail, authorTab
<1>8. \A c \in calls : CallStep(c) => journey' = journey
  BY <1>6, <1>7 DEF CallStep, Refuse, Fail, Bounce, ServeLink, AnswerLink
<1> QED BY <1>1, <1>2, <1>5, <1>8 DEF Next, vars, tabVars

-----------------------------------------------------------------------------
(* The slug of a new product. *)

LEMMA MintedBy == Next => minted' = minted \/ \E c \in calls : ServeCreate(c)
<1>1. LoadPage \/ Enter \/ EntryFails \/ FetchProduct \/ SessionStep => minted' = minted
  BY DEF LoadPage, Enter, EntryFails, FetchProduct, ReadDetail, SessionStep, MountCreate, MountAmend,
         authorVars
<1>2. UserStep => minted' = minted
  BY DEF UserStep, AuthoringStep, RevealSlug, SubmitProduct, CancelProduct, TypeName, TypeSlug, authorVars
<1>3. \A c \in calls : CallStep(c) => minted' = minted \/ ServeCreate(c)
  BY DEF CallStep, AuthoringCall, ServeAmend, ServeDetail, AnswerSaved, AnswerNotSaved, AnswerDetail,
         authorVars
<1> QED BY <1>1, <1>2, <1>3 DEF Next

\* SlugIsTheServers for any names: a slug that was not typed is not sent, so the server
\* derived it from the name the product was created with (product-form.tsx, slugTouched).
THEOREM SlugsAreTheServers == Spec => []SlugIsTheServers
<1>1. Init => SlugIsTheServers
  BY DEF Init, AuthoringInit, SlugIsTheServers
<1>2. TabInv /\ SlugIsTheServers /\ [Next]_vars => SlugIsTheServers'
  <2> SUFFICES ASSUME TabInv, SlugIsTheServers, [Next]_vars PROVE SlugIsTheServers'
    OBVIOUS
  <2>1. CASE minted' = minted
    BY <2>1 DEF SlugIsTheServers
  <2>2. ASSUME NEW c \in calls, ServeCreate(c), minted' # minted PROVE SlugIsTheServers'
    <3> DEFINE slug == IF c.of.slug = Derive THEN c.of.name ELSE c.of.slug
               p == [name |-> c.of.name, slug |-> slug, typed |-> c.of.typed]
    <3>1. c.op = "create" /\ minted' = {p}
      BY <2>2 DEF ServeCreate
    <3>2. ~c.of.typed => c.of.slug = Derive
      BY <3>1, Parts DEF Good, Typed
    <3>3. p.typed = c.of.typed /\ p.slug = slug /\ p.name = c.of.name
      OBVIOUS
    <3>4. p.typed \/ p.slug = p.name
      BY <3>2, <3>3
    <3> QED BY <3>1, <3>4 DEF SlugIsTheServers
  <2> QED BY <2>1, <2>2, MintedBy DEF vars, authorVars
<1> QED BY <1>1, <1>2, TabInductive, PTL DEF Spec

-----------------------------------------------------------------------------
(* A review being written. *)

\* The draft stays, and a form of a new review shows what it showed, or the draft.
LEMMA DraftStays ==
  ASSUME NothingTypedIsLost, UNCHANGED storage,
         OnProduct' /\ Page' = "new" =>
           (OnProduct /\ Page = "new" /\ view'.text = view.text) \/ view'.text = draft
  PROVE  NothingTypedIsLost'
BY DEF NothingTypedIsLost, storage

\* The draft changes in the review form's steps alone.
LEMMA DraftOf ==
  ASSUME Next
  PROVE  UNCHANGED storage \/ ReviewStep \/ \E c \in calls : AnswerWritten(c)
<1>1. MountProduct \/ LoadPage \/ EntryFails \/ FetchProduct \/ SessionStep => UNCHANGED storage
  BY DEF MountProduct, LoadPage, EntryFails, FetchProduct, SessionStep, reviewVars, storage
<1>2. Enter => UNCHANGED storage
  BY <1>1 DEF Enter, reviewVars, storage
<1>3. UserStep => UNCHANGED storage \/ ReviewStep
  BY DEF UserStep, reviewVars, storage
<1>4. \A c \in calls : CallStep(c) => UNCHANGED storage \/ AnswerWritten(c)
  BY DEF CallStep, ReviewCall, ServeReview, ServeReviews, AnswerNotWritten, AnswerReviews, AnswerRemoved,
         reviewVars, storage
<1> QED BY <1>1, <1>2, <1>3, <1>4 DEF Next

\* The texts of the forms a screen may open with.
LEMMA FormTexts ==
  /\ \A t : Open(t).text = t /\ Open(t).page = "product"
  /\ Closed.text = NoText /\ Closed.page = "product" /\ Blank.page = "blank"
BY DEF Open, Closed, Blank

LEMMA DraftKept ==
  ASSUME TabInv, NothingTypedIsLost, [Next]_vars
  PROVE  NothingTypedIsLost'
<1>1. view.page = "product" => view \in ProductViews
  BY Shapes, Parts
<1>2. Head(<<"product">>) = "product"
  OBVIOUS
<1>3. CASE UNCHANGED vars
  BY <1>3, DraftStays DEF vars, tabVars, reviewVars, storage, OnProduct, Page
<1>4. CASE Next /\ view'.page # "product" /\ UNCHANGED storage
  BY <1>4, DraftStays DEF OnProduct
<1>5. CASE Aside(ReviewOps) /\ UNCHANGED reviewVars
  BY <1>5, DraftStays DEF Aside, OnProduct, Page, reviewVars, storage
<1>6. CASE MountProduct
  <2>1. UNCHANGED <<storage, place>> /\ view = Blank
    BY <1>6 DEF MountProduct, Mount
  <2>2. Page = "new" => view'.text = draft
    BY <1>6, FormTexts DEF MountProduct, Mount, InitialText
  <2> QED BY <2>1, <2>2, DraftStays DEF Page
<1>7. ASSUME NEW p \in {"new", "edit"}, OpenForm(p) \/ SwitchForm(p) PROVE NothingTypedIsLost'
  <2>1. Page' = p
    BY <1>7 DEF OpenForm, SwitchForm, Page
  <2>2. CASE OpenForm(p)
    <3>1. UNCHANGED storage /\ view' = Open(InitialText(p))
      BY <2>2 DEF OpenForm, reviewVars, storage
    <3>2. p = "new" => view'.text = draft
      BY <3>1, FormTexts DEF InitialText
    <3> QED BY <2>1, <3>1, <3>2, DraftStays
  <2>3. CASE SwitchForm(p) /\ p = "edit"
    BY <2>1, <2>3, DraftStays DEF SwitchForm
  <2>4. CASE SwitchForm(p) /\ p = "new"
    <3>1. draft' = view.text /\ overtaken' = (view.text # typed) /\ typed' = typed /\ view' = view
      BY <2>4 DEF SwitchForm
    <3> QED BY <3>1 DEF NothingTypedIsLost
  <2> QED BY <1>7, <2>2, <2>3, <2>4
<1>8. ASSUME NEW t \in Texts \cup {NoText}, Type(t) PROVE NothingTypedIsLost'
  <2>1. OnProduct /\ place' = place /\ view' = [view EXCEPT !.text = t, !.error = "none"]
    BY <1>8 DEF Type
  <2>2. view'.text = t /\ view'.page = view.page
    BY <1>1, <2>1 DEF OnProduct, ProductViews
  <2>3. CASE Page = "new"
    BY <1>8, <2>2, <2>3 DEF Type, NothingTypedIsLost
  <2>4. CASE Page # "new"
    BY <1>8, <2>1, <2>4, DraftStays DEF Type, storage, Page
  <2> QED BY <2>3, <2>4
<1>9. CASE CancelForm
  <2>1. (draft' = NoText /\ typed' = NoText) \/ UNCHANGED storage
    BY <1>9 DEF CancelForm
  <2>2. Page' # "new"
    BY <1>2, <1>9 DEF CancelForm, Page
  <2> QED BY <2>1, <2>2, DraftStays DEF NothingTypedIsLost
<1>10. CASE BackToPage \/ ViewYours
  <2>1. UNCHANGED storage /\ Page' # "new"
    BY <1>2, <1>10 DEF BackToPage, ViewYours, reviewVars, storage, Page
  <2> QED BY <2>1, DraftStays
<1>11. CASE PromptSignIn
  BY <1>11, DraftStays DEF PromptSignIn, Goto, Blank, OnProduct, reviewVars, storage
<1>12. CASE SubmitForm \/ LoadMore \/ RefreshReviews \/ ToggleDialog \/ ConfirmDelete
  <2>1. UNCHANGED <<storage, place>> /\ OnProduct
    BY <1>12 DEF SubmitForm, LoadMore, RefreshReviews, ToggleDialog, ConfirmDelete, reviewVars, storage
  <2>2. view'.text = view.text
    BY <1>1, <1>12, <2>1 DEF SubmitForm, LoadMore, RefreshReviews, ToggleDialog, ConfirmDelete,
                             OnProduct, ProductViews
  <2> QED BY <2>1, <2>2, DraftStays DEF Page
<1>13. CASE WriteElsewhere
  BY <1>13, DraftStays DEF WriteElsewhere, storage, OnProduct, Page
<1>14. ASSUME NEW c \in calls, AnswerWritten(c) PROVE NothingTypedIsLost'
  <2>1. (draft' = NoText /\ overtaken' = (typed' # NoText)) \/ UNCHANGED storage
    BY <1>14 DEF AnswerWritten
  <2>2. (place' = <<"product">>) \/ UNCHANGED <<place, view>>
    BY <1>14 DEF AnswerWritten, AfterWrite
  <2>3. Page' # "new" \/ UNCHANGED <<place, view>>
    BY <1>2, <2>2 DEF Page
  <2>4. CASE UNCHANGED storage
    BY <2>3, <2>4, DraftStays DEF OnProduct, Page
  <2> QED BY <2>1, <2>4 DEF NothingTypedIsLost
<1>15. ASSUME NEW c \in calls, ReviewCall(c), ~AnswerWritten(c), view'.page = "product"
       PROVE  NothingTypedIsLost'
  <2>1. UNCHANGED <<storage, place>>
    BY <1>15 DEF ReviewCall, ServeReview, ServeReviews, AnswerNotWritten, AnswerReviews, AnswerRemoved,
                 reviewVars, storage
  <2>2. view = view' \/ view.page = "product"
    <3>1. Watched(view, c) /\ (c.here /\ Mutation(c) => Waits(view, c))
      BY Parts DEF Good
    <3> QED BY <1>15, <3>1 DEF ReviewCall, ServeReview, ServeReviews, AnswerNotWritten, AnswerReviews,
                 AnswerRemoved, Watched, Waits, Mutation, Reads
  <2>3. view.page = "product" => view'.text = view.text
    BY <1>1, <1>15 DEF ReviewCall, ServeReview, ServeReviews, AnswerNotWritten, AnswerReviews,
                 AnswerRemoved, ProductViews
  <2> QED BY <1>15, <2>1, <2>2, <2>3, DraftStays DEF OnProduct, Page
<1>16. CASE ReviewStep
  BY <1>7, <1>8, <1>9, <1>10, <1>11, <1>12, <1>13, <1>16 DEF ReviewStep
<1>17. CASE Next /\ view'.page = "product"
  BY <1>5, <1>6, <1>14, <1>15, <1>16, <1>17, ProductSteps
<1>18. CASE Next /\ view'.page # "product"
  BY <1>4, <1>14, <1>16, <1>18, DraftOf
<1> QED BY <1>3, <1>17, <1>18

\* NothingTypedIsLost for any texts: a draft outlives whatever happens to its form, its
\* page, its session and its submissions (review-submit-form.tsx, review-draft-storage.ts),
\* but for the two steps overtaken records: an edit's form taken to ?review=new (:91-96)
\* and the success of a submission made before it was typed (:144).
THEOREM NoDraftIsLost == Spec => []NothingTypedIsLost
<1>1. Init => NothingTypedIsLost
  BY DEF Init, TabInit, ReviewInit, NothingTypedIsLost, OnProduct, Blank
<1> QED BY <1>1, DraftKept, TabInductive, PTL DEF Spec

-----------------------------------------------------------------------------
(* The list of reviews. *)

Writes == {"submit", "update", "remove"}

\* A list that is read again will be fresh.
LEMMA RefetchedFresh ==
  ASSUME NEW S, calls' = Refetched(S), owed' = Joins(S)
  PROVE  ReviewsInv'
<1>1. CASE Joins(S)
  BY <1>1 DEF ReviewsInv
<1>2. CASE ~Joins(S)
  <2>1. ReadReviews.op = "reviews" /\ ReadReviews.got.is = "sent" /\ ~ReadReviews.of.more
    BY DEF ReadReviews, Call
  <2>2. calls' = NotReading(S) \cup {ReadReviews}
    BY <1>2 DEF Refetched
  <2>3. \A c \in calls' : c.op = "reviews" => c.got.is = "sent" /\ ~c.of.more
    BY <2>1, <2>2 DEF NotReading
  <2>4. \E c \in calls' : c.op = "reviews"
    BY <2>1, <2>2
  <2> QED BY <2>3, <2>4 DEF ReviewsInv, ReadWhole
<1> QED BY <1>1, <1>2

\* The list, the server's review, the fetches and the news of the writes stay.
LEMMA ReviewsStay ==
  ASSUME ReviewsInv, UNCHANGED <<journey, server, cached>>, OnProduct' => OnProduct,
         \A d \in calls' : d.op = "reviews" =>
           \E c \in calls : c.op = "reviews" /\ c.of = d.of /\ (d.got.is = "ok" => c.got = d.got),
         \A c \in calls : c.op = "reviews" => \E d \in calls' : d.op = "reviews",
         \A c \in calls : c.op \in Writes /\ c.got.is = "ok" =>
           \E d \in calls' : d.op \in Writes /\ d.got.is = "ok"
  PROVE  ReviewsInv'
<1> SUFFICES ASSUME Reviewing', OnProduct', ~foreign', ~owed', ~Changed'
             PROVE  /\ \A d \in calls' : d.op = "reviews" /\ d.got.is = "ok" =>
                          IsFresh(d.got.own, d.got.signed, Carries(d))'
                    /\ \/ IsFresh(reviews.own, reviews.signed, late => reviews.deep)'
                       \/ ReadWhole'
  BY DEF ReviewsInv
<1>1. ~Changed /\ Reviewing /\ UNCHANGED <<mine, late, foreign, reviews, owed>>
  BY DEF Changed, Writes, Reviewing, server, cached
<1>2. /\ \A c \in calls : c.op = "reviews" /\ c.got.is = "ok" =>
           IsFresh(c.got.own, c.got.signed, Carries(c))
      /\ \/ IsFresh(reviews.own, reviews.signed, late => reviews.deep)
         \/ ReadWhole
  BY <1>1 DEF ReviewsInv
<1>3. ReadWhole => ReadWhole'
  BY <1>1 DEF ReadWhole
<1> QED BY <1>1, <1>2, <1>3 DEF IsFresh, Carries

LEMMA ReviewsAside ==
  ASSUME ReviewsInv, Aside(ReviewOps), UNCHANGED <<journey, reviewVars>>
  PROVE  ReviewsInv'
<1>1. /\ \A d \in calls' : d.op \in ReviewOps => \E c \in calls : Alike(c, d)
      /\ \A c \in calls : c.op \in ReviewOps => \E d \in calls' : Alike(c, d)
  BY DEF Aside, SameCalls
<1>2. UNCHANGED <<server, cached, view>>
  BY DEF Aside, reviewVars, server, cached
<1>3. \A d \in calls' : d.op = "reviews" =>
        \E c \in calls : c.op = "reviews" /\ c.of = d.of /\ (d.got.is = "ok" => c.got = d.got)
  BY <1>1 DEF Alike, ReviewOps
<1>4. \A c \in calls : c.op = "reviews" => \E d \in calls' : d.op = "reviews"
  BY <1>1 DEF Alike, ReviewOps
<1>5. \A c \in calls : c.op \in Writes /\ c.got.is = "ok" =>
        \E d \in calls' : d.op \in Writes /\ d.got.is = "ok"
  BY <1>1 DEF Alike, ReviewOps, Writes
<1> QED BY <1>2, <1>3, <1>4, <1>5, ReviewsStay DEF OnProduct

\* A call is made.
LEMMA ReviewsAdd ==
  ASSUME ReviewsInv, UNCHANGED <<journey, reviewVars>>, OnProduct, NEW op, NEW of,
         op # "reviews", calls' = calls \cup {Call(op, of)}
  PROVE  ReviewsInv'
<1>1. UNCHANGED <<server, cached>>
  BY DEF reviewVars, server, cached
<1>2. Call(op, of).op = op
  BY DEF Call
<1> QED BY <1>1, <1>2, ReviewsStay

LEMMA ReviewStepFresh ==
  ASSUME TabInv, ReviewsInv, ReviewStep, UNCHANGED journey, OnProduct'
  PROVE  ReviewsInv'
<1>1. CASE \/ CancelForm \/ ToggleDialog \/ \E t \in Texts \cup {NoText} : Type(t)
           \/ \E p \in {"new", "edit"} : SwitchForm(p)
  <2>1. OnProduct /\ UNCHANGED <<calls, server, cached>>
    BY <1>1 DEF CancelForm, SwitchForm, ToggleDialog, Type, reviewVars, server, cached
  <2> QED BY <2>1, ReviewsStay
<1>2. CASE BackToPage \/ \E p \in {"new", "edit"} : OpenForm(p)
  <2>1. /\ OnProduct /\ UNCHANGED <<server, cached>>
        /\ calls' = {IF c.op \in Reads THEN c ELSE [c EXCEPT !.here = FALSE] : c \in calls}
    BY <1>2 DEF BackToPage, OpenForm, Abandoned, reviewVars, server, cached
  <2> DEFINE F(c) == IF c.op \in Reads THEN c ELSE [c EXCEPT !.here = FALSE]
  <2>2. \A c \in calls : F(c).op = c.op /\ F(c).of = c.of /\ F(c).got = c.got
    <3> SUFFICES ASSUME NEW c \in calls PROVE F(c).op = c.op /\ F(c).of = c.of /\ F(c).got = c.got
      OBVIOUS
    <3>1. Typed(c)
      BY Parts DEF Good
    <3> QED BY <3>1, GoneIs
  <2>3. calls' = {F(c) : c \in calls}
    BY <2>1
  <2> HIDE DEF F
  <2>4. \A d \in calls' : d.op = "reviews" =>
          \E c \in calls : c.op = "reviews" /\ c.of = d.of /\ c.got = d.got
    BY <2>2, <2>3
  <2>5. \A c \in calls : F(c) \in calls'
    BY <2>3
  <2>6. /\ \A c \in calls : c.op = "reviews" => \E d \in calls' : d.op = "reviews"
        /\ \A c \in calls : c.op \in Writes /\ c.got.is = "ok" =>
             \E d \in calls' : d.op \in Writes /\ d.got.is = "ok"
    BY <2>2, <2>5
  <2> QED BY <2>1, <2>4, <2>6, ReviewsStay
<1>3. CASE PromptSignIn
  BY <1>3 DEF PromptSignIn, Goto, Blank, OnProduct
<1>4. CASE SubmitForm
  <2>1. OnProduct /\ UNCHANGED reviewVars
    BY <1>4 DEF SubmitForm
  <2>2. calls' = calls \/ \E of : \E op \in {"submit", "update"} : calls' = calls \cup {Call(op, of)}
    BY <1>4 DEF SubmitForm
  <2>4. CASE calls' = calls
    BY <2>1, <2>4, ReviewsStay DEF reviewVars, server, cached
  <2>5. CASE \E of : \E op \in {"submit", "update"} : calls' = calls \cup {Call(op, of)}
    BY <2>1, <2>5, ReviewsAdd
  <2> QED BY <2>2, <2>4, <2>5
<1>5. CASE ConfirmDelete
  <2>1. OnProduct /\ UNCHANGED reviewVars
    BY <1>5 DEF ConfirmDelete
  <2>2. calls' = calls \cup {Call("remove", [text |-> NoText])}
    BY <1>5 DEF ConfirmDelete
  <2> QED BY <2>1, <2>2, ReviewsAdd
<1>8. CASE LoadMore
  <2> DEFINE d == Call("reviews", [deep |-> TRUE, more |-> TRUE])
  <2>1. /\ OnProduct /\ ~reviews.failed /\ UNCHANGED <<reviews, server>>
        /\ calls' = NotReading(calls) \cup {d}
        /\ owed' = (owed \/ NotReading(calls) # calls)
    BY <1>8 DEF LoadMore
  <2>2. d.got.is = "sent" /\ d.op = "reviews"
    BY DEF Call
  <2> HIDE DEF d
  <2> SUFFICES ASSUME Reviewing', OnProduct', ~foreign', ~owed', ~Changed' PROVE ReviewsInv'
    BY DEF ReviewsInv
  <2>3. ~owed /\ \A c \in calls : c.op # "reviews"
    BY <2>1 DEF NotReading
  <2>4. ~Changed /\ Reviewing /\ ~foreign
    BY <2>1, <2>3 DEF Changed, Reviewing, NotReading, server
  <2>5. IsFresh(reviews.own, reviews.signed, late => reviews.deep)
    BY <2>1, <2>3, <2>4 DEF ReviewsInv, ReadWhole
  <2>6. \A c \in calls' : c.op = "reviews" => c.got.is # "ok"
    BY <2>1, <2>2, <2>3 DEF NotReading
  <2> QED BY <2>1, <2>5, <2>6 DEF ReviewsInv, IsFresh, server
<1>6. CASE ViewYours \/ RefreshReviews
  BY <1>6, RefetchedFresh DEF ViewYours, RefreshReviews, RefetchReviews
<1>7. CASE WriteElsewhere
  BY <1>7 DEF WriteElsewhere, ReviewsInv
<1> QED BY <1>1, <1>2, <1>3, <1>4, <1>5, <1>6, <1>7, <1>8 DEF ReviewStep

\* An answered call, and the calls beside it.
LEMMA AnsweredHas ==
  ASSUME TabInv, NEW c \in calls, NEW g, calls' = Answered(c, g)
  PROVE  /\ \A d \in calls' : d \in calls \/ (d.op = c.op /\ d.of = c.of /\ d.got = g)
         /\ \A e \in calls : e # c => e \in calls'
         /\ \E d \in calls' : d.op = c.op /\ d.of = c.of /\ d.got = g
<1> DEFINE d == [c EXCEPT !.got = g]
<1>1. Typed(c)
  BY Parts DEF Good
<1>2. d.op = c.op /\ d.of = c.of /\ d.got = g
  BY <1>1, GotIs
<1>3. calls' = (calls \ {c}) \cup {d}
  BY DEF Answered
<1> HIDE DEF d
<1> QED BY <1>2, <1>3

LEMMA ReviewCallFresh ==
  ASSUME TabInv, ReviewsInv, NEW c \in calls, ReviewCall(c), UNCHANGED journey, OnProduct'
  PROVE  ReviewsInv'
<1>1. Typed(c) /\ Watched(view, c) /\ (c.here /\ Mutation(c) => Waits(view, c))
  BY Parts DEF Good
<1>2. OnProduct \/ AnswerWritten(c)
  BY <1>1 DEF OnProduct, ReviewCall, ServeReview, ServeReviews,
              AnswerNotWritten, AnswerReviews, AnswerRemoved, Watched, Waits, Mutation, Reads
<1>3. CASE AnswerWritten(c)
  <2>1. calls' = Refetched(calls \ {c}) /\ owed' = Joins(calls \ {c})
    BY <1>3 DEF AnswerWritten, AfterWrite, OnProduct, RefetchReviews
  <2> QED BY <2>1, RefetchedFresh
<1>4. CASE AnswerNotWritten(c) \/ (AnswerRemoved(c) /\ c.got.is # "ok")
  <2>1. /\ UNCHANGED <<server, cached>> /\ calls' = calls \ {c} /\ c.got.is # "ok"
        /\ c.op \in Writes
    BY <1>4 DEF AnswerNotWritten, AnswerRemoved, reviewVars, server, cached, Writes
  <2>2. c.op # "reviews"
    BY <2>1 DEF Writes
  <2>3. OnProduct
    BY <1>2, <1>4 DEF AnswerWritten, AnswerNotWritten, AnswerRemoved
  <2> QED BY <2>1, <2>2, <2>3, ReviewsStay
<1>5. CASE AnswerRemoved(c) /\ c.got.is = "ok"
  <2>1. OnProduct
    BY <1>2, <1>5 DEF AnswerWritten, AnswerRemoved
  <2>2. calls' = Refetched(calls \ {c}) /\ owed' = Joins(calls \ {c})
    BY <1>5, <2>1 DEF AnswerRemoved, RefetchReviews
  <2> QED BY <2>2, RefetchedFresh
<1>6. CASE ServeReview(c)
  <2>1. c.op \in Writes /\ c.got.is = "sent" /\ UNCHANGED <<view, cached>>
    BY <1>6 DEF ServeReview, Sent, Writes
  <2>2. CASE UNCHANGED server /\ \E x \in {"conflict", "failed"} : calls' = Answered(c, [is |-> x])
    <3>1. PICK x \in {"conflict", "failed"} : calls' = Answered(c, [is |-> x])
      BY <2>2
    <3> DEFINE g == [is |-> x]
    <3>2. g.is # "ok" /\ calls' = Answered(c, g)
      BY <3>1
    <3> HIDE DEF g
    <3>3. /\ \A d \in calls' : d \in calls \/ (d.op = c.op /\ d.of = c.of /\ d.got = g)
          /\ \A e \in calls : e # c => e \in calls'
      BY <3>2, AnsweredHas
    <3>4. c.op # "reviews"
      BY <2>1 DEF Writes
    <3> QED BY <2>1, <2>2, <3>2, <3>3, <3>4, ReviewsStay DEF OnProduct
  <2>3. CASE \E new : Written(c, new)
    <3>1. PICK lost \in BOOLEAN : /\ calls' = Answered(c, [is |-> IF lost THEN "failed" ELSE "ok"])
                                  /\ foreign' = (foreign \/ lost)
      BY <2>3 DEF Written
    <3>2. CASE lost
      BY <3>1, <3>2 DEF ReviewsInv
    <3>3. CASE ~lost
      <4> DEFINE g == [is |-> "ok"]
      <4>1. g.is = "ok" /\ calls' = Answered(c, g)
        BY <3>1, <3>3
      <4> HIDE DEF g
      <4>2. \E d \in calls' : d.op = c.op /\ d.got.is = "ok"
        BY <4>1, AnsweredHas
      <4> QED BY <2>1, <4>2 DEF ReviewsInv, Changed, Writes
    <3> QED BY <3>2, <3>3
  <2>4. \/ UNCHANGED server /\ \E x \in {"conflict", "failed"} : calls' = Answered(c, [is |-> x])
        \/ \E new : Written(c, new)
    BY <1>6 DEF ServeReview
  <2> QED BY <2>2, <2>3, <2>4
<1>7. CASE ServeReviews(c)
  <2> DEFINE g == [is |-> "ok", signed |-> live,
                   own |-> IF live /\ Carries(c) THEN mine ELSE NoText]
  <2>1. /\ UNCHANGED <<view, mine, late, foreign, reviews, owed>> /\ c.op = "reviews"
        /\ c.got.is = "sent" /\ calls' = Answered(c, g)
    BY <1>7 DEF ServeReviews, Sent, reviewVars
  <2>2. IsFresh(g.own, g.signed, Carries(c))
    <3>1. g.own = (IF live /\ Carries(c) THEN mine ELSE NoText) /\ g.signed = live
      OBVIOUS
    <3> QED BY <3>1 DEF IsFresh
  <2> HIDE DEF g
  <2>3. /\ \A d \in calls' : d \in calls \/ (d.op = c.op /\ d.of = c.of /\ d.got = g)
        /\ \A e \in calls : e # c => e \in calls'
        /\ \E d \in calls' : d.op = c.op /\ d.of = c.of /\ d.got = g
    BY <2>1, AnsweredHas
  <2> SUFFICES ASSUME Reviewing', OnProduct', ~foreign', ~owed', ~Changed' PROVE ReviewsInv'
    BY DEF ReviewsInv
  <2>4. ~Changed /\ Reviewing /\ OnProduct /\ ~foreign /\ ~owed
    BY <2>1, <2>3 DEF Changed, Reviewing, OnProduct
  <2>5. /\ \A d \in calls : d.op = "reviews" /\ d.got.is = "ok" =>
              IsFresh(d.got.own, d.got.signed, Carries(d))
        /\ IsFresh(reviews.own, reviews.signed, late => reviews.deep) \/ ReadWhole
    BY <2>4 DEF ReviewsInv
  <2>6. \A d \in calls' : d.op = "reviews" /\ d.got.is = "ok" =>
          IsFresh(d.got.own, d.got.signed, Carries(d))
    BY <2>2, <2>3, <2>5 DEF Carries
  <2>7. ReadWhole => ReadWhole'
    BY <2>1, <2>3 DEF ReadWhole
  <2> QED BY <2>1, <2>5, <2>6, <2>7 DEF ReviewsInv, IsFresh, Carries
<1>8. CASE AnswerReviews(c)
  <2> DEFINE own == IF c.of.more /\ reviews.own # NoText THEN reviews.own ELSE c.got.own
             signed == c.got.signed /\ (c.of.more => reviews.signed)
  <2>1. /\ UNCHANGED <<mine, late, foreign, owed>> /\ c.op = "reviews" /\ c.got.is \in {"ok", "failed"}
        /\ reviews' = IF c.got.is = "failed" THEN [reviews EXCEPT !.failed = TRUE]
                      ELSE [loaded |-> TRUE, failed |-> FALSE, deep |-> c.of.deep,
                            own |-> own, signed |-> signed]
        /\ calls' = calls \ {c} \/ calls' = Unmounted(calls)
    BY <1>8 DEF AnswerReviews, server
  <2>2. \A d \in calls' : d.op = "reviews" => d \in calls
    <3>1. \A d \in Unmounted(calls) : \E e \in calls : Mutation(e) /\ d = [e EXCEPT !.here = FALSE]
      BY DEF Unmounted, Reading, Mutation
    <3>2. \A e \in calls : [e EXCEPT !.here = FALSE].op = e.op
      BY GoneIs, Parts DEF Good
    <3>3. \A d \in Unmounted(calls) : Mutation(d)
      BY <3>1, <3>2 DEF Mutation
    <3>4. \A d \in Unmounted(calls) : d.op # "reviews"
      BY <3>3 DEF Mutation, Reads
    <3> QED BY <2>1, <3>4
  <2>3. Changed => Changed'
    <3> SUFFICES ASSUME NEW e \in calls, e.op \in Writes, e.got.is = "ok" PROVE Changed'
      BY DEF Changed, Writes
    <3> DEFINE d == [e EXCEPT !.here = FALSE]
    <3>1. d.op = e.op /\ d.got = e.got
      BY GoneIs, Parts DEF Good
    <3>2. e # c /\ e \notin Reading
      BY <2>1 DEF Writes, Reading, Reads
    <3>3. d \in Unmounted(calls)
      BY <3>2 DEF Unmounted
    <3> HIDE DEF d
    <3> QED BY <2>1, <3>1, <3>2, <3>3 DEF Changed, Writes
  <2> SUFFICES ASSUME Reviewing', OnProduct', ~foreign', ~owed', ~Changed' PROVE ReviewsInv'
    BY DEF ReviewsInv
  <2>4. ~Changed /\ Reviewing /\ OnProduct /\ ~foreign /\ ~owed
    BY <1>1, <2>1, <2>3 DEF Reviewing, OnProduct, Watched
  <2>5. /\ \A d \in calls : d.op = "reviews" /\ d.got.is = "ok" =>
              IsFresh(d.got.own, d.got.signed, Carries(d))
        /\ IsFresh(reviews.own, reviews.signed, late => reviews.deep) \/ ReadWhole
    BY <2>4 DEF ReviewsInv
  <2>6. \A d \in calls' : d.op = "reviews" /\ d.got.is = "ok" =>
          IsFresh(d.got.own, d.got.signed, Carries(d))'
    BY <2>1, <2>2, <2>5 DEF IsFresh, Carries
  <2>7. CASE c.got.is = "failed"
    <3>1. reviews'.failed /\ reviews'.own = reviews.own /\ reviews'.signed = reviews.signed
          /\ reviews'.deep = reviews.deep
      BY <2>1, <2>7, Parts DEF ReviewTypes
    <3>2. ReadWhole => ReadWhole'
      BY <2>2, <3>1 DEF ReadWhole
    <3> QED BY <2>1, <2>5, <2>6, <3>1, <3>2 DEF ReviewsInv, IsFresh
  <2>8. CASE c.got.is = "ok"
    <3>1. reviews'.own = own /\ reviews'.signed = signed /\ reviews'.deep = c.of.deep
      BY <2>1, <2>8
    <3>2. IsFresh(c.got.own, c.got.signed, Carries(c)) /\ (c.of.more => c.of.deep)
      BY <1>1, <2>1, <2>5, <2>8 DEF Typed
    <3>3. CASE ~c.of.more
      BY <2>1, <2>6, <3>1, <3>2, <3>3 DEF ReviewsInv, IsFresh, Carries
    <3>4. CASE c.of.more
      <4>1. IsFresh(reviews.own, reviews.signed, late => reviews.deep)
        BY <2>1, <2>5, <3>4 DEF ReadWhole
      <4>2. IsFresh(own, signed, TRUE)
        BY <3>2, <3>4, <4>1 DEF IsFresh, Carries
      <4> QED BY <2>1, <2>6, <3>1, <4>2 DEF ReviewsInv, IsFresh
    <3> QED BY <3>3, <3>4
  <2> QED BY <2>1, <2>7, <2>8
<1> QED BY <1>3, <1>4, <1>5, <1>6, <1>7, <1>8 DEF ReviewCall

LEMMA ReviewsKept ==
  ASSUME TabInv, ReviewsInv, [Next]_vars
  PROVE  ReviewsInv'
<1>1. journey' = journey
  BY JourneyStays
<1>2. CASE UNCHANGED vars
  BY <1>1, <1>2, ReviewsStay DEF vars, tabVars, reviewVars, OnProduct, server, cached
<1>3. CASE ~OnProduct'
  BY <1>3 DEF ReviewsInv
<1>4. CASE MountProduct
  <2>1. CASE Reviewing
    BY <1>4, <2>1, RefetchedFresh DEF MountProduct, RefetchReviews
  <2>2. CASE ~Reviewing
    BY <1>1, <2>2 DEF ReviewsInv, Reviewing
  <2> QED BY <2>1, <2>2
<1>5. CASE Next /\ OnProduct'
  BY <1>1, <1>4, <1>5, ProductSteps, ReviewStepFresh, ReviewCallFresh, ReviewsAside DEF OnProduct
<1> QED BY <1>2, <1>3, <1>5

-----------------------------------------------------------------------------
(* The lists of the moderator. *)

\* The calls d that ask for the list of f or changed what it holds.
ListOf(f, d) == d.op = "moderation" /\ d.of.filter = f
ActedOn(f, d) == d.op = "act" /\ d.got.is = "ok" /\ d.of.filter = f

\* A list that is read again will be fresh.
LEMMA ReadAgainFresh ==
  ASSUME NEW S, calls' = ReadAgain(view'.filter, S)
  PROVE  ListInv'
<1> DEFINE f == view'.filter
           d == Call("moderation", [filter |-> f])
<1>1. d.op = "moderation" /\ d.got.is = "sent" /\ d.of.filter = f
  BY DEF Call
<1>2. calls' = {c \in S : ~(c.op = "moderation" /\ c.of.filter = f)} \cup {d}
  BY DEF ReadAgain
<1> HIDE DEF f, d
<1>3. \A c \in calls' : c.op = "moderation" /\ c.of.filter = f => c.got.is = "sent"
  BY <1>1, <1>2
<1>4. \E c \in calls' : c.op = "moderation" /\ c.of.filter = f
  BY <1>1, <1>2
<1> QED BY <1>3, <1>4 DEF ListInv, f

\* Whatever rows were under the filter on display still are, or are disturbed; the
\* list, the fetches of it and the news of the moderator's calls under it stay.
LEMMA ListsStay ==
  ASSUME ListInv, NEW f, Moderating => f = view.filter,
         Moderating' => Moderating /\ view'.filter = f,
         lists'[f] = lists[f],
         \A rows : UnderFilter(rows, f) => UnderFilter(rows, f)',
         \A d \in calls' : ListOf(f, d) /\ d.got.is = "ok" =>
           \E c \in calls : ListOf(f, c) /\ c.got = d.got,
         \A c \in calls : ListOf(f, c) => \E d \in calls' : ListOf(f, d),
         \A c \in calls : ActedOn(f, c) => \E d \in calls' : ActedOn(f, d)
  PROVE  ListInv'
<1> SUFFICES ASSUME Moderating' PROVE ListInv'
  BY DEF ListInv
<1>1. Moderating /\ view.filter = f /\ view'.filter = f
  OBVIOUS
<1>2. CASE \E c \in calls : ActedOn(f, c)
  <2>1. \E d \in calls' : ActedOn(f, d)
    BY <1>2
  <2> QED BY <1>1, <2>1 DEF ListInv, ActedOn
<1>3. CASE ~ \E c \in calls : ActedOn(f, c)
  <2>1. /\ \A c \in calls : ListOf(f, c) /\ c.got.is = "ok" => UnderFilter(c.got.rows, f)
        /\ (\E c \in calls : ListOf(f, c)) \/ lists[f].failed \/ UnderFilter(lists[f].rows, f)
    BY <1>1, <1>3 DEF ListInv, ListOf, ActedOn
  <2>2. \A d \in calls' : ListOf(f, d) /\ d.got.is = "ok" => UnderFilter(d.got.rows, f)'
    BY <2>1
  <2>3. \/ \E c \in calls' : ListOf(f, c)
        \/ lists'[f].failed
        \/ UnderFilter(lists[f].rows, f)'
    BY <2>1 DEF UnderFilter
  <2> QED BY <1>1, <2>2, <2>3 DEF ListInv, ListOf, UnderFilter
<1> QED BY <1>2, <1>3

LEMMA ListsAside ==
  ASSUME ListInv, Aside(ModerationOps), UNCHANGED modVars
  PROVE  ListInv'
<1>0. PICK f : f = view.filter
  OBVIOUS
<1>1. /\ \A d \in calls' : d.op \in ModerationOps => \E c \in calls : Alike(c, d)
      /\ \A c \in calls : c.op \in ModerationOps => \E d \in calls' : Alike(c, d)
  BY DEF Aside, SameCalls
<1>2. view' = view /\ UNCHANGED <<state, disturbed, lists>>
  BY DEF Aside, modVars
<1>3. Moderating' => Moderating /\ view'.filter = f
  BY <1>0, <1>2 DEF Moderating
<1>4. \A d \in calls' : ListOf(f, d) /\ d.got.is = "ok" =>
        \E c \in calls : ListOf(f, c) /\ c.got = d.got
  BY <1>1 DEF Alike, ModerationOps, ListOf
<1>5. \A c \in calls : ListOf(f, c) => \E d \in calls' : ListOf(f, d)
  BY <1>1 DEF Alike, ModerationOps, ListOf
<1>6. \A c \in calls : ActedOn(f, c) => \E d \in calls' : ActedOn(f, d)
  BY <1>1 DEF Alike, ModerationOps, ActedOn
<1>7. \A rows : UnderFilter(rows, f) => UnderFilter(rows, f)'
  BY <1>2 DEF UnderFilter
<1> QED BY <1>0, <1>2, <1>3, <1>4, <1>5, <1>6, <1>7, ListsStay

LEMMA ModerationStepFresh ==
  ASSUME TabInv, ListInv, ModerationStep
  PROVE  ListInv'
<1>1. CASE SwitchFilter
  BY <1>1, ReadAgainFresh DEF SwitchFilter
<1>2. CASE RefreshList
  BY <1>2, ReadAgainFresh DEF RefreshList
<1>3. ASSUME NEW r \in Reviews, Act(r) PROVE ListInv'
  <2>0. PICK f : f = view.filter
    OBVIOUS
  <2> DEFINE d == Call("act", [token |-> r, filter |-> f])
  <2>1. calls' = calls \cup {d} /\ UNCHANGED <<state, disturbed, lists>> /\ Moderating
    BY <1>3, <2>0 DEF Act, modVars
  <2>2. d.op = "act" /\ d.got.is = "sent"
    BY DEF Call
  <2>3. view'.filter = f
    <3>1. view \in ModerationViews
      BY <2>1, Shapes, Parts DEF Moderating
    <3> QED BY <1>3, <2>0, <3>1 DEF Act, ModerationViews
  <2> HIDE DEF d
  <2>4. \A rows : UnderFilter(rows, f) => UnderFilter(rows, f)'
    BY <2>1 DEF UnderFilter
  <2>5. \A e \in calls' : ListOf(f, e) => e \in calls
    BY <2>1, <2>2 DEF ListOf
  <2> QED BY <2>0, <2>1, <2>3, <2>4, <2>5, ListsStay
<1> QED BY <1>1, <1>2, <1>3 DEF ModerationStep

\* A call acts on a row of the filter on display, and tells; or its answer is lost, and
\* the row is disturbed; or it brings the row under the filter on display.
LEMMA ServeActFresh ==
  ASSUME TabInv, ListInv, NEW c \in calls, ServeAct(c), Moderating
  PROVE  ListInv'
<1>0. PICK f : f = view.filter
  OBVIOUS
<1> DEFINE t == c.of.token
<1>1. /\ c.op = "act" /\ c.got.is = "sent" /\ UNCHANGED <<view, lists>>
      /\ state' = [state EXCEPT ![t] = Other(c.of.filter)]
  BY DEF ServeAct, Sent
<1>2. t \in Reviews /\ c.of.filter \in States /\ state \in [Reviews -> States]
  BY <1>1, Parts DEF Good, Typed, ModerationTypes
<1>3. f \in States
  <2>1. view \in ModerationViews
    BY Shapes, Parts DEF Moderating
  <2> QED BY <1>0, <2>1 DEF ModerationViews
<1>4. PICK lost \in BOOLEAN : /\ calls' = Answered(c, [is |-> IF lost THEN "failed" ELSE "ok"])
                              /\ disturbed' = IF lost THEN disturbed \cup {t} ELSE disturbed
  <2>1. {FALSE, disturbed = {}} \subseteq BOOLEAN
    OBVIOUS
  <2> QED BY <2>1 DEF ServeAct
<1> DEFINE g == [is |-> IF lost THEN "failed" ELSE "ok"]
<1>5. g.is = (IF lost THEN "failed" ELSE "ok") /\ calls' = Answered(c, g)
  BY <1>4
<1>7. view'.filter = f
  BY <1>0, <1>1
<1> HIDE DEF g
<1>8. /\ \A d \in calls' : d \in calls \/ (d.op = c.op /\ d.of = c.of /\ d.got = g)
      /\ \A e \in calls : e # c => e \in calls'
      /\ \E d \in calls' : d.op = c.op /\ d.of = c.of /\ d.got = g
  BY <1>5, AnsweredHas
<1>9. CASE ~lost /\ c.of.filter = f
  BY <1>1, <1>5, <1>7, <1>8, <1>9 DEF ListInv
<1>10. CASE lost \/ c.of.filter # f
  <2>1. ASSUME NEW rows, UnderFilter(rows, f) PROVE UnderFilter(rows, f)'
    <3> SUFFICES ASSUME NEW r \in rows \ disturbed' PROVE state'[r] = f
      BY DEF UnderFilter
    <3>1. r \notin disturbed /\ state[r] = f
      BY <1>4, <2>1 DEF UnderFilter
    <3>2. CASE r # t
      BY <1>1, <1>2, <3>1, <3>2
    <3>3. CASE r = t
      <4>1. Other(c.of.filter) = f
        BY <1>2, <1>3, <1>4, <1>10, <3>3, OtherIs
      <4> QED BY <1>1, <1>2, <3>3, <4>1
    <3> QED BY <3>2, <3>3
  <2>2. \A e \in calls : ListOf(f, e) \/ ActedOn(f, e) => e \in calls'
    BY <1>1, <1>8 DEF ListOf, ActedOn
  <2>3. \A e \in calls' : ListOf(f, e) => e \in calls
    BY <1>1, <1>8 DEF ListOf
  <2> QED BY <1>0, <1>1, <1>7, <2>1, <2>2, <2>3, ListsStay DEF Moderating
<1> QED BY <1>9, <1>10

LEMMA ServeListFresh ==
  ASSUME TabInv, ListInv, NEW c \in calls, ServeList(c), Moderating
  PROVE  ListInv'
<1>0. PICK f : f = view.filter
  OBVIOUS
<1> DEFINE g == [is |-> "ok", rows |-> {r \in Reviews : state[r] = c.of.filter}]
<1>1. /\ c.op = "moderation" /\ c.got.is = "sent" /\ UNCHANGED <<view, lists, state, disturbed>>
      /\ calls' = Answered(c, g)
  BY DEF ServeList, Sent, modVars
<1>2. g.rows = {r \in Reviews : state[r] = c.of.filter}
  OBVIOUS
<1> HIDE DEF g
<1>3. /\ \A d \in calls' : d \in calls \/ (d.op = c.op /\ d.of = c.of /\ d.got = g)
      /\ \A e \in calls : e # c => e \in calls'
      /\ \E d \in calls' : d.op = c.op /\ d.of = c.of /\ d.got = g
  BY <1>1, AnsweredHas
<1>4. CASE c.of.filter # f
  <2>2. view'.filter = f
    BY <1>0, <1>1
  <2>3. \A e \in calls : ListOf(f, e) \/ ActedOn(f, e) => e \in calls'
    BY <1>1, <1>3, <1>4 DEF ListOf, ActedOn
  <2>4. \A e \in calls' : ListOf(f, e) => e \in calls
    BY <1>3, <1>4 DEF ListOf
  <2>5. \A rows : UnderFilter(rows, f) => UnderFilter(rows, f)'
    BY <1>1 DEF UnderFilter
  <2> QED BY <1>0, <1>1, <2>2, <2>3, <2>4, <2>5, ListsStay DEF Moderating
<1>5. CASE c.of.filter = f
  <2>1. UnderFilter(g.rows, f)
    BY <1>2, <1>5 DEF UnderFilter
  <2>2. \E d \in calls' : d.op = "moderation" /\ d.of.filter = f
    BY <1>1, <1>3, <1>5
  <2>3. CASE \E e \in calls : ActedOn(f, e)
    <3>1. \E e \in calls' : ActedOn(f, e)
      BY <1>1, <1>3, <2>3 DEF ActedOn
    <3> QED BY <1>0, <1>1, <3>1 DEF ListInv, ActedOn
  <2>4. CASE ~ \E e \in calls : ActedOn(f, e)
    <3>1. \A e \in calls : e.op = "moderation" /\ e.got.is = "ok" /\ e.of.filter = f =>
            UnderFilter(e.got.rows, f)
      BY <1>0, <2>4 DEF ListInv, ActedOn
    <3>2. \A e \in calls' : e.op = "moderation" /\ e.got.is = "ok" /\ e.of.filter = f =>
            UnderFilter(e.got.rows, f)
      BY <1>3, <2>1, <3>1
    <3>3. \A rows : UnderFilter(rows, view.filter)' <=> UnderFilter(rows, f)
      BY <1>0, <1>1 DEF UnderFilter
    <3> QED BY <1>0, <1>1, <2>2, <3>2, <3>3 DEF ListInv, UnderFilter
  <2> QED BY <2>3, <2>4
<1> QED BY <1>4, <1>5

LEMMA AnswerActFresh ==
  ASSUME TabInv, ListInv, NEW c \in calls, AnswerAct(c), Moderating'
  PROVE  ListInv'
<1>1. /\ c.op = "act" /\ UNCHANGED <<lists, state, disturbed>>
      /\ calls' = IF c.got.is = "ok" /\ Moderating /\ view.filter = c.of.filter
                    THEN ReadAgain(c.of.filter, calls \ {c}) ELSE calls \ {c}
      /\ view' = IF ~c.here THEN view ELSE [view EXCEPT !.pending = @ \ {c.of.token}]
  BY DEF AnswerAct, modVars
<1>2. Moderating
  <2>1. c.here => view.page = "moderation"
    BY <1>1, Parts DEF Good, Waits, Mutation, Reads
  <2> QED BY <1>1, <2>1 DEF Moderating
<1>3. view'.filter = view.filter
  <2>1. view \in ModerationViews
    BY <1>2, Shapes, Parts DEF Moderating
  <2> QED BY <1>1, <2>1 DEF ModerationViews
<1>4. PICK f : f = view.filter
  OBVIOUS
<1>5. CASE c.got.is = "ok" /\ c.of.filter = f
  <2>1. calls' = ReadAgain(view'.filter, calls \ {c})
    BY <1>1, <1>2, <1>3, <1>4, <1>5
  <2> QED BY <2>1, ReadAgainFresh
<1>6. CASE ~(c.got.is = "ok" /\ c.of.filter = f)
  <2>1. calls' = calls \ {c}
    BY <1>1, <1>4, <1>6
  <2>2. ~ListOf(f, c) /\ ~ActedOn(f, c)
    BY <1>1, <1>6 DEF ListOf, ActedOn
  <2>3. \A rows : UnderFilter(rows, f) => UnderFilter(rows, f)'
    BY <1>1 DEF UnderFilter
  <2> QED BY <1>1, <1>2, <1>3, <1>4, <2>1, <2>2, <2>3, ListsStay
<1> QED BY <1>5, <1>6

LEMMA AnswerListFresh ==
  ASSUME TabInv, ListInv, NEW c \in calls, AnswerList(c)
  PROVE  ListInv'
<1>1. /\ c.op = "moderation" /\ c.got.is \in {"ok", "failed"} /\ calls' = calls \ {c}
      /\ lists' = [lists EXCEPT ![c.of.filter] =
                     IF c.got.is = "failed" THEN [failed |-> TRUE, rows |-> {}]
                     ELSE [failed |-> FALSE, rows |-> c.got.rows]]
      /\ UNCHANGED <<view, state, disturbed>>
  BY DEF AnswerList
<1>2. view.page = "moderation" /\ c.of.filter \in States
  BY <1>1, Parts DEF Good, Watched, Typed
<1>3. DOMAIN lists = States
  BY Parts DEF ModerationTypes
<1>4. PICK f : f = view.filter
  OBVIOUS
<1>5. \A rows : UnderFilter(rows, f)' <=> UnderFilter(rows, f)
  BY <1>1 DEF UnderFilter
<1>6. CASE c.of.filter # f
  <2>1. lists'[f] = lists[f]
    BY <1>1, <1>6
  <2>2. ~ListOf(f, c) /\ ~ActedOn(f, c)
    BY <1>1, <1>6 DEF ListOf, ActedOn
  <2> QED BY <1>1, <1>4, <1>5, <2>1, <2>2, ListsStay DEF Moderating
<1>7. CASE c.of.filter = f
  <2>1. lists'[f] = IF c.got.is = "failed" THEN [failed |-> TRUE, rows |-> {}]
                    ELSE [failed |-> FALSE, rows |-> c.got.rows]
    BY <1>1, <1>2, <1>3, <1>7
  <2>2. /\ c.got.is = "failed" => lists'[f].failed
        /\ c.got.is = "ok" => lists'[f].rows = c.got.rows
    BY <2>1
  <2>3. CASE \E e \in calls : ActedOn(f, e)
    <3>1. \E e \in calls' : ActedOn(f, e)
      BY <1>1, <2>3 DEF ActedOn
    <3> QED BY <1>1, <1>4, <3>1 DEF ListInv, ActedOn
  <2>4. CASE ~ \E e \in calls : ActedOn(f, e)
    <3>1. \A e \in calls : e.op = "moderation" /\ e.got.is = "ok" /\ e.of.filter = f =>
            UnderFilter(e.got.rows, f)
      BY <1>2, <1>4, <2>4 DEF ListInv, ActedOn, Moderating
    <3>2. lists'[f].failed \/ UnderFilter(lists'[f].rows, f)
      BY <1>1, <1>7, <2>2, <3>1
    <3> QED BY <1>1, <1>4, <3>1, <3>2 DEF ListInv, UnderFilter
  <2> QED BY <2>3, <2>4
<1> QED BY <1>6, <1>7

LEMMA ListsKept ==
  ASSUME TabInv, ListInv, [Next]_vars
  PROVE  ListInv'
<1>1. CASE UNCHANGED vars
  BY <1>1, NothingAside, ListsAside DEF vars, tabVars, modVars
<1>2. CASE ~Moderating'
  BY <1>2 DEF ListInv
<1>3. CASE MountModeration
  <2>1. view'.filter = "published"
    BY <1>3 DEF MountModeration, Mount
  <2> QED BY <1>3, <2>1, ReadAgainFresh DEF MountModeration
<1>4. ASSUME NEW c \in calls, ModerationCall(c), Moderating' PROVE ListInv'
  <2>1. ServeAct(c) \/ ServeList(c) => Moderating
    BY <1>4 DEF ServeAct, ServeList, Moderating
  <2> QED BY <1>4, <2>1, ServeActFresh, ServeListFresh, AnswerActFresh, AnswerListFresh DEF ModerationCall
<1>5. CASE Next /\ Moderating'
  BY <1>3, <1>4, <1>5, ModerationSteps, ModerationStepFresh, ListsAside DEF Moderating
<1> QED BY <1>1, <1>2, <1>5

-----------------------------------------------------------------------------
(* The search box and the results. *)

\* The results of f are being read.
LEMMA ReadFilterFresh ==
  ASSUME NEW S, NEW f, calls' = ReadFilter(f, S), view'.url = f,
         view'.timer \/ view'.box.text = f \/ view'.going = {view'.box.text}
  PROVE  SearchInv'
<1> DEFINE d == ReadProducts(f)
<1>1. d.op = "products" /\ d.of.filter = f
  BY DEF ReadProducts, Call
<1>2. calls' = {c \in S : c.op # "products"} \cup {d}
  BY DEF ReadFilter
<1> HIDE DEF d
<1> QED BY <1>1, <1>2 DEF SearchInv

LEMMA CatalogueStepFresh ==
  ASSUME TabInv, SearchInv, CatalogueStep, UNCHANGED journey, Searching'
  PROVE  SearchInv'
<1>1. Searching /\ view \in CatalogueViews
  <2>1. Browsing
    BY DEF CatalogueStep, TypeSearch, Debounce, ClearFilters, Arrive, BackOrForward, RefreshProducts, Searching
  <2> QED BY <2>1, Shapes, Parts DEF Searching, Browsing
<1>2. /\ view.timer \/ view.box.text = view.url \/ view.going = {view.box.text}
      /\ \A c \in calls : c.op = "products" => c.of.filter = view.url
      /\ view.failed \/ view.shown = {view.url} \/ \E c \in calls : c.op = "products"
  BY <1>1 DEF SearchInv
<1>3. \A f : Plain(f).text = f
  BY DEF Plain
<1>4. ASSUME NEW box \in Drafts, TypeSearch(box) PROVE SearchInv'
  <2>1. /\ view'.url = view.url /\ view'.box = box /\ view'.timer = (box.text # view.url)
        /\ view'.failed = view.failed /\ view'.shown = view.shown
    BY <1>1, <1>4 DEF TypeSearch, Typing, CatalogueViews
  <2>2. calls' = calls
    BY <1>4 DEF TypeSearch
  <2> QED BY <1>2, <2>1, <2>2 DEF SearchInv
<1>5. CASE Debounce
  <2>1. /\ view'.url = view.url /\ view'.box = view.box /\ view'.going = {view.box.text}
        /\ view'.failed = view.failed /\ view'.shown = view.shown
    BY <1>1, <1>5 DEF Debounce, CatalogueViews
  <2>2. calls' = calls
    BY <1>5 DEF Debounce
  <2> QED BY <1>2, <2>1, <2>2 DEF SearchInv
<1>6. CASE ClearFilters
  <2>1. /\ view'.url = view.url /\ view'.failed = view.failed /\ view'.shown = view.shown
    BY <1>1, <1>6 DEF ClearFilters, CatalogueViews
  <2>2. view'.timer
    BY <1>1, <1>6 DEF ClearFilters, CatalogueViews
  <2>3. calls' = calls
    BY <1>6 DEF ClearFilters
  <2> QED BY <1>2, <2>1, <2>2, <2>3 DEF SearchInv
<1>7. ASSUME NEW f, Committed(f) PROVE SearchInv'
  <2>1. view'.url = f /\ view'.box = Plain(f) /\ calls' = ReadFilter(f, calls)
    BY <1>1, <1>7 DEF Committed, CatalogueViews
  <2> QED BY <1>3, <2>1, ReadFilterFresh
<1>8. CASE Arrive
  <2>1. PICK f \in view.going :
          IF f # view.url THEN Committed(f)
          ELSE view' = [view EXCEPT !.going = {}] /\ calls' = calls
    BY <1>8 DEF Arrive
  <2>2. CASE f # view.url
    BY <1>7, <2>1, <2>2
  <2>3. CASE f = view.url
    <3>1. /\ view'.url = view.url /\ view'.box = view.box /\ view'.timer = view.timer
          /\ view'.failed = view.failed /\ view'.shown = view.shown
      BY <1>1, <2>1, <2>3 DEF CatalogueViews
    <3>2. view.timer \/ view.box.text = view.url
      BY <1>2, <2>1, <2>3
    <3> QED BY <1>2, <2>1, <2>3, <3>1, <3>2 DEF SearchInv
  <2> QED BY <2>2, <2>3
<1>9. CASE BackOrForward
  BY <1>7, <1>9 DEF BackOrForward
<1>10. CASE RefreshProducts
  BY <1>2, <1>10, ReadFilterFresh DEF RefreshProducts
<1> QED BY <1>4, <1>5, <1>6, <1>8, <1>9, <1>10 DEF CatalogueStep

LEMMA CatalogueCallFresh ==
  ASSUME TabInv, SearchInv, NEW c \in calls, CatalogueCall(c), UNCHANGED journey, Searching'
  PROVE  SearchInv'
<1>1. c.op = "products" /\ view.page = "home" /\ view \in CatalogueViews
  <2>1. c.op = "products" /\ Watched(view, c)
    BY Parts DEF CatalogueCall, ServeProducts, AnswerProducts, Good
  <2> QED BY <2>1, Shapes, Parts DEF Watched
<1>2. /\ view.timer \/ view.box.text = view.url \/ view.going = {view.box.text}
      /\ \A d \in calls : d.op = "products" => d.of.filter = view.url
  BY <1>1 DEF SearchInv, Searching, Browsing
<1>3. CASE ServeProducts(c)
  <2> DEFINE g == [is |-> "ok"]
  <2>1. view' = view /\ calls' = Answered(c, g)
    BY <1>3 DEF ServeProducts
  <2> HIDE DEF g
  <2>2. /\ \A d \in calls' : d \in calls \/ (d.op = c.op /\ d.of = c.of /\ d.got = g)
        /\ \E d \in calls' : d.op = c.op /\ d.of = c.of /\ d.got = g
    BY <2>1, AnsweredHas
  <2> QED BY <1>1, <1>2, <2>1, <2>2 DEF SearchInv
<1>4. CASE AnswerProducts(c)
  <2>1. /\ calls' = calls \ {c} /\ c.got.is \in {"ok", "failed"}
        /\ view' = IF c.got.is = "failed" THEN [view EXCEPT !.failed = TRUE]
                   ELSE [view EXCEPT !.failed = FALSE, !.shown = {c.of.filter}]
    BY <1>4 DEF AnswerProducts
  <2>2. /\ view'.url = view.url /\ view'.box = view.box /\ view'.timer = view.timer
        /\ view'.going = view.going
    BY <1>1, <2>1 DEF CatalogueViews
  <2>3. view'.failed \/ view'.shown = {c.of.filter}
    BY <1>1, <2>1 DEF CatalogueViews
  <2> QED BY <1>1, <1>2, <2>1, <2>2, <2>3 DEF SearchInv
<1> QED BY <1>3, <1>4 DEF CatalogueCall

LEMMA SearchAside ==
  ASSUME SearchInv, Aside(CatalogueOps), UNCHANGED journey
  PROVE  SearchInv'
<1>1. /\ view' = view
      /\ \A d \in calls' : d.op \in CatalogueOps => \E c \in calls : Alike(c, d)
      /\ \A c \in calls : c.op \in CatalogueOps => \E d \in calls' : Alike(c, d)
  BY DEF Aside, SameCalls
<1> QED BY <1>1 DEF SearchInv, Searching, Browsing, Alike, CatalogueOps

LEMMA SearchKept ==
  ASSUME TabInv, SearchInv, [Next]_vars
  PROVE  SearchInv'
<1>1. journey' = journey
  BY JourneyStays
<1>2. CASE UNCHANGED vars
  BY <1>1, <1>2, NothingAside, SearchAside DEF vars, tabVars
<1>3. CASE ~Searching'
  BY <1>3 DEF SearchInv
<1>4. CASE MountCatalogue /\ Searching'
  <2>1. calls' = ReadFilter(All, calls) /\ view'.url = All /\ view'.box = Plain(All)
    BY <1>4 DEF MountCatalogue, Mount
  <2>2. Plain(All).text = All
    BY DEF Plain
  <2> QED BY <2>1, <2>2, ReadFilterFresh
<1>5. CASE Next /\ Searching'
  BY <1>1, <1>4, <1>5, CatalogueSteps, CatalogueStepFresh, CatalogueCallFresh, SearchAside
     DEF Searching, Browsing
<1> QED BY <1>2, <1>3, <1>5

-----------------------------------------------------------------------------
(* At rest. *)

\* AtRestFresh for any journeys, texts, reviews and words: whatever fetches were out when
\* a change of this tab's succeeded, and wherever the user went, a screen with nothing in
\* flight shows it (use-product-reviews.ts, use-moderation-reviews.ts, catalogue-screen.tsx).
\* A review list whose refetch was joined to its first load, or superseded by "Load more",
\* is owed one and excepted until it is read again.
THEOREM ScreensAtRestAreFresh == Spec => []AtRestFresh
<1>1. Init => ReviewsInv /\ ListInv /\ SearchInv
  BY DEF Init, TabInit, ReviewsInv, ListInv, SearchInv, OnProduct, Moderating, Searching, Browsing, Blank
<1>2. TabInv /\ (ReviewsInv /\ ListInv /\ SearchInv) /\ [Next]_vars => (ReviewsInv /\ ListInv /\ SearchInv)'
  BY ReviewsKept, ListsKept, SearchKept
<1>3. ReviewsInv /\ ListInv /\ SearchInv => AtRestFresh
  <2> SUFFICES ASSUME ReviewsInv, ListInv, SearchInv, AtRest
               PROVE  ReviewsFresh /\ ModerationFresh /\ CatalogueFresh
    BY DEF AtRestFresh
  <2>1. \A c \in calls : c.op \notin {"reviews", "submit", "update", "remove", "moderation", "act", "products"}
    BY DEF AtRest
  <2>2. ReviewsFresh
    BY <2>1 DEF ReviewsInv, ReadWhole, ReviewsFresh, ShowsReviews, Listed, Changed, IsFresh
  <2>3. ModerationFresh
    BY <2>1 DEF ListInv, ModerationFresh, UnderFilter
  <2>4. CatalogueFresh
    BY <2>1 DEF SearchInv, CatalogueFresh
  <2> QED BY <2>2, <2>3, <2>4
<1> QED BY <1>1, <1>2, <1>3, TabInductive, PTL DEF Spec
=============================================================================
