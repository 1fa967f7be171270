------------------------------- MODULE Routes -------------------------------
(***************************************************************************)
(* The contract's routes (src/apps/api/src/http, src/apps/api/src/routes): *)
(* each request resolves its session afresh, is counted by its rate-limit  *)
(* bucket, has its input checked, passes its guard, makes one call of      *)
(* packages/reviews, reads once more what the answer needs and answers,    *)
(* while sessions end, capabilities are granted and accounts are erased.   *)
(* One product stands for the catalogue and an author's one review of it   *)
(* for its token; a call of packages/reviews is one step, as AtomicReviews *)
(* has it.  An input is well formed or has one of two flaws; the shape of  *)
(* the answers is left out, and so is when a bucket is full (RateLimits).  *)
(***************************************************************************)
EXTENDS Accounts

VARIABLES
  call,      \* the request each browser has in flight
  reviewOf,  \* each author's review: its moderation state
  listed,    \* the product's name, Nothing before it is created
  rights     \* history: the rights there were since each request arrived

routeVars == <<accountVars, call, reviewOf, listed, rights>>

NoCall == [at |-> "none", route |-> "get", of |-> 0, flaw |-> "none", status |-> 0, mine |-> FALSE]
Names == {"one", "other"}

\* Every address may have its account, and a row is not the lack of one.
ASSUME RoutesAssumption ==
  /\ IsFiniteSet(Addresses) /\ Cardinality(Addresses) <= MaxIdentities
  /\ Nothing \notin Names \cup {"published", "rejected"}

-----------------------------------------------------------------------------
(* packages/contracts: methods, inputs and the errors declared of each route. *)
(* PROVIDER (502) and INTERNAL (500), which all but bootstrap declare, are    *)
(* left out.                                                                  *)

Route(method, errors) == [method |-> method, errors |-> errors]

ProductRoutes ==
  [listProducts |-> Route("GET", {400, 429}),
   get |-> Route("GET", {400, 404, 429}),
   createProduct |-> Route("POST", {400, 401, 403, 409}),
   updateProduct |-> Route("PATCH", {400, 401, 403, 404})]

\* None but 403 for another's review and for none at all: no existence oracle.
ReviewRoutes ==
  [listForProduct |-> Route("GET", {400, 404, 429}),
   submit |-> Route("POST", {400, 401, 404, 409, 429}),
   update |-> Route("PATCH", {400, 401, 403, 429}),
   remove |-> Route("DELETE", {400, 401, 403})]

ModerationRoutes ==
  [moderationList |-> Route("GET", {400, 401, 403, 429}),
   reject |-> Route("POST", {400, 401, 403, 404}),
   restore |-> Route("POST", {400, 401, 403, 404})]

\* The bootstrap declares no error.
SessionRoutes == [bootstrap |-> Route("GET", {})]

\* The tables f and g in one.
Both(f, g) == [x \in DOMAIN f \cup DOMAIN g |-> IF x \in DOMAIN f THEN f[x] ELSE g[x]]

Contract == Both(Both(ProductRoutes, ReviewRoutes), Both(ModerationRoutes, SessionRoutes))

\* What can be wrong with an input: its shape, which the schema refuses (no field
\* to change and a field that never changes among it), or its meaning, a category
\* that is not one or a cursor of another list, which packages/reviews refuses.
ProductFlaws ==
  [listProducts |-> {"shape", "meaning"}, get |-> {"shape"},
   createProduct |-> {"shape", "meaning"}, updateProduct |-> {"shape", "meaning"}]
ReviewFlaws ==
  [listForProduct |-> {"shape", "meaning"}, moderationList |-> {"shape", "meaning"},
   submit |-> {"shape"}, update |-> {"shape"}, remove |-> {"shape"},
   reject |-> {"shape"}, restore |-> {"shape"}]
Flaws == Both(Both(ProductFlaws, ReviewFlaws), [bootstrap |-> {}])
-----------------------------------------------------------------------------

\* What each handler requires before anything else.
Needs == [listProducts |-> "nothing", get |-> "nothing", listForProduct |-> "nothing",
          bootstrap |-> "session", submit |-> "session", update |-> "session", remove |-> "session",
          moderationList |-> "moderator", reject |-> "moderator", restore |-> "moderator",
          createProduct |-> "catalogue_manager", updateProduct |-> "catalogue_manager"]

\* A right is an identity's session or one of its capabilities.
RightsNow ==
  {<<session[b].id, "session">> : b \in {x \in Callers : session[x] # Nothing /\ today <= session[x].expires}}
  \cup UNION {{<<i, cap>> : cap \in appUser[i].caps} : i \in {x \in Ids : appUser[x] # Nothing}}

\* Every address has its account; some are signed in.
RoutesInit ==
  /\ today = 0 /\ issued = Cardinality(Addresses)
  /\ identity \in {f \in [Addresses -> 1 .. issued] : \A a, c \in Addresses : f[a] = f[c] => a = c}
  /\ appUser = [i \in Ids |-> IF i <= issued THEN NewUser("seed", {}) ELSE Nothing]
  /\ link = [b \in Browsers |-> Nothing]
  /\ session \in {s \in [Browsers -> [id : 1 .. issued, expires : {SessionLife}] \cup {Nothing}] :
                    \A b \in Browsers \ Callers : s[b] = Nothing}
  /\ signIn = [b \in Browsers |-> Out] /\ lookup = [b \in Browsers |-> NoLookup]
  /\ call = [b \in Callers |-> NoCall] /\ reviewOf = [i \in Ids |-> Nothing] /\ listed = Nothing
  /\ rights = [b \in Callers |-> {}]

Moves(b, at) == call' = [call EXCEPT ![b].at = at]
Answers(b, status) == call' = [call EXCEPT ![b].at = "answered", ![b].status = status]

Arrive(b, route, i) ==
  /\ call[b].at = "none"
  /\ \E flaw \in {"none"} \cup Flaws[route] :
       call' = [call EXCEPT ![b] =
         [at |-> "session", route |-> route, of |-> i, flaw |-> flaw, status |-> 0, mine |-> FALSE]]
  /\ UNCHANGED <<accountVars, reviewOf, listed>>

\* resolveRequestSession, before the handler runs.
Resolve(b) ==
  /\ call[b].at = "session"
  /\ FindSession(b) \/ FindUser(b)
  /\ UNCHANGED <<call, reviewOf, listed>>

\* At most one bucket counts a request; the fourth, of /api/auth, none of these.
BucketOf(b) ==
  LET method == Contract[call[b].route].method IN
  IF lookup[b].at = "anonymous"
    THEN IF method = "POST" THEN "unauthenticated-post"
         ELSE IF method = "GET" THEN "anonymous-read" ELSE "none"
    ELSE IF call[b].route \in {"submit", "update"} THEN "review-submission" ELSE "none"

\* A session without an app_user answers 500 on any route; a full bucket 429.
Count(b) ==
  /\ call[b].at = "session" /\ lookup[b].at \in {"anonymous", "known", "inconsistent"}
  /\ IF lookup[b].at = "inconsistent" THEN Answers(b, 500)
     ELSE \/ Moves(b, "guard")
          \/ BucketOf(b) # "none" /\ Answers(b, 429)
  /\ UNCHANGED <<accountVars, reviewOf, listed>>

\* requireSession, requireCatalogueManager, requireModerator.
Passes(b) ==
  LET need == Needs[call[b].route] IN
  IF need = "nothing" THEN 200
  ELSE IF lookup[b].at = "anonymous" THEN 401
  ELSE IF need = "session" \/ need \in lookup[b].caps THEN 200 ELSE 403

\* The input's schema refuses, and only then does the handler.
Guard(b) ==
  /\ call[b].at = "guard"
  /\ IF call[b].flaw = "shape" THEN Answers(b, 400)
     ELSE IF Passes(b) = 200 THEN Moves(b, "core")
     ELSE Answers(b, Passes(b))
  /\ UNCHANGED <<accountVars, reviewOf, listed>>

\* A category or a cursor is looked at before any statement, but a product's
\* reviews look for the product first.
Refused(b) ==
  call[b].flaw = "meaning" /\ ~(call[b].route = "listForProduct" /\ listed = Nothing)

Refuse(b) ==
  /\ call[b].at = "core" /\ Refused(b)
  /\ Answers(b, 400)
  /\ UNCHANGED <<accountVars, reviewOf, listed>>

Runs(b, routes) ==
  call[b].at = "core" /\ call[b].route \in routes /\ ~Refused(b) /\ UNCHANGED accountVars
Who(b) == lookup[b].id

\* A page of products: nothing more is read.
ListProducts(b) ==
  /\ Runs(b, {"listProducts"})
  /\ Answers(b, 200)
  /\ UNCHANGED <<reviewOf, listed>>

\* The session's token and capabilities, with no statement at all.
Bootstrap(b) ==
  /\ Runs(b, {"bootstrap"})
  /\ Answers(b, 200)
  /\ UNCHANGED <<reviewOf, listed>>

GetProduct(b) ==
  /\ Runs(b, {"get"})
  /\ Answers(b, IF listed = Nothing THEN 404 ELSE 200)
  /\ UNCHANGED <<reviewOf, listed>>

\* A page of a product's reviews, or of all: its labels are read after it.
ListReviews(b) ==
  /\ Runs(b, {"listForProduct", "moderationList"})
  /\ IF call[b].route = "listForProduct" /\ listed = Nothing THEN Answers(b, 404)
                                                            ELSE Moves(b, "reads")
  /\ UNCHANGED <<reviewOf, listed>>

\* A new review, a replay or, with other content, a conflict; the foreign key
\* refuses an author who was erased.
Submit(b) ==
  /\ Runs(b, {"submit"})
  /\ \/ /\ reviewOf[Who(b)] = Nothing /\ listed # Nothing /\ Live(Who(b))
        /\ reviewOf' = [reviewOf EXCEPT ![Who(b)] = "published"]
        /\ call' = [call EXCEPT ![b].at = "reads", ![b].of = Who(b)]
     \/ /\ reviewOf[Who(b)] # Nothing
        /\ call' = [call EXCEPT ![b].at = "reads", ![b].of = Who(b)]
        /\ UNCHANGED reviewOf
     \/ reviewOf[Who(b)] # Nothing /\ Answers(b, 409) /\ UNCHANGED reviewOf
     \/ listed = Nothing /\ Answers(b, 404) /\ UNCHANGED reviewOf
     \/ ~Live(Who(b)) /\ Answers(b, 500) /\ UNCHANGED reviewOf
  /\ UNCHANGED listed

\* updateReview, removeReview: another's review and none are one answer.
WriteOwn(b) ==
  /\ Runs(b, {"update", "remove"})
  /\ LET i == call[b].of IN
     IF i # Who(b) \/ reviewOf[i] = Nothing
       THEN Answers(b, 403) /\ UNCHANGED reviewOf
     ELSE IF call[b].route = "update" THEN Moves(b, "reads") /\ UNCHANGED reviewOf
     ELSE Answers(b, 200) /\ reviewOf' = [reviewOf EXCEPT ![i] = Nothing]
  /\ UNCHANGED listed

Moderate(b) ==
  /\ Runs(b, {"reject", "restore"})
  /\ LET i == call[b].of IN
     IF reviewOf[i] = Nothing
       THEN Answers(b, 404) /\ UNCHANGED reviewOf
       ELSE /\ Moves(b, "reads")
            /\ reviewOf' = [reviewOf EXCEPT ![i] =
                              IF call[b].route = "reject" THEN "rejected" ELSE "published"]
  /\ UNCHANGED listed

\* A slug or sku that is taken conflicts; what is answered is synthesized.
Create(b) ==
  /\ Runs(b, {"createProduct"})
  /\ IF listed = Nothing
       THEN listed' \in Names /\ Answers(b, 200)
       ELSE Answers(b, 409) /\ UNCHANGED listed
  /\ UNCHANGED reviewOf

\* The edited product is read back.
Edit(b) ==
  /\ Runs(b, {"updateProduct"})
  /\ IF listed = Nothing
       THEN Answers(b, 404) /\ UNCHANGED listed
       ELSE listed' \in Names /\ Moves(b, "reads")
  /\ UNCHANGED reviewOf

\* authorLabelsForUserIds, or getProductBySlug.
Read(b) ==
  /\ call[b].at = "reads"
  /\ call' = [call EXCEPT ![b].at = "answered", ![b].status = 200,
                          ![b].mine = lookup[b].at = "known" /\ call[b].of = Who(b)]
  /\ UNCHANGED <<accountVars, reviewOf, listed>>

\* A statement that fails answers 500, and what was committed before it stands.
CallFails(b) ==
  /\ call[b].at \in {"session", "core", "reads"}
  /\ call[b].route = "bootstrap" => call[b].at = "session"
  /\ Answers(b, 500)
  /\ UNCHANGED <<accountVars, reviewOf, listed>>

\* Mutant: what was resolved is kept for the browser's next request.
LeaveCached(b) ==
  /\ call[b].at = "answered"
  /\ call' = [call EXCEPT ![b] = NoCall]
  /\ UNCHANGED <<accountVars, reviewOf, listed>>
\* The answer is sent.
Leave(b) ==
  /\ call[b].at = "answered"
  /\ call' = [call EXCEPT ![b] = NoCall]
  /\ lookup' = [lookup EXCEPT ![b] = NoLookup]
  /\ UNCHANGED <<today, rows, signIn, reviewOf, listed>>

\* The account's reviews go with it.
EraseAuthor(a) ==
  /\ Erase(a)
  /\ reviewOf' = [reviewOf EXCEPT ![identity[a]] = Nothing]
  /\ UNCHANGED <<call, listed>>

\* A session that is signed out stands for one that ends by expiry.
AccountMoves ==
  \/ \E b \in Callers : SignOut(b)
  \/ \E i \in Ids, cap \in Caps : Grant(i, cap)

RouteStep(b) ==
  \/ \E route \in DOMAIN Needs, i \in 1 .. issued : Arrive(b, route, i)
  \/ Resolve(b) \/ Count(b) \/ Guard(b) \/ Refuse(b)
  \/ ListProducts(b) \/ GetProduct(b) \/ Bootstrap(b) \/ ListReviews(b) \/ Submit(b) \/ WriteOwn(b) \/ Moderate(b)
  \/ Create(b) \/ Edit(b)
  \/ Read(b) \/ CallFails(b) \/ Leave(b)

RoutesNext ==
  /\ \/ \E b \in Callers : RouteStep(b)
     \/ \E a \in Addresses : EraseAuthor(a)
     \/ AccountMoves /\ UNCHANGED <<call, reviewOf, listed>>
  /\ rights' = [b \in Callers |->
       IF call'[b].at = "none" THEN {} ELSE rights[b] \cup RightsNow \cup RightsNow']

RoutesSpec == RoutesInit /\ [][RoutesNext]_routeVars

(******************************* properties *******************************)

\* The buckets stand before routes that declare no 429, and the bootstrap's 401 is
\* its normal answer (session.router.ts:22).
Undeclared(route) ==
  IF route = "bootstrap" THEN {401, 429}
  ELSE IF route \in {"createProduct", "reject", "restore"} THEN {429} ELSE {}

RoutesTypeOK ==
  /\ \A b \in Callers :
       /\ call[b].at \in {"none", "session", "guard", "core", "reads", "answered"}
       /\ call[b].route \in DOMAIN Contract /\ call[b].of \in 0 .. issued
       /\ call[b].flaw \in {"none"} \cup Flaws[call[b].route]
       /\ call[b].status \in {0, 200, 500} \cup Contract[call[b].route].errors \cup Undeclared(call[b].route)
  /\ reviewOf \in [Ids -> {"published", "rejected", Nothing}]
  /\ listed \in Names \cup {Nothing}

\* session-middleware.ts:53, reviews.router.ts:70-73 and 162-166, products.router.ts:80-82:
\* a request writes, and is answered what is not for everyone (that something exists
\* or does not is such an answer), only by a right its user had at some time since it
\* arrived, never by one it had earlier or that another has; a review is written by its
\* author or a moderator, belongs to an account that exists, and is called the caller's
\* own exactly when it is.
ServesByRight ==
  /\ \A b \in Callers :
       call'[b].status \in {200, 404, 409} /\ Needs[call'[b].route] # "nothing" =>
         /\ <<lookup'[b].id, "session">> \in rights'[b]
         /\ Needs[call'[b].route] # "session" =>
              <<lookup'[b].id, Needs[call'[b].route]>> \in rights'[b]
         /\ call'[b].mine => call'[b].of = lookup'[b].id
  /\ \A i \in Ids :
       /\ reviewOf'[i] # Nothing => (Live(i))'
       /\ reviewOf'[i] # reviewOf[i] /\ (Live(i))' =>
            \E b \in Callers : LET mine == {<<lookup[b].id, r>> : r \in {"session", "moderator"}} IN
              /\ call[b].at = "core" /\ call'[b].at # "core"
              /\ mine \cap rights[b] # {}
              /\ lookup[b].id = i \/ <<lookup[b].id, "moderator">> \in rights[b]
  /\ listed' # listed =>
       \E b \in Callers : <<lookup[b].id, "catalogue_manager">> \in rights[b]

ServedByRight == [][ServesByRight]_routeVars
=============================================================================
