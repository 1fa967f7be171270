------------------------------ MODULE Accounts ------------------------------
(***************************************************************************)
(* Accounts, sign-in by magic link and sessions (src/packages/auth over    *)
(* better-auth).  An identity is the library's row, an app_user the row    *)
(* the application owns beside it.  One action per statement or call, for  *)
(* nothing holds a transaction across two of them.  The library's own      *)
(* statements are external: modelled as the hooks and the schema           *)
(* (migration 0003) see them.                                              *)
(***************************************************************************)
EXTENDS Integers, FiniteSets

CONSTANTS
  Browsers,
  Callers,        \* bound: those in use where other modules add actors of their own
  Addresses,
  Allowed,        \* the addresses that may sign up: all of them when the posture is open
  Caps,           \* catalogue_manager and moderator
  MaxIdentities,  \* bound: rows ever inserted in auth.identity
  LinkLife, SessionLife,     \* days until a link, a session expires
  LinkRetain, SessionRetain, \* days it is retained after that
  LastDay,        \* bound: the calendar's last day
  Nothing

ASSUME AccountAssumption ==
  /\ Callers \subseteq Browsers
  /\ Allowed \subseteq Addresses
  /\ LinkRetain \in Nat \ {0} /\ SessionRetain \in Nat \ {0}
  /\ LinkLife \in Nat /\ SessionLife \in Nat
  /\ MaxIdentities \in Nat /\ LastDay \in Nat

Users == [token : Browsers \cup {"seed"}, caps : SUBSET Caps]
Links == [address : Addresses, expires : Nat, mailed : BOOLEAN]
Sessions == [id : 1 .. MaxIdentities, expires : Nat]
SignIns ==
  {s \in [at : {"out", "unknown", "known", "inserted", "provisioned"},
          address : Addresses \cup {Nothing}, id : 0 .. MaxIdentities] :
     /\ s.at = "unknown" => s.address \in Addresses
     /\ s.at \in {"known", "inserted", "provisioned"} => s.id # 0}
Lookups ==
  {l \in [at : {"none", "found", "anonymous", "known", "inconsistent"},
          id : 0 .. MaxIdentities, caps : SUBSET Caps] :
     l.at \in {"found", "known", "inconsistent"} => l.id # 0}

ASSUME NothingAssumption == Nothing \notin Users \cup Links \cup Sessions

VARIABLES
  today,
  identity,  \* the identity of each address, 0 for none
  issued,    \* identities ever inserted
  appUser,   \* the app_user of each identity
  link,      \* the link last asked for in each browser: a row of auth.verification
  session,   \* the row of auth.session each browser's cookie names
  signIn,    \* where each browser's sign-in is
  lookup     \* where each browser's request is in resolveRequestSession

rows == <<identity, issued, appUser, link, session>>
accountVars == <<today, rows, signIn, lookup>>

Ids == 1 .. MaxIdentities
Out == [at |-> "out", address |-> Nothing, id |-> 0]
NoLookup == [at |-> "none", id |-> 0, caps |-> {}]
Live(id) == \E a \in Addresses : identity[a] = id /\ id # 0

AccountsInit ==
  /\ today = 0 /\ issued = 0
  /\ identity = [a \in Addresses |-> 0]
  /\ appUser = [i \in Ids |-> Nothing]
  /\ link = [b \in Browsers |-> Nothing]
  /\ session = [b \in Browsers |-> Nothing]
  /\ signIn = [b \in Browsers |-> Out]
  /\ lookup = [b \in Browsers |-> NoLookup]

NewUser(by, caps) == [token |-> by, caps |-> caps]

InsertIdentity(a) ==
  /\ issued < MaxIdentities
  /\ issued' = issued + 1
  /\ identity' = [identity EXCEPT ![a] = issued + 1]

GoesOut(b) == signIn' = [signIn EXCEPT ![b] = Out]

(******************************** sign-in *********************************)

\* The link is stored, then sendMagicLink asks the address's bucket, renders and
\* sends: a refusal (429) or a transport that fails (503) leaves a link nobody has.
AskLink(b, a) ==
  /\ signIn[b] = Out /\ session[b] = Nothing
  /\ \E mailed \in BOOLEAN :
       link' = [link EXCEPT ![b] = [address |-> a, expires |-> today + LinkLife, mailed |-> mailed]]
  /\ UNCHANGED <<today, identity, issued, appUser, session, signIn, lookup>>

\* The link is consumed, once, and its address may have an identity.
FollowLink(b) ==
  /\ signIn[b] = Out /\ session[b] = Nothing
  /\ link[b] # Nothing /\ link[b].mailed /\ today <= link[b].expires
  /\ LET a == link[b].address IN
     signIn' = [signIn EXCEPT ![b] =
       [at |-> IF identity[a] = 0 THEN "unknown" ELSE "known", address |-> a, id |-> identity[a]]]
  /\ link' = [link EXCEPT ![b] = Nothing]
  /\ UNCHANGED <<today, identity, issued, appUser, session, lookup>>

\* user.create.before refuses an address the posture does not admit (403); the
\* unique address refuses the second of two first sign-ins.
SignUp(b) ==
  /\ signIn[b].at = "unknown"
  /\ LET a == signIn[b].address IN
     IF a \notin Allowed \/ identity[a] # 0
       THEN GoesOut(b) /\ UNCHANGED <<identity, issued>>
       ELSE /\ InsertIdentity(a)
            /\ signIn' = [signIn EXCEPT ![b].at = "known", ![b].id = issued + 1]
  /\ UNCHANGED <<today, appUser, link, session, lookup>>

\* session.create.before: INSERT ... ON CONFLICT DO NOTHING.  The foreign key
\* refuses an identity that was erased.
Provision(b) ==
  /\ signIn[b].at = "known"
  /\ IF Live(signIn[b].id)
       THEN /\ appUser' = [appUser EXCEPT ![signIn[b].id] =
                             IF @ = Nothing THEN NewUser(b, {}) ELSE @]
            /\ signIn' = [signIn EXCEPT ![b].at = "inserted"]
       ELSE GoesOut(b) /\ UNCHANGED appUser
  /\ UNCHANGED <<today, identity, issued, link, session, lookup>>

\* The row is read back; one that is gone fails the sign-in.
ReadBack(b) ==
  /\ signIn[b].at = "inserted"
  /\ IF appUser[signIn[b].id] # Nothing
       THEN signIn' = [signIn EXCEPT ![b].at = "provisioned"]
       ELSE GoesOut(b)
  /\ UNCHANGED <<today, rows, lookup>>

\* Mutant: the app_user is made in user.create.after, beside the session.
CreateSessionAtOnce(b) ==
  /\ signIn[b].at \in {"known", "provisioned"}
  /\ IF Live(signIn[b].id)
       THEN session' = [session EXCEPT ![b] =
                          [id |-> signIn[b].id, expires |-> today + SessionLife]]
       ELSE UNCHANGED session
  /\ GoesOut(b)
  /\ UNCHANGED <<today, identity, issued, appUser, link, lookup>>
\* The session is inserted once its hook has returned.
CreateSession(b) ==
  /\ signIn[b].at = "provisioned"
  /\ IF Live(signIn[b].id)
       THEN session' = [session EXCEPT ![b] =
                          [id |-> signIn[b].id, expires |-> today + SessionLife]]
       ELSE UNCHANGED session
  /\ GoesOut(b)
  /\ UNCHANGED <<today, identity, issued, appUser, link, lookup>>

\* The process dies, or a statement fails, between any two of them.
LoseSignIn(b) ==
  /\ signIn[b] # Out
  /\ GoesOut(b)
  /\ UNCHANGED <<today, rows, lookup>>

SignOut(b) ==
  /\ session[b] # Nothing
  /\ session' = [session EXCEPT ![b] = Nothing]
  /\ UNCHANGED <<today, identity, issued, appUser, link, signIn, lookup>>

(******************************** requests ********************************)

\* getSession: a row that has not expired, or an anonymous caller.
FindSession(b) ==
  /\ lookup[b].at = "none"
  /\ lookup' = [lookup EXCEPT ![b] =
       IF session[b] # Nothing /\ today <= session[b].expires
         THEN [@ EXCEPT !.at = "found", !.id = session[b].id]
         ELSE [@ EXCEPT !.at = "anonymous"]]
  /\ UNCHANGED <<today, rows, signIn>>

\* The app_user's row: without one the answer is an InternalError.
FindUser(b) ==
  /\ lookup[b].at = "found"
  /\ lookup' = [lookup EXCEPT ![b] =
       IF appUser[@.id] = Nothing THEN [@ EXCEPT !.at = "inconsistent"]
                                  ELSE [@ EXCEPT !.at = "known", !.caps = appUser[lookup[b].id].caps]]
  /\ UNCHANGED <<today, rows, signIn>>

\* The request is over, and nothing of what it resolved is kept.
Forget(b) ==
  /\ lookup[b].at \in {"anonymous", "known", "inconsistent"}
  /\ lookup' = [lookup EXCEPT ![b] = NoLookup]
  /\ UNCHANGED <<today, rows, signIn>>

(******************************* operators ********************************)

\* ON DELETE CASCADE: the identity's sessions and its app_user go with it.
Erase(a) ==
  /\ identity[a] # 0
  /\ identity' = [identity EXCEPT ![a] = 0]
  /\ appUser' = [appUser EXCEPT ![identity[a]] = Nothing]
  /\ session' = [b \in Browsers |->
       IF session[b] # Nothing /\ session[b].id = identity[a] THEN Nothing ELSE session[b]]
  /\ UNCHANGED <<today, issued, link, signIn, lookup>>

\* A capability is granted by hand.
Grant(i, cap) ==
  /\ appUser[i] # Nothing
  /\ appUser' = [appUser EXCEPT ![i].caps = @ \cup {cap}]
  /\ UNCHANGED <<today, identity, issued, link, session, signIn, lookup>>

(******************************* retention ********************************)

\* expires_at < now() - retainMs.
Overdue(expires, retain) == expires + retain < today

\* One row of a batch; LIMIT takes them in no order.
PurgeSession(b) ==
  /\ session[b] # Nothing
  /\ Overdue(session[b].expires, SessionRetain)
  /\ session' = [session EXCEPT ![b] = Nothing]
  /\ UNCHANGED <<today, identity, issued, appUser, link, signIn, lookup>>

PurgeLink(b) ==
  /\ link[b] # Nothing
  /\ Overdue(link[b].expires, LinkRetain)
  /\ link' = [link EXCEPT ![b] = Nothing]
  /\ UNCHANGED <<today, identity, issued, appUser, session, signIn, lookup>>

NextDay ==
  /\ today < LastDay
  /\ today' = today + 1
  /\ UNCHANGED <<rows, signIn, lookup>>

\* What changes accounts; a request in resolveRequestSession only reads them.
AccountStep(browsers) ==
  \/ \E b \in browsers :
       \/ \E a \in Addresses : AskLink(b, a)
       \/ FollowLink(b) \/ SignUp(b) \/ Provision(b) \/ ReadBack(b) \/ CreateSession(b)
       \/ LoseSignIn(b) \/ SignOut(b)
       \/ PurgeSession(b) \/ PurgeLink(b)
  \/ \E i \in Ids, cap \in Caps : Grant(i, cap)
  \/ NextDay

AccountsNext ==
  \/ AccountStep(Browsers)
  \/ \E b \in Browsers : FindSession(b) \/ FindUser(b) \/ Forget(b)
  \/ \E a \in Addresses : Erase(a)

AccountsSpec == AccountsInit /\ [][AccountsNext]_accountVars

(******************************* properties *******************************)

AccountsTypeOK ==
  /\ today \in 0 .. LastDay
  /\ issued \in 0 .. MaxIdentities
  /\ identity \in [Addresses -> 0 .. issued]
  /\ appUser \in [Ids -> Users \cup {Nothing}]
  /\ link \in [Browsers -> Links \cup {Nothing}]
  /\ session \in [Browsers -> Sessions \cup {Nothing}]
  /\ signIn \in [Browsers -> SignIns]
  /\ lookup \in [Browsers -> Lookups]
  /\ \A b \in Browsers : signIn[b].id <= issued /\ lookup[b].id <= issued

\* factory.ts:341-356, session-middleware.ts:49-51: whatever sign-ins, seeds and
\* erasures race, every session's identity has its app_user, and a request meets
\* one that has none only if the account was erased between its two reads.
SessionsHaveUsers ==
  \A b \in Browsers :
    /\ session[b] # Nothing => appUser[session[b].id] # Nothing
    /\ lookup[b].at = "inconsistent" => ~Live(lookup[b].id)

\* factory.ts:167-177, seed.ts:63-66, retention.ts:31-37: while an account exists
\* its public token never changes and it loses no capability, whoever provisions
\* it again; a session or a link that has not expired is taken from a browser only
\* by its user or with the account.
KeepsAccounts ==
  /\ \A i \in Ids :
       appUser[i] # Nothing /\ appUser'[i] # Nothing =>
         /\ appUser'[i].token = appUser[i].token
         /\ appUser[i].caps \subseteq appUser'[i].caps
  /\ \A i \in Ids : appUser[i] # Nothing /\ appUser'[i] = Nothing => ~(Live(i))'
  /\ \A b \in Browsers :
       /\ session[b] # Nothing /\ today <= session[b].expires /\ session'[b] = Nothing =>
            \/ SignOut(b)
            \/ \E a \in Addresses : identity[a] = session[b].id /\ identity'[a] = 0
       /\ link[b] # Nothing /\ today <= link[b].expires /\ link'[b] = Nothing =>
            FollowLink(b)

AccountsKept == [][KeepsAccounts]_accountVars
=============================================================================
