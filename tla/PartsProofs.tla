----------------------------- MODULE PartsProofs -----------------------------
(***************************************************************************)
(* The parts of the repository that have nothing to say to one another.    *)
(*                                                                         *)
(* Accounts, Seed and Routes for any browsers, addresses, capabilities and *)
(* lifetimes.  AccountsInv is what the rows, the sign-ins and the lookups  *)
(* owe one another; every statement of the library, of the seed and of an  *)
(* operator keeps it.  On it stand that accounts are kept, what a seed     *)
(* that ends well leaves, and that a request is served only by a right     *)
(* its user had and answered what its route may answer.                    *)
(*                                                                         *)
(* Extraction for any workspaces: ToolInv is inductive; a package is built *)
(* after what it depends on, and the verdict is that of the workspace.     *)
(*                                                                         *)
(* Migrations for any runners and any histories of releases: MigrationsInv *)
(* is inductive; whatever runners race, the files are applied once each,   *)
(* in the order of their names.                                            *)
(***************************************************************************)
EXTENDS Seed, Routes, Extraction, Migrations, FiniteSetTheorems, TLAPS

\* Identities are not shared; an app_user belongs to a live identity (its foreign
\* key), and a session to an app_user (the hook that comes before it).
RowsInv ==
  /\ \A a, c \in Addresses : identity[a] = identity[c] /\ identity[a] # 0 => a = c
  /\ \A i \in Ids : appUser[i] # Nothing => Live(i)
  /\ \A b \in Browsers : session[b] # Nothing => appUser[session[b].id] # Nothing

\* What a sign-in, or a lookup, has seen of an identity still holds while it lives.
PathsInv ==
  \A b \in Browsers :
    /\ signIn[b].at = "provisioned" /\ Live(signIn[b].id) => appUser[signIn[b].id] # Nothing
    /\ lookup[b].at = "found" /\ Live(lookup[b].id) => appUser[lookup[b].id] # Nothing
    /\ lookup[b].at = "inconsistent" => ~Live(lookup[b].id)

AccountsInv == AccountsTypeOK /\ RowsInv /\ PathsInv

-----------------------------------------------------------------------------
(* Accounts. *)

LEMMA AccountsInitHolds == AccountsInit => AccountsInv
BY AccountAssumption
   DEF AccountsInit, AccountsInv, AccountsTypeOK, RowsInv, PathsInv, Out, NoLookup, Live, Ids,
       SignIns, Lookups

\* An identity that a sign-in or a lookup holds has been inserted.
LEMMA IdentitiesHeld ==
  ASSUME AccountsTypeOK
  PROVE  /\ issued \in Nat /\ MaxIdentities \in Nat /\ issued <= MaxIdentities
         /\ \A b \in Browsers :
              /\ signIn[b] \in SignIns /\ signIn[b].id \in 0 .. issued
              /\ signIn[b].at \in {"known", "inserted", "provisioned"} => signIn[b].id \in Ids
              /\ lookup[b] \in Lookups /\ lookup[b].id \in 0 .. issued
              /\ lookup[b].at \in {"found", "known", "inconsistent"} => lookup[b].id \in Ids
<1>1. issued \in Nat /\ MaxIdentities \in Nat /\ issued <= MaxIdentities
  BY AccountAssumption DEF AccountsTypeOK
<1>2. ASSUME NEW b \in Browsers
      PROVE  /\ signIn[b] \in SignIns /\ signIn[b].id \in 0 .. issued
             /\ signIn[b].at \in {"known", "inserted", "provisioned"} => signIn[b].id \in Ids
  <2>1. signIn[b] \in SignIns /\ signIn[b].id <= issued
    BY DEF AccountsTypeOK
  <2>2. /\ signIn[b].id \in 0 .. MaxIdentities
        /\ signIn[b].at \in {"known", "inserted", "provisioned"} => signIn[b].id # 0
    BY <2>1 DEF SignIns
  <2> QED BY <1>1, <2>1, <2>2 DEF Ids
<1>3. ASSUME NEW b \in Browsers
      PROVE  /\ lookup[b] \in Lookups /\ lookup[b].id \in 0 .. issued
             /\ lookup[b].at \in {"found", "known", "inconsistent"} => lookup[b].id \in Ids
  <2>1. lookup[b] \in Lookups /\ lookup[b].id <= issued
    BY DEF AccountsTypeOK
  <2>2. /\ lookup[b].id \in 0 .. MaxIdentities
        /\ lookup[b].at \in {"found", "known", "inconsistent"} => lookup[b].id # 0
    BY <2>1 DEF Lookups
  <2> QED BY <1>1, <2>1, <2>2 DEF Ids
<1> QED BY <1>1, <1>2, <1>3

\* The identity inserted is nobody's: the others live as they did.
LEMMA FreshIdentity ==
  ASSUME AccountsInv, NEW a \in Addresses, identity[a] = 0, InsertIdentity(a)
  PROVE  /\ issued' \in 0 .. MaxIdentities /\ issued' = issued + 1 /\ issued \in Nat
         /\ identity' \in [Addresses -> 0 .. issued']
         /\ \A c, d \in Addresses : identity'[c] = identity'[d] /\ identity'[c] # 0 => c = d
         /\ \A i \in 0 .. issued : Live(i)' <=> Live(i)
         /\ ~Live(issued + 1)
<1>1. /\ issued \in Nat /\ MaxIdentities \in Nat /\ issued < MaxIdentities
      /\ identity \in [Addresses -> 0 .. issued]
      /\ issued' = issued + 1 /\ identity' = [identity EXCEPT ![a] = issued + 1]
  BY AccountAssumption DEF AccountsInv, AccountsTypeOK, InsertIdentity
<1>2. \A c \in Addresses : identity[c] \in 0 .. issued /\ identity[c] # issued + 1
  BY <1>1
<1>3. \A c \in Addresses : identity'[c] = IF c = a THEN issued + 1 ELSE identity[c]
  BY <1>1
<1>4. \A c, d \in Addresses : identity'[c] = identity'[d] /\ identity'[c] # 0 => c = d
  BY <1>2, <1>3 DEF AccountsInv, RowsInv
<1>5. identity' \in [Addresses -> 0 .. issued']
  BY <1>1
<1>6. ~Live(issued + 1)
  BY <1>2 DEF Live
<1>7. ASSUME NEW i \in 0 .. issued PROVE Live(i)' <=> Live(i)
  <2>1. i # issued + 1
    BY <1>1
  <2> QED BY <1>3, <2>1 DEF Live
<1> QED BY <1>1, <1>4, <1>5, <1>6, <1>7

\* Rows that go, or a session whose user is there, break none of it.
LEMMA RowsStay ==
  ASSUME AccountsInv, AccountsTypeOK', UNCHANGED <<identity, issued>>,
         \A i \in Ids : /\ appUser[i] # Nothing => appUser'[i] # Nothing
                        /\ appUser'[i] # Nothing => appUser[i] # Nothing \/ Live(i),
         \A b \in Browsers :
           session'[b] # Nothing => session'[b] = session[b] \/ appUser'[session'[b].id] # Nothing,
         \A b \in Browsers :
           /\ signIn'[b] = signIn[b] \/ signIn'[b].at # "provisioned" \/ appUser'[signIn'[b].id] # Nothing
           /\ \/ lookup'[b] = lookup[b] \/ lookup'[b].at \notin {"found", "inconsistent"}
              \/ lookup'[b].at = "found" /\ appUser'[lookup'[b].id] # Nothing
              \/ lookup'[b].at = "inconsistent" /\ ~Live(lookup'[b].id)
  PROVE  AccountsInv'
<1>1. \A i : Live(i)' <=> Live(i)
  BY DEF Live
<1>2. RowsInv'
  BY <1>1 DEF AccountsInv, AccountsTypeOK, RowsInv, Sessions, Ids
<1>3. \A b \in Browsers : /\ signIn[b].at = "provisioned" /\ Live(signIn[b].id) => signIn[b].id \in Ids
                          /\ lookup[b].at = "found" /\ Live(lookup[b].id) => lookup[b].id \in Ids
  BY IdentitiesHeld DEF AccountsInv
<1>4. PathsInv'
  BY <1>1, <1>3 DEF AccountsInv, PathsInv
<1> QED BY <1>2, <1>4 DEF AccountsInv

\* A first sign-in, or the seed, makes an account's identity.
LEMMA InsertKeeps ==
  ASSUME AccountsInv, NEW a \in Addresses, identity[a] = 0, InsertIdentity(a),
         AccountsTypeOK', UNCHANGED <<appUser, session, lookup>>,
         \A b \in Browsers : signIn'[b] = signIn[b] \/ signIn'[b].at # "provisioned"
  PROVE  AccountsInv'
<1>1. /\ \A c, d \in Addresses : identity'[c] = identity'[d] /\ identity'[c] # 0 => c = d
      /\ \A i \in 0 .. issued : Live(i)' <=> Live(i)
      /\ ~Live(issued + 1) /\ issued \in Nat
  BY FreshIdentity
<1>2. ASSUME NEW i \in Ids, appUser'[i] # Nothing PROVE Live(i)'
  <2>1. Live(i)
    BY <1>2 DEF AccountsInv, RowsInv
  <2>2. i \in 0 .. issued
    BY <2>1 DEF Live, AccountsInv, AccountsTypeOK
  <2> QED BY <1>1, <2>1, <2>2
<1>3. RowsInv'
  BY <1>1, <1>2 DEF AccountsInv, RowsInv
<1>4. \A b \in Browsers : signIn[b].id \in 0 .. issued /\ lookup[b].id \in 0 .. issued
  BY IdentitiesHeld DEF AccountsInv
<1>5. PathsInv'
  BY <1>1, <1>4 DEF AccountsInv, PathsInv
<1> QED BY <1>3, <1>5 DEF AccountsInv

\* Of all identities, only the erased one is no longer live.
LEMMA EraseEnds ==
  ASSUME AccountsInv, NEW a \in Addresses, Erase(a), NEW gone, gone = identity[a]
  PROVE  \A i : Live(i)' <=> Live(i) /\ i # gone
<1>1. identity' = [identity EXCEPT ![a] = 0] /\ gone # 0
  BY DEF Erase
<1>2. \A c \in Addresses : identity'[c] = IF c = a THEN 0 ELSE identity[c]
  BY <1>1 DEF AccountsInv, AccountsTypeOK
<1>3. \A c \in Addresses : c # a => identity[c] # gone
  BY <1>1 DEF AccountsInv, RowsInv
<1> QED BY <1>2, <1>3 DEF Live

\* An account's rows all go with it, and no other's.
LEMMA EraseKeeps ==
  ASSUME AccountsInv, NEW a \in Addresses, Erase(a)
  PROVE  AccountsInv'
<1> DEFINE gone == identity[a]
<1>1. /\ gone # 0 /\ gone \in Ids /\ issued \in 0 .. MaxIdentities
      /\ identity' = [identity EXCEPT ![a] = 0]
      /\ appUser' = [appUser EXCEPT ![gone] = Nothing]
      /\ session' = [b \in Browsers |->
           IF session[b] # Nothing /\ session[b].id = gone THEN Nothing ELSE session[b]]
      /\ UNCHANGED <<today, issued, link, signIn, lookup>>
  BY AccountAssumption DEF Erase, AccountsInv, AccountsTypeOK, Ids
<1>2. AccountsTypeOK'
  BY <1>1 DEF AccountsInv, AccountsTypeOK
<1> HIDE DEF gone
<1>3. \A i : Live(i)' <=> Live(i) /\ i # gone
  <2>1. gone = identity[a]
    BY DEF gone
  <2> QED BY <2>1, EraseEnds
<1>4. \A i \in Ids : appUser'[i] = IF i = gone THEN Nothing ELSE appUser[i]
  BY <1>1 DEF AccountsInv, AccountsTypeOK
<1>5. RowsInv'
  <2>1. \A c, d \in Addresses : identity'[c] = identity'[d] /\ identity'[c] # 0 => c = d
    BY <1>1 DEF AccountsInv, AccountsTypeOK, RowsInv
  <2>2. \A i \in Ids : appUser'[i] # Nothing => Live(i)'
    BY <1>3, <1>4 DEF AccountsInv, RowsInv
  <2>3. \A b \in Browsers : session'[b] # Nothing => appUser'[session'[b].id] # Nothing
    <3>1. \A b \in Browsers : session[b] # Nothing => session[b].id \in Ids
      BY DEF AccountsInv, AccountsTypeOK, Sessions, Ids
    <3> QED BY <1>1, <1>4, <3>1 DEF AccountsInv, RowsInv
  <2> QED BY <2>1, <2>2, <2>3 DEF RowsInv
<1>6. PathsInv'
  <2>1. \A i : Live(i) => i \in Ids
    BY AccountAssumption DEF Live, AccountsInv, AccountsTypeOK, Ids
  <2> QED BY <1>1, <1>3, <1>4, <2>1 DEF AccountsInv, PathsInv
<1> QED BY <1>2, <1>5, <1>6 DEF AccountsInv

\* One sign-in moves on; its identity has been inserted.
LEMMA SignInMoves ==
  ASSUME AccountsTypeOK, issued' \in Nat, issued' >= issued,
         NEW b \in Browsers, NEW s \in SignIns, s.id <= issued',
         signIn' = [signIn EXCEPT ![b] = s]
  PROVE  /\ signIn' \in [Browsers -> SignIns]
         /\ \A x \in Browsers : signIn'[x].id <= issued'
         /\ \A x \in Browsers : signIn'[x] = IF x = b THEN s ELSE signIn[x]
<1>1. issued \in Nat /\ \A x \in Browsers : signIn[x].id \in 0 .. issued
  BY IdentitiesHeld
<1>2. signIn \in [Browsers -> SignIns]
  BY DEF AccountsTypeOK
<1>3. \A x \in Browsers : signIn'[x] = IF x = b THEN s ELSE signIn[x]
  BY <1>2
<1> QED BY <1>1, <1>2, <1>3

LEMMA SignInsMade ==
  /\ Out \in SignIns /\ Out.at = "out" /\ Out.id = 0
  /\ \A s \in SignIns, at_ \in {"known", "inserted", "provisioned"} : s.id # 0 =>
       LET t == [s EXCEPT !.at = at_] IN t \in SignIns /\ t.at = at_ /\ t.id = s.id
BY AccountAssumption DEF SignIns, Out

\* The steps of the library, of users, of an operator and of time.
LEMMA AccountStepKeeps ==
  ASSUME AccountsInv, AccountStep(Browsers)
  PROVE  AccountsInv'
<1> USE AccountAssumption, NothingAssumption
<1>1. AccountsTypeOK /\ RowsInv /\ PathsInv
  BY DEF AccountsInv
<1>0. /\ issued \in Nat /\ issued <= MaxIdentities
      /\ \A x \in Browsers : signIn[x] \in SignIns /\ signIn[x].id \in 0 .. issued
      /\ \A x \in Browsers : signIn[x].at \in {"known", "inserted", "provisioned"} =>
                               signIn[x].id \in Ids
  BY <1>1, IdentitiesHeld
<1>2. ASSUME NEW b \in Browsers, NEW a \in Addresses, AskLink(b, a)
      PROVE  AccountsInv'
  <2>1. AccountsTypeOK'
    BY <1>1, <1>2 DEF AskLink, AccountsTypeOK, Links
  <2> QED BY <1>1, <1>2, <2>1, RowsStay DEF AskLink
<1>3. ASSUME NEW b \in Browsers, FollowLink(b)
      PROVE  AccountsInv'
  <2> DEFINE a == link[b].address
             s == [at |-> IF identity[a] = 0 THEN "unknown" ELSE "known",
                   address |-> a, id |-> identity[a]]
  <2>1. /\ signIn' = [signIn EXCEPT ![b] = s] /\ link' = [link EXCEPT ![b] = Nothing]
        /\ UNCHANGED <<today, identity, issued, appUser, session, lookup>>
    BY <1>3 DEF FollowLink
  <2>2. a \in Addresses
    <3>1. link[b] \in Links
      BY <1>1, <1>3 DEF FollowLink, AccountsTypeOK
    <3> QED BY <3>1 DEF Links
  <2>3. identity[a] \in 0 .. issued
    BY <1>1, <2>2 DEF AccountsTypeOK
  <2>4. s \in SignIns /\ s.id <= issued /\ s.at # "provisioned"
    BY <1>0, <2>2, <2>3 DEF SignIns
  <2> HIDE DEF s
  <2>5. /\ signIn' \in [Browsers -> SignIns]
        /\ \A x \in Browsers : signIn'[x].id <= issued'
        /\ \A x \in Browsers : signIn'[x] = IF x = b THEN s ELSE signIn[x]
    <3>1. issued' = issued /\ issued' \in Nat /\ issued' >= issued
      BY <1>0, <2>1
    <3>2. s.id <= issued'
      BY <2>4, <3>1
    <3> QED BY <1>1, <2>1, <2>4, <3>1, <3>2, SignInMoves
  <2>6. AccountsTypeOK'
    BY <1>1, <2>1, <2>5 DEF AccountsTypeOK
  <2> QED BY <2>1, <2>4, <2>5, <2>6, RowsStay
<1>4. ASSUME NEW b \in Browsers, SignUp(b)
      PROVE  AccountsInv'
  <2> DEFINE a == signIn[b].address
  <2>1. a \in Addresses
    BY <1>0, <1>4 DEF SignUp, SignIns
  <2>2. CASE a \notin Allowed \/ identity[a] # 0
    <3>1. /\ signIn' = [signIn EXCEPT ![b] = Out]
          /\ UNCHANGED <<today, rows, lookup>>
      BY <1>4, <2>2 DEF SignUp, GoesOut, rows
    <3>2. /\ signIn' \in [Browsers -> SignIns]
          /\ \A x \in Browsers : signIn'[x].id <= issued'
          /\ \A x \in Browsers : signIn'[x] = IF x = b THEN Out ELSE signIn[x]
      <4>1. issued' = issued /\ issued' \in Nat /\ issued' >= issued
        BY <1>0, <3>1 DEF rows
      <4>2. Out \in SignIns /\ Out.id <= issued'
        BY <1>0, <4>1, SignInsMade
      <4> QED BY <1>1, <3>1, <4>1, <4>2, SignInMoves
    <3>3. AccountsTypeOK'
      BY <1>1, <3>1, <3>2 DEF AccountsTypeOK, rows
    <3> QED BY <3>1, <3>2, <3>3, SignInsMade, RowsStay DEF rows
  <2>3. CASE ~(a \notin Allowed \/ identity[a] # 0)
    <3> DEFINE s == [signIn[b] EXCEPT !.at = "known", !.id = issued + 1]
    <3>1. /\ identity[a] = 0 /\ InsertIdentity(a)
          /\ signIn' = [signIn EXCEPT ![b] = s]
          /\ UNCHANGED <<today, appUser, link, session, lookup>>
      BY <1>4, <2>3 DEF SignUp
    <3>2. /\ issued' \in 0 .. MaxIdentities /\ issued' = issued + 1
          /\ identity' \in [Addresses -> 0 .. issued']
      BY <2>1, <3>1, FreshIdentity
    <3>3. s \in SignIns /\ s.id <= issued' /\ s.at # "provisioned"
      <4>1. s = [at |-> "known", address |-> signIn[b].address, id |-> issued + 1]
        <5>1. signIn[b] \in [at : {"out", "unknown", "known", "inserted", "provisioned"},
                             address : Addresses \cup {Nothing}, id : 0 .. MaxIdentities]
          BY <1>0 DEF SignIns
        <5>2. [signIn[b] EXCEPT !.at = "known"] =
                [at |-> "known", address |-> signIn[b].address, id |-> signIn[b].id]
          BY <5>1
        <5>3. s = [[signIn[b] EXCEPT !.at = "known"] EXCEPT !.id = issued + 1]
          OBVIOUS
        <5> HIDE DEF s
        <5> QED BY <5>2, <5>3
      <4>2. issued + 1 \in 0 .. MaxIdentities /\ issued + 1 # 0 /\ issued' = issued + 1
            /\ issued + 1 <= issued'
        BY <1>0, <3>2
      <4>3. signIn[b].address \in Addresses
        BY <2>1
      <4> HIDE DEF s
      <4> QED BY <4>1, <4>2, <4>3 DEF SignIns
    <3> HIDE DEF s
    <3>4. /\ signIn' \in [Browsers -> SignIns]
          /\ \A x \in Browsers : signIn'[x].id <= issued'
          /\ \A x \in Browsers : signIn'[x] = IF x = b THEN s ELSE signIn[x]
      <4>1. issued' \in Nat /\ issued' >= issued
        BY <1>0, <3>2
      <4> QED BY <1>1, <3>1, <3>3, <4>1, SignInMoves
    <3>5. \A x \in Browsers : lookup[x].id <= issued'
      <4>1. \A x \in Browsers : lookup[x].id \in Nat /\ lookup[x].id <= issued
        BY <1>1 DEF AccountsTypeOK, Lookups
      <4> QED BY <1>0, <3>2, <4>1
    <3>6. AccountsTypeOK'
      BY <1>1, <3>1, <3>2, <3>4, <3>5 DEF AccountsTypeOK
    <3> HIDE DEF a
    <3> QED BY <2>1, <3>1, <3>3, <3>4, <3>6, InsertKeeps
  <2> QED BY <2>2, <2>3
<1>5. ASSUME NEW b \in Browsers, Provision(b)
      PROVE  AccountsInv'
  <2> DEFINE s == IF Live(signIn[b].id) THEN [signIn[b] EXCEPT !.at = "inserted"] ELSE Out
             u == IF appUser[signIn[b].id] = Nothing THEN NewUser(b, {}) ELSE appUser[signIn[b].id]
  <2>1. /\ signIn' = [signIn EXCEPT ![b] = s]
        /\ appUser' = IF Live(signIn[b].id) THEN [appUser EXCEPT ![signIn[b].id] = u] ELSE appUser
        /\ UNCHANGED <<today, identity, issued, link, session, lookup>>
        /\ signIn[b].id \in Ids
    BY <1>0, <1>5 DEF Provision, GoesOut
  <2>2. s \in SignIns /\ s.id <= issued /\ s.at # "provisioned"
    <3>1. signIn[b].at = "known" /\ signIn[b] \in SignIns /\ signIn[b].id # 0
          /\ signIn[b].id <= issued
      BY <1>0, <1>5 DEF Provision, SignIns
    <3>2. CASE Live(signIn[b].id)
      <4>1. s = [signIn[b] EXCEPT !.at = "inserted"]
        BY <3>2
      <4> HIDE DEF s
      <4> QED BY <3>1, <4>1, SignInsMade
    <3>3. CASE ~Live(signIn[b].id)
      <4>1. s = Out
        BY <3>3
      <4> HIDE DEF s
      <4> QED BY <1>0, <4>1, SignInsMade
    <3> QED BY <3>2, <3>3
  <2>3. u \in Users /\ u # Nothing
    BY <1>1, <2>1 DEF AccountsTypeOK, NewUser, Users
  <2> HIDE DEF s, u
  <2>4. /\ signIn' \in [Browsers -> SignIns]
        /\ \A x \in Browsers : signIn'[x].id <= issued'
        /\ \A x \in Browsers : signIn'[x] = IF x = b THEN s ELSE signIn[x]
    <3>1. issued' = issued /\ issued' \in Nat /\ issued' >= issued
      BY <1>0, <2>1
    <3>2. s.id <= issued'
      BY <2>2, <3>1
    <3> QED BY <1>1, <2>1, <2>2, <3>1, <3>2, SignInMoves
  <2>5. AccountsTypeOK'
    BY <1>1, <2>1, <2>3, <2>4 DEF AccountsTypeOK
  <2>6. \A i \in Ids : /\ appUser[i] # Nothing => appUser'[i] # Nothing
                       /\ appUser'[i] # Nothing => appUser[i] # Nothing \/ Live(i)
    BY <1>1, <2>1, <2>3 DEF AccountsTypeOK
  <2> QED BY <2>1, <2>2, <2>4, <2>5, <2>6, RowsStay
<1>6. ASSUME NEW b \in Browsers, ReadBack(b)
      PROVE  AccountsInv'
  <2> DEFINE s == IF appUser[signIn[b].id] # Nothing THEN [signIn[b] EXCEPT !.at = "provisioned"]
                  ELSE Out
  <2>1. /\ signIn' = [signIn EXCEPT ![b] = s]
        /\ UNCHANGED <<today, rows, lookup>>
    BY <1>0, <1>6 DEF ReadBack, GoesOut
  <2>2. /\ s \in SignIns /\ s.id <= issued
        /\ s.at # "provisioned" \/ appUser[s.id] # Nothing
    <3>1. signIn[b].at = "inserted" /\ signIn[b] \in SignIns /\ signIn[b].id # 0
          /\ signIn[b].id <= issued
      BY <1>0, <1>6 DEF ReadBack, SignIns
    <3>2. CASE appUser[signIn[b].id] # Nothing
      <4>1. s = [signIn[b] EXCEPT !.at = "provisioned"]
        BY <3>2
      <4> HIDE DEF s
      <4> QED BY <3>1, <3>2, <4>1, SignInsMade
    <3>3. CASE appUser[signIn[b].id] = Nothing
      <4>1. s = Out
        BY <3>3
      <4> HIDE DEF s
      <4> QED BY <1>0, <4>1, SignInsMade
    <3> QED BY <3>2, <3>3
  <2> HIDE DEF s
  <2>3. /\ signIn' \in [Browsers -> SignIns]
        /\ \A x \in Browsers : signIn'[x].id <= issued'
        /\ \A x \in Browsers : signIn'[x] = IF x = b THEN s ELSE signIn[x]
    <3>1. issued' = issued /\ issued' \in Nat /\ issued' >= issued
      BY <1>0, <2>1 DEF rows
    <3>2. s.id <= issued'
      BY <2>2, <3>1
    <3> QED BY <1>1, <2>1, <2>2, <3>1, <3>2, SignInMoves
  <2>4. AccountsTypeOK'
    BY <1>1, <2>1, <2>3 DEF AccountsTypeOK, rows
  <2> QED BY <2>1, <2>2, <2>3, <2>4, RowsStay DEF rows
<1>7. ASSUME NEW b \in Browsers, CreateSession(b)
      PROVE  AccountsInv'
  <2> DEFINE row == [id |-> signIn[b].id, expires |-> today + SessionLife]
  <2>1. /\ signIn' = [signIn EXCEPT ![b] = Out]
        /\ session' = IF Live(signIn[b].id) THEN [session EXCEPT ![b] = row] ELSE session
        /\ UNCHANGED <<today, identity, issued, appUser, link, lookup>>
    BY <1>7 DEF CreateSession, GoesOut
  <2>2. row \in Sessions /\ (Live(signIn[b].id) => appUser[row.id] # Nothing)
    BY <1>0, <1>1, <1>7 DEF CreateSession, Sessions, Ids, AccountsTypeOK, PathsInv
  <2> HIDE DEF row
  <2>3. /\ signIn' \in [Browsers -> SignIns]
        /\ \A x \in Browsers : signIn'[x].id <= issued'
        /\ \A x \in Browsers : signIn'[x] = IF x = b THEN Out ELSE signIn[x]
    <3>1. issued' = issued /\ issued' \in Nat /\ issued' >= issued
      BY <1>0, <2>1
    <3>2. Out \in SignIns /\ Out.id <= issued'
      BY <1>0, <3>1, SignInsMade
    <3> QED BY <1>1, <2>1, <3>1, <3>2, SignInMoves
  <2>4. AccountsTypeOK'
    BY <1>1, <2>1, <2>2, <2>3 DEF AccountsTypeOK
  <2>5. \A x \in Browsers :
          session'[x] # Nothing => session'[x] = session[x] \/ appUser'[session'[x].id] # Nothing
    BY <1>1, <2>1, <2>2 DEF AccountsTypeOK
  <2> QED BY <2>1, <2>3, <2>4, <2>5, SignInsMade, RowsStay
<1>8. ASSUME NEW b \in Browsers, LoseSignIn(b)
      PROVE  AccountsInv'
  <2>1. signIn' = [signIn EXCEPT ![b] = Out] /\ UNCHANGED <<today, rows, lookup>>
    BY <1>8 DEF LoseSignIn, GoesOut
  <2>2. /\ signIn' \in [Browsers -> SignIns]
        /\ \A x \in Browsers : signIn'[x].id <= issued'
        /\ \A x \in Browsers : signIn'[x] = IF x = b THEN Out ELSE signIn[x]
    <3>1. issued' = issued /\ issued' \in Nat /\ issued' >= issued
      BY <1>0, <2>1 DEF rows
    <3>2. Out \in SignIns /\ Out.id <= issued'
      BY <1>0, <3>1, SignInsMade
    <3> QED BY <1>1, <2>1, <3>1, <3>2, SignInMoves
  <2>3. AccountsTypeOK'
    BY <1>1, <2>1, <2>2 DEF AccountsTypeOK, rows
  <2> QED BY <2>1, <2>2, <2>3, SignInsMade, RowsStay DEF rows
<1>9. ASSUME NEW b \in Browsers, SignOut(b) \/ PurgeSession(b) \/ PurgeLink(b)
      PROVE  AccountsInv'
  <2>1. AccountsTypeOK'
    BY <1>1, <1>9 DEF SignOut, PurgeSession, PurgeLink, AccountsTypeOK
  <2>2. \A x \in Browsers : session'[x] # Nothing => session'[x] = session[x]
    BY <1>1, <1>9 DEF SignOut, PurgeSession, PurgeLink, AccountsTypeOK
  <2> QED BY <1>9, <2>1, <2>2, RowsStay DEF SignOut, PurgeSession, PurgeLink
<1>10. ASSUME NEW i \in Ids, NEW cap \in Caps, Grant(i, cap)
       PROVE  AccountsInv'
  <2> DEFINE u == [appUser[i] EXCEPT !.caps = @ \cup {cap}]
  <2>1. appUser[i] \in Users /\ appUser[i] # Nothing
    BY <1>1, <1>10 DEF Grant, AccountsTypeOK
  <2>2. appUser' = [appUser EXCEPT ![i] = u]
    BY <1>10 DEF Grant
  <2>3. u \in Users /\ u # Nothing
    <3>1. u \in Users
      BY <2>1 DEF Users
    <3> QED BY <3>1
  <2> HIDE DEF u
  <2>4. AccountsTypeOK'
    BY <1>1, <1>10, <2>2, <2>3 DEF Grant, AccountsTypeOK
  <2>5. \A j \in Ids : appUser[j] # Nothing <=> appUser'[j] # Nothing
    BY <1>1, <2>1, <2>2, <2>3 DEF AccountsTypeOK
  <2> QED BY <1>10, <2>4, <2>5, RowsStay DEF Grant
<1>11. ASSUME NextDay
       PROVE  AccountsInv'
  <2>1. AccountsTypeOK'
    BY <1>1, <1>11 DEF NextDay, rows, AccountsTypeOK
  <2> QED BY <1>11, <2>1, RowsStay DEF NextDay, rows
<1> QED BY <1>2, <1>3, <1>4, <1>5, <1>6, <1>7, <1>8, <1>9, <1>10, <1>11 DEF AccountStep

\* A request in resolveRequestSession.
LEMMA LookupKeeps ==
  ASSUME AccountsInv, NEW b \in Browsers, FindSession(b) \/ FindUser(b) \/ Forget(b)
  PROVE  AccountsInv'
<1> USE AccountAssumption, NothingAssumption
<1>1. AccountsTypeOK /\ RowsInv /\ PathsInv
  BY DEF AccountsInv
<1>0. /\ lookup[b] \in Lookups /\ lookup[b].id \in 0 .. issued
      /\ issued \in Nat /\ issued <= MaxIdentities
  BY <1>1, IdentitiesHeld
<1>2. CASE FindSession(b)
  <2>1. session[b] # Nothing => /\ session[b].id \in 1 .. issued
                                /\ appUser[session[b].id] # Nothing
    <3>1. session[b] # Nothing => session[b].id \in Ids /\ appUser[session[b].id] # Nothing
      BY <1>1 DEF AccountsTypeOK, RowsInv, Sessions, Ids
    <3>2. session[b] # Nothing => Live(session[b].id)
      BY <1>1, <3>1 DEF RowsInv
    <3> QED BY <1>1, <3>1, <3>2 DEF Live, AccountsTypeOK, Ids
  <2> DEFINE l == IF session[b] # Nothing /\ today <= session[b].expires
                    THEN [lookup[b] EXCEPT !.at = "found", !.id = session[b].id]
                    ELSE [lookup[b] EXCEPT !.at = "anonymous"]
  <2>4. lookup' = [lookup EXCEPT ![b] = l] /\ UNCHANGED <<today, rows, signIn>>
    BY <1>2 DEF FindSession
  <2>5. l \in Lookups /\ l.id <= issued
    <3>1. CASE session[b] # Nothing /\ today <= session[b].expires
      <4>1. l = [at |-> "found", id |-> session[b].id, caps |-> lookup[b].caps]
        BY <1>0, <3>1 DEF Lookups
      <4>2. session[b].id \in 1 .. issued /\ session[b].id \in 0 .. MaxIdentities
        BY <1>0, <2>1, <3>1
      <4>3. lookup[b].caps \in SUBSET Caps
        BY <1>0 DEF Lookups
      <4> HIDE DEF l
      <4> QED BY <1>0, <4>1, <4>2, <4>3 DEF Lookups
    <3>2. CASE ~(session[b] # Nothing /\ today <= session[b].expires)
      <4>1. l = [at |-> "anonymous", id |-> lookup[b].id, caps |-> lookup[b].caps]
        BY <1>0, <3>2 DEF Lookups
      <4>2. lookup[b].id \in 0 .. MaxIdentities /\ lookup[b].caps \in SUBSET Caps
        BY <1>0 DEF Lookups
      <4> HIDE DEF l
      <4> QED BY <1>0, <4>1, <4>2 DEF Lookups
    <3> QED BY <3>1, <3>2
  <2>2. AccountsTypeOK'
    <3> HIDE DEF l
    <3> QED BY <1>1, <2>4, <2>5 DEF rows, AccountsTypeOK
  <2>3. \A x \in Browsers :
          \/ lookup'[x] = lookup[x] \/ lookup'[x].at \notin {"found", "inconsistent"}
          \/ lookup'[x].at = "found" /\ appUser'[lookup'[x].id] # Nothing
    BY <1>1, <1>2, <2>1 DEF FindSession, rows, AccountsTypeOK
  <2> QED BY <1>2, <2>2, <2>3, RowsStay DEF FindSession, rows
<1>3. CASE FindUser(b)
  <2>1. lookup[b].id \in Ids
    BY <1>0, <1>3 DEF FindUser, Lookups, Ids
  <2>2. appUser[lookup[b].id] # Nothing => appUser[lookup[b].id].caps \in SUBSET Caps
    BY <1>1, <2>1 DEF AccountsTypeOK, Users
  <2> DEFINE l == IF appUser[lookup[b].id] = Nothing THEN [lookup[b] EXCEPT !.at = "inconsistent"]
                  ELSE [lookup[b] EXCEPT !.at = "known", !.caps = appUser[lookup[b].id].caps]
  <2>3. lookup' = [lookup EXCEPT ![b] = l] /\ UNCHANGED <<today, rows, signIn>>
    BY <1>3 DEF FindUser
  <2>6. l \in Lookups /\ l.id <= issued
    <3>1. lookup[b].id \in 0 .. MaxIdentities /\ lookup[b].caps \in SUBSET Caps
          /\ lookup[b].id # 0
      BY <1>0, <2>1 DEF Lookups, Ids
    <3>2. CASE appUser[lookup[b].id] = Nothing
      <4>1. l = [at |-> "inconsistent", id |-> lookup[b].id, caps |-> lookup[b].caps]
        BY <1>0, <3>2 DEF Lookups
      <4> HIDE DEF l
      <4> QED BY <1>0, <3>1, <4>1 DEF Lookups
    <3>3. CASE appUser[lookup[b].id] # Nothing
      <4>1. l = [at |-> "known", id |-> lookup[b].id, caps |-> appUser[lookup[b].id].caps]
        BY <1>0, <3>3 DEF Lookups
      <4> HIDE DEF l
      <4> QED BY <1>0, <2>2, <3>1, <3>3, <4>1 DEF Lookups
    <3> QED BY <3>2, <3>3
  <2>4. AccountsTypeOK'
    <3> HIDE DEF l
    <3> QED BY <1>1, <2>3, <2>6 DEF rows, AccountsTypeOK
  <2>5. \A x \in Browsers :
          \/ lookup'[x] = lookup[x] \/ lookup'[x].at \notin {"found", "inconsistent"}
          \/ lookup'[x].at = "inconsistent" /\ ~Live(lookup'[x].id)
    BY <1>1, <1>3, <2>3 DEF FindUser, AccountsTypeOK, PathsInv
  <2> QED BY <1>3, <2>4, <2>5, RowsStay DEF FindUser, rows
<1>4. CASE Forget(b)
  <2>1. AccountsTypeOK'
    BY <1>1, <1>4 DEF Forget, rows, NoLookup, Lookups, AccountsTypeOK
  <2>2. \A x \in Browsers : lookup'[x] = lookup[x] \/ lookup'[x].at \notin {"found", "inconsistent"}
    BY <1>1, <1>4 DEF Forget, NoLookup, AccountsTypeOK
  <2> QED BY <1>4, <2>1, <2>2, RowsStay DEF Forget, rows
<1> QED BY <1>2, <1>3, <1>4

-----------------------------------------------------------------------------
(* No step takes from an account what it has. *)

LEMMA UntouchedKept ==
  ASSUME UNCHANGED <<appUser, session, link>>
  PROVE  KeepsAccounts
BY DEF KeepsAccounts

LEMMA AccountStepKept ==
  ASSUME AccountsInv, AccountStep(Browsers)
  PROVE  KeepsAccounts
<1> USE AccountAssumption, NothingAssumption
<1>1. /\ AccountsTypeOK
      /\ appUser \in [Ids -> Users \cup {Nothing}]
      /\ session \in [Browsers -> Sessions \cup {Nothing}]
      /\ link \in [Browsers -> Links \cup {Nothing}]
      /\ today \in Nat
  BY DEF AccountsInv, AccountsTypeOK
<1>2. ASSUME NEW b \in Browsers, NEW a \in Addresses, AskLink(b, a)
      PROVE  KeepsAccounts
  <2>1. PICK mailed \in BOOLEAN :
          link' = [link EXCEPT ![b] = [address |-> a, expires |-> today + LinkLife, mailed |-> mailed]]
    BY <1>2 DEF AskLink
  <2>2. [address |-> a, expires |-> today + LinkLife, mailed |-> mailed] \in Links
    BY <1>1 DEF Links
  <2>3. \A x \in Browsers : link'[x] = link[x] \/ link'[x] \in Links
    BY <1>1, <2>1, <2>2
  <2> QED BY <1>2, <2>3 DEF AskLink, KeepsAccounts
<1>3. ASSUME NEW b \in Browsers, FollowLink(b)
      PROVE  KeepsAccounts
  <2>1. link' = [link EXCEPT ![b] = Nothing] /\ UNCHANGED <<appUser, session>>
    BY <1>3 DEF FollowLink
  <2>2. \A x \in Browsers : link'[x] = link[x] \/ FollowLink(x)
    BY <1>1, <1>3, <2>1
  <2> QED BY <2>1, <2>2 DEF KeepsAccounts
<1>4. ASSUME NEW b \in Browsers, SignUp(b) \/ ReadBack(b) \/ LoseSignIn(b)
      PROVE  KeepsAccounts
  BY <1>4, UntouchedKept DEF SignUp, ReadBack, LoseSignIn, rows
<1>5. ASSUME NEW b \in Browsers, Provision(b)
      PROVE  KeepsAccounts
  <2>1. UNCHANGED <<session, link>>
        /\ \A i \in Ids : appUser[i] # Nothing => appUser'[i] = appUser[i]
    BY <1>1, <1>5 DEF Provision
  <2> QED BY <1>1, <2>1 DEF KeepsAccounts
<1>6. ASSUME NEW b \in Browsers, CreateSession(b)
      PROVE  KeepsAccounts
  <2> DEFINE row == [id |-> signIn[b].id, expires |-> today + SessionLife]
  <2>1. /\ UNCHANGED <<appUser, link>>
        /\ session' = session \/ session' = [session EXCEPT ![b] = row]
    BY <1>6 DEF CreateSession
  <2>2. row \in Sessions
    BY <1>1, <1>6, IdentitiesHeld DEF CreateSession, Sessions, Ids
  <2> HIDE DEF row
  <2>3. \A x \in Browsers : session'[x] = session[x] \/ session'[x] \in Sessions
    BY <1>1, <2>1, <2>2
  <2> QED BY <2>1, <2>3 DEF KeepsAccounts
<1>7. ASSUME NEW b \in Browsers, SignOut(b)
      PROVE  KeepsAccounts
  <2>1. session' = [session EXCEPT ![b] = Nothing] /\ UNCHANGED <<appUser, link>>
    BY <1>7 DEF SignOut
  <2>2. \A x \in Browsers : session'[x] = session[x] \/ SignOut(x)
    BY <1>1, <1>7, <2>1
  <2> QED BY <2>1, <2>2 DEF KeepsAccounts
<1>8. ASSUME NEW b \in Browsers, PurgeSession(b)
      PROVE  KeepsAccounts
  <2>1. session' = [session EXCEPT ![b] = Nothing] /\ UNCHANGED <<appUser, link>>
        /\ session[b] \in Sessions
    BY <1>1, <1>8 DEF PurgeSession
  <2>2. ~(today <= session[b].expires)
    <3>1. session[b].expires \in Nat /\ session[b].expires + SessionRetain < today
      BY <1>8, <2>1 DEF PurgeSession, Overdue, Sessions
    <3> QED BY <1>1, <3>1
  <2>3. \A x \in Browsers : session'[x] = session[x] \/ ~(today <= session[x].expires)
    BY <1>1, <2>1, <2>2
  <2> QED BY <2>1, <2>3 DEF KeepsAccounts
<1>9. ASSUME NEW b \in Browsers, PurgeLink(b)
      PROVE  KeepsAccounts
  <2>1. link' = [link EXCEPT ![b] = Nothing] /\ UNCHANGED <<appUser, session>>
        /\ link[b] \in Links
    BY <1>1, <1>9 DEF PurgeLink
  <2>2. ~(today <= link[b].expires)
    <3>1. link[b].expires \in Nat /\ link[b].expires + LinkRetain < today
      BY <1>9, <2>1 DEF PurgeLink, Overdue, Links
    <3> QED BY <1>1, <3>1
  <2>3. \A x \in Browsers : link'[x] = link[x] \/ ~(today <= link[x].expires)
    BY <1>1, <2>1, <2>2
  <2> QED BY <2>1, <2>3 DEF KeepsAccounts
<1>10. ASSUME NEW i \in Ids, NEW cap \in Caps, Grant(i, cap)
       PROVE  KeepsAccounts
  <2> DEFINE u == [appUser[i] EXCEPT !.caps = @ \cup {cap}]
  <2>1. appUser' = [appUser EXCEPT ![i] = u] /\ UNCHANGED <<session, link>>
        /\ appUser[i] \in Users
    BY <1>1, <1>10 DEF Grant
  <2>2. u.token = appUser[i].token /\ appUser[i].caps \subseteq u.caps /\ u # Nothing
    <3>1. u \in Users
      BY <2>1 DEF Users
    <3>2. u.token = appUser[i].token /\ appUser[i].caps \subseteq u.caps
      BY <2>1 DEF Users
    <3> QED BY <3>1, <3>2
  <2> HIDE DEF u
  <2> QED BY <1>1, <2>1, <2>2 DEF KeepsAccounts
<1>11. CASE NextDay
  BY <1>11, UntouchedKept DEF NextDay, rows
<1> QED BY <1>2, <1>3, <1>4, <1>5, <1>6, <1>7, <1>8, <1>9, <1>10, <1>11 DEF AccountStep

LEMMA EraseKept ==
  ASSUME AccountsInv, NEW a \in Addresses, Erase(a)
  PROVE  KeepsAccounts
<1> DEFINE gone == identity[a]
<1>1. /\ gone # 0
      /\ identity' = [identity EXCEPT ![a] = 0]
      /\ appUser' = [appUser EXCEPT ![gone] = Nothing]
      /\ session' = [b \in Browsers |->
           IF session[b] # Nothing /\ session[b].id = gone THEN Nothing ELSE session[b]]
      /\ link' = link
  BY DEF Erase
<1>2. identity'[a] = 0 /\ \A c \in Addresses : c # a => identity'[c] = identity[c]
  BY <1>1 DEF AccountsInv, AccountsTypeOK
<1>3. ASSUME NEW i, i = gone PROVE ~Live(i)'
  <2>1. \A j : Live(j)' <=> Live(j) /\ j # i
    BY <1>3, EraseEnds
  <2> QED BY <2>1
<1>4. \A i \in Ids : appUser'[i] = IF i = gone THEN Nothing ELSE appUser[i]
  <2> HIDE DEF gone
  <2> QED BY <1>1 DEF AccountsInv, AccountsTypeOK
<1>5. ASSUME NEW b \in Browsers, session[b] # Nothing, session'[b] = Nothing
      PROVE  \E c \in Addresses : identity[c] = session[b].id /\ identity'[c] = 0
  <2>1. session[b].id = gone
    BY <1>1, <1>5
  <2> QED BY <1>2, <2>1
<1> HIDE DEF gone
<1> QED BY <1>1, <1>3, <1>4, <1>5 DEF KeepsAccounts

LEMMA LookupKept ==
  ASSUME NEW b \in Browsers, FindSession(b) \/ FindUser(b) \/ Forget(b)
  PROVE  KeepsAccounts
BY UntouchedKept DEF FindSession, FindUser, Forget, rows

LEMMA AccountsUnchanged ==
  ASSUME UNCHANGED accountVars
  PROVE  KeepsAccounts /\ (AccountsInv => AccountsInv')
<1>1. UNCHANGED <<today, identity, issued, appUser, link, session, signIn, lookup>>
  BY DEF accountVars, rows
<1>2. \A i : Live(i)' <=> Live(i)
  BY <1>1 DEF Live
<1>3. AccountsInv => AccountsInv'
  BY <1>1, <1>2 DEF AccountsInv, AccountsTypeOK, RowsInv, PathsInv
<1> QED BY <1>1, <1>3, UntouchedKept

LEMMA AccountsStep == AccountsInv /\ [AccountsNext]_accountVars => AccountsInv' /\ KeepsAccounts
<1> SUFFICES ASSUME AccountsInv, [AccountsNext]_accountVars PROVE AccountsInv' /\ KeepsAccounts
  OBVIOUS
<1>1. CASE AccountStep(Browsers)
  BY <1>1, AccountStepKeeps, AccountStepKept
<1>2. ASSUME NEW b \in Browsers, FindSession(b) \/ FindUser(b) \/ Forget(b)
      PROVE  AccountsInv' /\ KeepsAccounts
  BY <1>2, LookupKeeps, LookupKept
<1>3. ASSUME NEW a \in Addresses, Erase(a)
      PROVE  AccountsInv' /\ KeepsAccounts
  BY <1>3, EraseKeeps, EraseKept
<1>4. CASE UNCHANGED accountVars
  BY <1>4, AccountsUnchanged
<1> QED BY <1>1, <1>2, <1>3, <1>4 DEF AccountsNext

LEMMA UsersOfSessions == AccountsInv => SessionsHaveUsers
BY DEF AccountsInv, RowsInv, PathsInv, SessionsHaveUsers

\* factory.ts:341-356, session-middleware.ts:49-51: a session is there only beside
\* its app_user, and a lookup that finds no app_user was overtaken by an erasure.
THEOREM UsersOfAllSessions == AccountsSpec => []SessionsHaveUsers
<1>1. AccountsSpec => []AccountsInv
  BY AccountsInitHolds, AccountsStep, PTL DEF AccountsSpec
<1> QED BY <1>1, UsersOfSessions, PTL

\* factory.ts:167-177, retention.ts:31-37: no statement of a sign-in, an operator or
\* the retention sweep changes a token, takes a capability, an unexpired session
\* or an unexpired link.
THEOREM AccountsAreKept == AccountsSpec => AccountsKept
<1>1. AccountsSpec => []AccountsInv
  BY AccountsInitHolds, AccountsStep, PTL DEF AccountsSpec
<1> QED BY <1>1, AccountsStep, PTL DEF AccountsSpec, AccountsKept

-----------------------------------------------------------------------------
(* Seed. *)

Later == {"product", "insert", "submit", "backdate", "reject", "rebuild", "done"}

\* How far the list of accounts the script is.
ScriptInv ==
  /\ at \in {"identity", "appUser"} => ensured < Len(SeedAccounts)
  /\ at \in Later => ensured = Len(SeedAccounts)

\* The k-th account is there, with what it is to have.
Owned(k) ==
  LET a == SeedAccounts[k] IN
  /\ identity[a] # 0 /\ appUser[identity[a]] # Nothing
  /\ Wanted[a] \subseteq appUser[identity[a]].caps

\* As long as nobody else wrote, each statement finds what those before it left.
LeftInv ==
  meddled = 0 =>
    /\ \A k \in 1 .. ensured : Owned(k)
    /\ at = "appUser" => author = identity[Account] /\ author # 0
    /\ product # "other"
    /\ at \in {"submit", "backdate", "reject", "rebuild", "done"} => product = "seeded"
    /\ review # Nothing => review.text = "seeded" /\ review.token = 0
    /\ at \in {"backdate", "reject", "rebuild", "done"} => review # Nothing /\ held = review.token
    /\ at \in {"reject", "rebuild", "done"} => review.dated
    /\ at \in {"rebuild", "done"} => review.state = "rejected"
    /\ at = "done" => rated = Published

SeedInv == SeedTypeOK /\ AccountsInv /\ ScriptInv /\ LeftInv

LEMMA SeedAccountsListed ==
  /\ Len(SeedAccounts) \in Nat \ {0}
  /\ \A k \in 1 .. Len(SeedAccounts) : SeedAccounts[k] \in Addresses
BY SeedAssumption

LEMMA SeedInitHolds == SeedInit => SeedInv
<1> SUFFICES ASSUME SeedInit PROVE SeedInv
  OBVIOUS
<1> USE SeedAssumption, SeedAccountsListed
<1>1. AccountsInv /\ issued \in Nat
  BY AccountsInitHolds DEF SeedInit, AccountsInit
<1>2. SeedTypeOK
  BY <1>1 DEF SeedInit, SeedTypeOK, AccountsInv
<1>3. ScriptInv /\ LeftInv
  <2>1. at = "ended" /\ ensured = 0 /\ product = Nothing /\ review = Nothing
    BY DEF SeedInit
  <2>2. 1 .. ensured = {}
    BY <2>1
  <2> QED BY <2>1, <2>2, NoRowAssumption DEF ScriptInv, LeftInv, Later
<1> QED BY <1>1, <1>2, <1>3 DEF SeedInv

\* An account that is owned stays so, whoever signs in and whatever is granted.
LEMMA OwnedStays ==
  ASSUME AccountsInv, AccountsInv', KeepsAccounts, NEW k \in 1 .. Len(SeedAccounts), Owned(k),
         identity'[SeedAccounts[k]] = identity[SeedAccounts[k]]
  PROVE  Owned(k)'
<1> DEFINE a == SeedAccounts[k]
<1>1. a \in Addresses
  BY SeedAccountsListed
<1>2. identity[a] # 0 /\ appUser[identity[a]] # Nothing /\ Wanted[a] \subseteq appUser[identity[a]].caps
  BY DEF Owned
<1>3. identity[a] \in Ids
  BY <1>1, <1>2, AccountAssumption DEF AccountsInv, AccountsTypeOK, Ids
<1>4. ASSUME NEW i, i = identity[a] PROVE Live(i)'
  BY <1>1, <1>2, <1>4 DEF Live
<1>5. appUser'[identity[a]] # Nothing /\ Wanted[a] \subseteq appUser'[identity[a]].caps
  BY <1>2, <1>3, <1>4 DEF KeepsAccounts
<1> QED BY <1>2, <1>5 DEF Owned

LEMMA IdentityStays ==
  ASSUME AccountsInv, AccountStep(Browsers)
  PROVE  /\ \A a \in Addresses : identity[a] # 0 => identity'[a] = identity[a]
         /\ issued \in Nat /\ issued' \in Nat /\ issued <= issued'
<1>1. identity \in [Addresses -> 0 .. issued] /\ issued \in Nat
  BY AccountAssumption DEF AccountsInv, AccountsTypeOK
<1>2. UNCHANGED <<identity, issued>> \/ \E b \in Browsers : SignUp(b)
  BY DEF AccountStep, AskLink, FollowLink, Provision, ReadBack, CreateSession, LoseSignIn,
         SignOut, PurgeSession, PurgeLink, Grant, NextDay, rows
<1>3. CASE UNCHANGED <<identity, issued>>
  BY <1>1, <1>3
<1>4. ASSUME NEW b \in Browsers, SignUp(b)
      PROVE  /\ \A a \in Addresses : identity[a] # 0 => identity'[a] = identity[a]
             /\ issued' \in Nat /\ issued <= issued'
  BY <1>1, <1>4 DEF SignUp, InsertIdentity
<1> QED BY <1>1, <1>2, <1>3, <1>4

\* The application signs users in, grants and purges beside the script.
LEMMA AccountsBesideSeed ==
  ASSUME SeedInv, AccountStep(Callers), UNCHANGED <<script, catalogue, meddled>>
  PROVE  SeedInv' /\ KeepsAccounts
<1> USE SeedAccountsListed
<1>1. AccountStep(Browsers)
  BY AccountAssumption DEF AccountStep
<1>2. AccountsInv /\ AccountsInv' /\ KeepsAccounts
  BY <1>1, AccountStepKeeps, AccountStepKept DEF SeedInv
<1>3. /\ \A a \in Addresses : identity[a] # 0 => identity'[a] = identity[a]
      /\ issued \in Nat /\ issued' \in Nat /\ issued <= issued'
  BY <1>1, <1>2, IdentityStays
<1>4. UNCHANGED <<at, ensured, author, held, product, review, rated, meddled>>
  BY DEF script, catalogue
<1>5. SeedTypeOK'
  <2>1. author' \in 0 .. issued'
    BY <1>3, <1>4 DEF SeedInv, SeedTypeOK
  <2> QED BY <1>2, <1>4, <2>1 DEF SeedInv, SeedTypeOK, AccountsInv
<1>6. ScriptInv'
  BY <1>4 DEF SeedInv, ScriptInv
<1>7. LeftInv'
  <2> SUFFICES ASSUME meddled = 0 PROVE LeftInv'
    BY <1>4 DEF LeftInv
  <2>1. LeftInv /\ ensured \in 0 .. Len(SeedAccounts)
    BY DEF SeedInv, SeedTypeOK
  <2>2. ASSUME NEW k \in 1 .. ensured PROVE Owned(k)'
    <3>1. k \in 1 .. Len(SeedAccounts) /\ Owned(k)
      BY <2>1 DEF LeftInv
    <3>2. identity'[SeedAccounts[k]] = identity[SeedAccounts[k]]
      BY <1>3, <3>1 DEF Owned
    <3> QED BY <1>2, <3>1, <3>2, OwnedStays
  <2>3. at = "appUser" => identity'[Account] = identity[Account]
    <3> SUFFICES ASSUME at = "appUser" PROVE identity'[Account] = identity[Account]
      OBVIOUS
    <3>1. author = identity[Account] /\ author # 0
      BY <2>1 DEF LeftInv
    <3>2. Account \in Addresses
      <4>1. ensured + 1 \in 1 .. Len(SeedAccounts)
        BY <2>1 DEF SeedInv, ScriptInv
      <4> QED BY <4>1 DEF Account
    <3> QED BY <1>3, <3>1, <3>2
  <2>4. Account' = Account /\ Published' = Published
    BY <1>4 DEF Account, Published
  <2> QED BY <1>4, <2>1, <2>2, <2>3, <2>4 DEF LeftInv
<1> QED BY <1>2, <1>5, <1>6, <1>7 DEF SeedInv

\* The statements of the script that write no account, and what others write.
LEMMA CatalogueStep ==
  ASSUME SeedInv, UNCHANGED accountVars,
         \/ StartSeed \/ FindProduct \/ InsertProduct \/ SubmitReview \/ BackdateReview
         \/ RejectReview \/ RebuildRating \/ SeedStops \/ Meddle
  PROVE  SeedInv' /\ KeepsAccounts
<1> USE SeedAssumption, SeedAccountsListed, NoRowAssumption
<1>1. AccountsInv' /\ KeepsAccounts
  BY AccountsUnchanged DEF SeedInv
<1>2. UNCHANGED <<today, identity, issued, appUser, link, session, signIn, lookup>>
  BY DEF accountVars, rows
<1>3. /\ SeedTypeOK /\ ScriptInv /\ LeftInv
      /\ \A k : Owned(k)' <=> Owned(k)
      /\ ensured \in Nat /\ ensured <= Len(SeedAccounts) /\ meddled \in Nat
  BY <1>2 DEF SeedInv, SeedTypeOK, Owned
<1>4. SeedTypeOK' /\ ScriptInv' /\ LeftInv'  => SeedInv' /\ KeepsAccounts
  BY <1>1 DEF SeedInv
<1>5. review # Nothing => review \in ReviewRows
  BY <1>3 DEF SeedTypeOK
<1>6. AccountsTypeOK'
  BY <1>1 DEF AccountsInv
<1>7. CASE StartSeed
  <2>1. /\ at' = "identity" /\ ensured' = 0
        /\ UNCHANGED <<author, held, product, review, rated, meddled>>
    BY <1>7 DEF StartSeed, catalogue
  <2>2. SeedTypeOK' /\ ScriptInv'
    BY <1>2, <1>3, <1>6, <2>1 DEF SeedTypeOK, ScriptInv, Steps, Later
  <2>3. LeftInv'
    <3>1. 1 .. ensured' = {}
      BY <2>1
    <3> QED BY <1>3, <2>1, <3>1 DEF LeftInv
  <2> QED BY <1>4, <2>2, <2>3
<1>8. CASE FindProduct
  <2>1. /\ at = "product" /\ at' = IF product = Nothing THEN "insert" ELSE "submit"
        /\ UNCHANGED <<ensured, author, held, product, review, rated, meddled>>
    BY <1>8 DEF FindProduct, catalogue
  <2>2. SeedTypeOK' /\ ScriptInv'
    BY <1>2, <1>3, <1>6, <2>1 DEF SeedTypeOK, ScriptInv, Steps, Later
  <2>3. LeftInv'
    BY <1>3, <2>1 DEF LeftInv, SeedTypeOK
  <2> QED BY <1>4, <2>2, <2>3
<1>9. CASE InsertProduct
  <2>1. /\ at = "insert" /\ at' = "submit" /\ product' = "seeded"
        /\ UNCHANGED <<ensured, author, held, review, rated, meddled>>
    BY <1>9 DEF InsertProduct
  <2>2. SeedTypeOK' /\ ScriptInv'
    BY <1>2, <1>3, <1>6, <2>1 DEF SeedTypeOK, ScriptInv, Steps, Later
  <2>3. LeftInv'
    BY <1>3, <2>1 DEF LeftInv
  <2> QED BY <1>4, <2>2, <2>3
<1>10. CASE SubmitReview
  <2>1. /\ at = "submit" /\ at' = "backdate"
        /\ review' = IF review = Nothing THEN NewReview("seeded") ELSE review
        /\ held' = review'.token
        /\ UNCHANGED <<ensured, author, product, rated, meddled>>
    BY <1>10 DEF SubmitReview
  <2>2. /\ NewReview("seeded") \in ReviewRows /\ NewReview("seeded") # Nothing
        /\ NewReview("seeded").token = meddled /\ NewReview("seeded").text = "seeded"
    <3>1. meddled \in 0 .. MaxMeddling
      BY <1>3 DEF SeedTypeOK
    <3>2. NewReview("seeded") =
            [token |-> meddled, text |-> "seeded", dated |-> FALSE, state |-> "published"]
      BY DEF NewReview
    <3>3. NewReview("seeded") \in ReviewRows
      BY <3>1 DEF NewReview, ReviewRows
    <3> QED BY <3>2, <3>3
  <2>3. review' \in ReviewRows /\ review' # Nothing
    BY <1>5, <2>1, <2>2
  <2>4. held' \in 0 .. MaxMeddling
    BY <2>1, <2>3 DEF ReviewRows
  <2>5. SeedTypeOK' /\ ScriptInv'
    BY <1>2, <1>3, <1>6, <2>1, <2>3, <2>4 DEF SeedTypeOK, ScriptInv, Steps, Later
  <2>6. LeftInv'
    BY <1>3, <2>1, <2>2, <2>3 DEF LeftInv
  <2> QED BY <1>4, <2>5, <2>6
<1>11. CASE BackdateReview
  <2> DEFINE r == [review EXCEPT !.dated = TRUE]
  <2>1. /\ at = "backdate" /\ at' = "reject"
        /\ review' = IF Held THEN r ELSE review
        /\ UNCHANGED <<ensured, author, held, product, rated, meddled>>
    BY <1>11 DEF BackdateReview
  <2>2. review # Nothing => /\ r \in ReviewRows /\ r # Nothing /\ r.dated
                            /\ r.text = review.text /\ r.token = review.token
    <3>1. review # Nothing => /\ r \in ReviewRows /\ r.dated
                              /\ r.text = review.text /\ r.token = review.token
      BY <1>5 DEF ReviewRows
    <3> QED BY <3>1
  <2> HIDE DEF r
  <2>3. SeedTypeOK' /\ ScriptInv'
    BY <1>2, <1>3, <1>6, <2>1, <2>2 DEF SeedTypeOK, ScriptInv, Steps, Later, Held
  <2>4. LeftInv'
    BY <1>3, <2>1, <2>2 DEF LeftInv, Held
  <2> QED BY <1>4, <2>3, <2>4
<1>12. CASE RejectReview
  <2> DEFINE r == [review EXCEPT !.state = "rejected"]
  <2>1. /\ at = "reject" /\ at' = "rebuild" /\ review # Nothing /\ review' = r
        /\ UNCHANGED <<ensured, author, held, product, rated, meddled>>
    BY <1>12 DEF RejectReview, Held
  <2>2. /\ r \in ReviewRows /\ r.state = "rejected" /\ r.dated = review.dated
        /\ r.text = review.text /\ r.token = review.token
    BY <1>5, <2>1 DEF ReviewRows
  <2> HIDE DEF r
  <2>3. SeedTypeOK' /\ ScriptInv'
    BY <1>2, <1>3, <1>6, <2>1, <2>2 DEF SeedTypeOK, ScriptInv, Steps, Later
  <2>4. LeftInv'
    BY <1>3, <2>1, <2>2 DEF LeftInv
  <2> QED BY <1>4, <2>3, <2>4
<1>13. CASE RebuildRating
  <2>1. /\ at = "rebuild" /\ at' = "done" /\ rated' = Published
        /\ UNCHANGED <<ensured, author, held, product, review, meddled>>
    BY <1>13 DEF RebuildRating
  <2>2. Published' = Published /\ Published \in 0 .. 1
    BY <2>1 DEF Published
  <2>3. SeedTypeOK' /\ ScriptInv'
    BY <1>2, <1>3, <1>6, <2>1, <2>2 DEF SeedTypeOK, ScriptInv, Steps, Later
  <2>4. LeftInv'
    BY <1>3, <2>1, <2>2 DEF LeftInv
  <2> QED BY <1>4, <2>3, <2>4
<1>14. CASE SeedStops
  <2>1. /\ at' = "ended"
        /\ UNCHANGED <<ensured, author, held, product, review, rated, meddled>>
    BY <1>14 DEF SeedStops, catalogue
  <2>2. SeedTypeOK' /\ ScriptInv'
    BY <1>2, <1>3, <1>6, <2>1 DEF SeedTypeOK, ScriptInv, Steps, Later
  <2>3. LeftInv'
    BY <1>3, <2>1 DEF LeftInv
  <2> QED BY <1>4, <2>2, <2>3
<1>15. CASE Meddle
  <2>1. meddled' = meddled + 1 /\ meddled' \in 0 .. MaxMeddling /\ meddled' # 0
        /\ UNCHANGED <<at, ensured, author, held>>
    BY <1>3, <1>15 DEF Meddle, script, SeedTypeOK
  <2>2. product' \in {Nothing, "seeded", "other"} /\ rated' \in 0 .. 1
    BY <1>3, <1>15 DEF Meddle, SeedTypeOK, Published
  <2>3. review' \in ReviewRows \cup {Nothing}
    <3>1. NewReview("own") \in ReviewRows
      <4>1. meddled \in 0 .. MaxMeddling
        BY <1>3 DEF SeedTypeOK
      <4> QED BY <4>1 DEF NewReview, ReviewRows
    <3>2. review # Nothing =>
            /\ [review EXCEPT !.text = "own"] \in ReviewRows
            /\ [review EXCEPT !.state = IF @ = "published" THEN "rejected" ELSE "published"]
                 \in ReviewRows
      BY <1>5 DEF ReviewRows
    <3> QED BY <1>3, <1>15, <3>1, <3>2 DEF Meddle, SeedTypeOK
  <2>4. SeedTypeOK' /\ ScriptInv'
    BY <1>2, <1>3, <1>6, <2>1, <2>2, <2>3 DEF SeedTypeOK, ScriptInv
  <2>5. LeftInv'
    BY <2>1 DEF LeftInv
  <2> QED BY <1>4, <2>4, <2>5
<1> QED BY <1>7, <1>8, <1>9, <1>10, <1>11, <1>12, <1>13, <1>14, <1>15

LEMMA SeedIdentityStep ==
  ASSUME SeedInv, EnsureIdentity
  PROVE  SeedInv' /\ KeepsAccounts
<1> USE SeedAssumption, SeedAccountsListed
<1>1. /\ AccountsInv /\ SeedTypeOK /\ ScriptInv /\ LeftInv
      /\ ensured \in Nat /\ ensured < Len(SeedAccounts)
  BY DEF SeedInv, SeedTypeOK, ScriptInv, EnsureIdentity
<1>2. /\ at = "identity" /\ at' = "appUser" /\ author' = identity'[Account]
      /\ UNCHANGED <<today, appUser, link, session, signIn, lookup, ensured, held,
                     product, review, rated, meddled>>
  BY DEF EnsureIdentity, catalogue
<1>3. Account \in Addresses /\ Account' = Account
  <2>1. ensured + 1 \in 1 .. Len(SeedAccounts)
    BY <1>1
  <2> QED BY <1>2, <2>1 DEF Account
<1>4. KeepsAccounts
  BY <1>2, UntouchedKept
<1>5. /\ AccountsInv'
      /\ \A a \in Addresses : identity[a] # 0 => identity'[a] = identity[a]
      /\ identity'[Account] \in 0 .. issued' /\ identity'[Account] # 0
  <2>1. CASE identity[Account] = 0
    <3>1. InsertIdentity(Account)
      BY <2>1 DEF EnsureIdentity
    <3>2. /\ issued' \in 0 .. MaxIdentities /\ issued' = issued + 1 /\ issued \in Nat
          /\ identity' \in [Addresses -> 0 .. issued']
      BY <1>1, <1>3, <2>1, <3>1, FreshIdentity
    <3>3. \A b \in Browsers : signIn[b].id <= issued' /\ lookup[b].id <= issued'
      <4>1. \A b \in Browsers : signIn[b].id \in 0 .. issued /\ lookup[b].id \in 0 .. issued
        BY <1>1, IdentitiesHeld DEF AccountsInv
      <4> QED BY <3>2, <4>1
    <3>4. AccountsTypeOK'
      BY <1>1, <1>2, <3>2, <3>3 DEF AccountsInv, AccountsTypeOK
    <3>5. AccountsInv'
      BY <1>1, <1>2, <1>3, <2>1, <3>1, <3>4, InsertKeeps
    <3>6. identity' = [identity EXCEPT ![Account] = issued + 1]
          /\ identity \in [Addresses -> 0 .. issued]
      BY <1>1, <3>1 DEF InsertIdentity, AccountsInv, AccountsTypeOK
    <3>7. \A a \in Addresses : identity[a] # 0 => identity'[a] = identity[a]
      BY <2>1, <3>6
    <3>8. identity'[Account] = issued + 1
      BY <1>3, <3>6
    <3> QED BY <3>2, <3>5, <3>7, <3>8
  <2>2. CASE identity[Account] # 0
    <3>1. UNCHANGED <<identity, issued>>
      BY <2>2 DEF EnsureIdentity
    <3>2. AccountsInv'
      BY <1>1, <1>2, <3>1, AccountsUnchanged DEF accountVars, rows
    <3> QED BY <1>1, <1>3, <2>2, <3>1, <3>2 DEF AccountsInv, AccountsTypeOK
  <2> QED BY <2>1, <2>2
<1>6. SeedTypeOK' /\ ScriptInv'
  BY <1>1, <1>2, <1>5 DEF SeedTypeOK, ScriptInv, AccountsInv, Steps, Later
<1>7. LeftInv'
  <2> SUFFICES ASSUME meddled = 0 PROVE LeftInv'
    BY <1>2 DEF LeftInv
  <2>1. ASSUME NEW k \in 1 .. ensured PROVE Owned(k)'
    <3>1. k \in 1 .. Len(SeedAccounts) /\ Owned(k)
      BY <1>1, <2>1 DEF LeftInv
    <3>2. identity'[SeedAccounts[k]] = identity[SeedAccounts[k]]
      BY <1>5, <3>1 DEF Owned
    <3> QED BY <1>1, <1>4, <1>5, <3>1, <3>2, OwnedStays
  <2> QED BY <1>1, <1>2, <1>3, <1>5, <2>1 DEF LeftInv
<1> QED BY <1>4, <1>5, <1>6, <1>7 DEF SeedInv

LEMMA SeedAppUserStep ==
  ASSUME SeedInv, EnsureAppUser
  PROVE  SeedInv' /\ KeepsAccounts
<1> USE SeedAssumption, SeedAccountsListed, NothingAssumption
<1>1. /\ AccountsInv /\ AccountsTypeOK /\ SeedTypeOK /\ ScriptInv /\ LeftInv
      /\ ensured \in Nat /\ ensured < Len(SeedAccounts)
  BY DEF SeedInv, SeedTypeOK, ScriptInv, EnsureAppUser
<1> DEFINE had == appUser[author]
           u == WithWanted(had)
<1>2. /\ at = "appUser" /\ Live(author) /\ ensured' = ensured + 1
      /\ appUser' = [appUser EXCEPT ![author] = u]
      /\ at' = IF ensured' = Len(SeedAccounts) THEN "product" ELSE "identity"
      /\ UNCHANGED <<today, identity, issued, link, session, signIn, lookup, author, held,
                     product, review, rated, meddled>>
  BY DEF EnsureAppUser, catalogue
<1>3. Account \in Addresses /\ author \in Ids
  <2>1. ensured + 1 \in 1 .. Len(SeedAccounts)
    BY <1>1
  <2>2. author \in Ids
    BY <1>1, <1>2, AccountAssumption DEF Live, AccountsTypeOK, Ids
  <2> QED BY <2>1, <2>2 DEF Account
<1>4. had \in Users \cup {Nothing} /\ Wanted[Account] \in SUBSET Caps
  BY <1>1, <1>3 DEF AccountsTypeOK
<1>5. /\ u \in Users /\ Wanted[Account] \subseteq u.caps
      /\ had # Nothing => u.token = had.token /\ had.caps \subseteq u.caps
  <2>1. CASE had = Nothing
    <3>1. u = [token |-> "seed", caps |-> Wanted[Account]]
      BY <2>1 DEF NewUser, WithWanted
    <3> HIDE DEF u
    <3> QED BY <1>4, <2>1, <3>1 DEF Users
  <2>2. CASE had # Nothing
    <3>1. u = [token |-> had.token, caps |-> had.caps \cup Wanted[Account]] /\ had \in Users
      <4>1. had \in Users
        BY <1>4, <2>2
      <4> HIDE DEF had
      <4> QED BY <2>2, <4>1 DEF Users, WithWanted
    <3> HIDE DEF u, had
    <3> QED BY <1>4, <3>1 DEF Users
  <2> QED BY <2>1, <2>2
<1>6. u # Nothing
  BY <1>5
<1> HIDE DEF u
<1>7. \A i \in Ids : appUser'[i] = IF i = author THEN u ELSE appUser[i]
  BY <1>1, <1>2 DEF AccountsTypeOK
<1>8. AccountsTypeOK'
  BY <1>1, <1>2, <1>3, <1>5 DEF AccountsTypeOK
<1>9. AccountsInv'
  <2>1. \A i \in Ids : /\ appUser[i] # Nothing => appUser'[i] # Nothing
                       /\ appUser'[i] # Nothing => appUser[i] # Nothing \/ Live(i)
    BY <1>2, <1>6, <1>7
  <2> QED BY <1>1, <1>2, <1>8, <2>1, RowsStay
<1>10. KeepsAccounts
  BY <1>2, <1>5, <1>6, <1>7 DEF KeepsAccounts
<1>11. SeedTypeOK' /\ ScriptInv'
  <2>1. ensured' \in 0 .. Len(SeedAccounts)
    BY <1>1, <1>2
  <2>2. SeedTypeOK'
    BY <1>1, <1>2, <1>8, <2>1 DEF SeedTypeOK, Steps
  <2>3. at' = "identity" => ensured' < Len(SeedAccounts)
    BY <1>2, <2>1
  <2> QED BY <1>2, <2>2, <2>3 DEF ScriptInv, Later
<1>12. LeftInv'
  <2> SUFFICES ASSUME meddled = 0 PROVE LeftInv'
    BY <1>2 DEF LeftInv
  <2>1. author = identity[Account] /\ author # 0
    BY <1>1, <1>2 DEF LeftInv
  <2>2. ASSUME NEW k \in 1 .. ensured' PROVE Owned(k)'
    <3>1. CASE k = ensured + 1
      <4>1. SeedAccounts[k] = Account /\ identity'[Account] = author
        BY <1>2, <2>1, <3>1 DEF Account
      <4>2. appUser'[author] = u
        BY <1>3, <1>7
      <4> QED BY <1>5, <1>6, <2>1, <4>1, <4>2 DEF Owned
    <3>2. CASE k # ensured + 1
      <4>1. k \in 1 .. ensured /\ k \in 1 .. Len(SeedAccounts)
        BY <1>1, <1>2, <3>2
      <4>2. Owned(k)
        BY <1>1, <4>1 DEF LeftInv
      <4> QED BY <1>1, <1>2, <1>9, <1>10, <4>1, <4>2, OwnedStays
    <3> QED BY <3>1, <3>2
  <2> QED BY <1>1, <1>2, <2>2 DEF LeftInv
<1> QED BY <1>9, <1>10, <1>11, <1>12 DEF SeedInv

LEMMA SeedEraseStep ==
  ASSUME SeedInv, NEW a \in Addresses, EraseAccount(a)
  PROVE  SeedInv' /\ KeepsAccounts
<1>1. Erase(a) /\ AccountsInv /\ SeedTypeOK /\ ScriptInv
  BY DEF SeedInv, EraseAccount
<1>2. AccountsInv' /\ KeepsAccounts
  BY <1>1, EraseKeeps, EraseKept
<1>3. /\ meddled' = meddled + 1 /\ meddled' \in 0 .. MaxMeddling /\ meddled' # 0
      /\ UNCHANGED <<at, ensured, author, held, product, rated, issued>>
      /\ review' = review \/ review' = Nothing
  BY <1>1, SeedAssumption DEF EraseAccount, Erase, script, SeedTypeOK
<1>4. SeedTypeOK' /\ ScriptInv' /\ LeftInv'
  BY <1>1, <1>2, <1>3 DEF SeedTypeOK, ScriptInv, LeftInv, AccountsInv
<1> QED BY <1>2, <1>4 DEF SeedInv

LEMMA SeedStepKeeps == SeedInv /\ [SeedNext]_seedVars => SeedInv' /\ KeepsAccounts
<1> SUFFICES ASSUME SeedInv, [SeedNext]_seedVars PROVE SeedInv' /\ KeepsAccounts
  OBVIOUS
<1>1. CASE EnsureIdentity
  BY <1>1, SeedIdentityStep
<1>2. CASE EnsureAppUser
  BY <1>2, SeedAppUserStep
<1>3. CASE \/ StartSeed \/ FindProduct \/ InsertProduct \/ SubmitReview \/ BackdateReview
           \/ RejectReview \/ RebuildRating \/ SeedStops \/ Meddle
  <2>1. UNCHANGED accountVars
    BY <1>3 DEF StartSeed, FindProduct, InsertProduct, SubmitReview, BackdateReview,
                RejectReview, RebuildRating, SeedStops, Meddle
  <2> QED BY <1>3, <2>1, CatalogueStep
<1>4. ASSUME NEW a \in Addresses, EraseAccount(a)
      PROVE  SeedInv' /\ KeepsAccounts
  BY <1>4, SeedEraseStep
<1>5. CASE AccountStep(Callers) /\ UNCHANGED <<script, catalogue, meddled>>
  BY <1>5, AccountsBesideSeed
<1>6. CASE UNCHANGED seedVars
  <2>1. UNCHANGED <<accountVars, at, ensured, author, held, product, review, rated, meddled,
                    today, identity, issued, appUser, link, session, signIn, lookup>>
    BY <1>6 DEF seedVars, script, catalogue, accountVars, rows
  <2>2. AccountsInv' /\ KeepsAccounts
    BY <2>1, AccountsUnchanged DEF SeedInv
  <2> QED BY <2>1, <2>2
          DEF SeedInv, SeedTypeOK, ScriptInv, LeftInv, AccountsInv, Owned, Account, Published
<1> QED BY <1>1, <1>2, <1>3, <1>4, <1>5, <1>6 DEF SeedNext, SeedStep

LEMMA SeedInductive == SeedSpec => []SeedInv
BY SeedInitHolds, SeedStepKeeps, PTL DEF SeedSpec

\* seed.ts:6-19: a run that ends well has delivered, however often the script was
\* killed before and whoever signed in or was granted something beside it.
THEOREM SeedHasDelivered == SeedSpec => []SeedDelivers
<1>1. SeedInv => SeedDelivers
  BY DEF SeedInv, ScriptInv, LeftInv, Later, SeedDelivers, Owned
<1> QED BY <1>1, SeedInductive, PTL

\* factory.ts:341-356, seed.ts:63-66: the seed keeps what sessions and lookups rely
\* on, and takes nothing from an account that was there before.
THEOREM SeedKeepsAccounts == SeedSpec => []SessionsHaveUsers /\ AccountsKept
<1>1. SeedInv => AccountsInv
  BY DEF SeedInv
<1>2. SeedSpec => []SessionsHaveUsers
  BY <1>1, SeedInductive, UsersOfSessions, PTL
<1>3. SeedInv /\ [SeedNext]_seedVars => [KeepsAccounts]_accountVars
  BY SeedStepKeeps
<1>4. SeedSpec => AccountsKept
  BY <1>3, SeedInductive, PTL DEF SeedSpec, AccountsKept
<1> QED BY <1>2, <1>4

\* seed.ts:368-382: after any statement of any number of runs, killed or not, the rows
\* and the script hold values of their columns and sets.
THEOREM SeedTypes == SeedSpec => []SeedTypeOK
<1>1. SeedInv => SeedTypeOK
  BY DEF SeedInv
<1> QED BY <1>1, SeedInductive, PTL

-----------------------------------------------------------------------------
(* Routes. *)

Calls ==
  [at : {"none", "session", "guard", "core", "reads", "answered"}, route : DOMAIN Needs,
   of : 0 .. MaxIdentities, flaw : {"none"} \cup UNION {Flaws[route] : route \in DOMAIN Needs},
   status : Nat, mine : BOOLEAN]

RequestsOK ==
  /\ call \in [Callers -> Calls]
  /\ reviewOf \in [Ids -> {"published", "rejected", Nothing}]
  /\ listed \in Names \cup {Nothing}

\* What a route needs, the lookup of the request in it has found.
Entitled(b) ==
  LET need == Needs[call[b].route] IN
  \/ need = "nothing"
  \/ lookup[b].at = "known" /\ (need = "session" \/ need \in lookup[b].caps)

\* What a request's lookup found was a right at some time since it arrived; past its
\* guard, and in an answer that tells something, the request is entitled.
RequestInv(b) ==
  /\ call[b].at = "none" => lookup[b].at = "none"
  /\ call[b].at # "none" => call[b].of \in Ids
  /\ call[b].at \in {"none", "session"} => call[b].status = 0 /\ ~call[b].mine
  /\ lookup[b].at \in {"found", "known", "inconsistent"} =>
       <<lookup[b].id, "session">> \in rights[b]
  /\ lookup[b].at = "known" => \A cap \in lookup[b].caps : <<lookup[b].id, cap>> \in rights[b]
  /\ call[b].at \in {"guard", "core", "reads"} => lookup[b].at \in {"anonymous", "known"}
  /\ call[b].at \in {"core", "reads"} \/ call[b].status \in {200, 404, 409} => Entitled(b)
  /\ call[b].mine => call[b].of = lookup[b].id

\* A review's author has an account.
AuthorsInv == \A i \in Ids : reviewOf[i] # Nothing => Live(i)

RoutesInv == AccountsInv /\ RequestsOK /\ AuthorsInv /\ \A b \in Callers : RequestInv(b)

\* Every identity of the initial state is some address's.
LEMMA RoutesInitHolds == RoutesInit => RoutesInv
<1> SUFFICES ASSUME RoutesInit PROVE RoutesInv
  OBVIOUS
<1> USE AccountAssumption, NothingAssumption, RoutesAssumption
<1> DEFINE n == Cardinality(Addresses)
<1>1. n \in Nat /\ n <= MaxIdentities /\ issued = n
  BY FS_CardinalityType DEF RoutesInit
<1>2. identity \in [Addresses -> 1 .. n] /\ \A a, c \in Addresses : identity[a] = identity[c] => a = c
  BY DEF RoutesInit
<1>3. \A i \in 1 .. n : \E a \in Addresses : identity[a] = i
  <2>1. identity \in Injection(Addresses, 1 .. n)
    BY <1>2 DEF Injection, IsInjective
  <2>2. IsFiniteSet(1 .. n) /\ Cardinality(1 .. n) = n
    BY <1>1, FS_Interval
  <2> HIDE DEF n
  <2>3. Cardinality(Addresses) = Cardinality(1 .. n)
    BY <2>2 DEF n
  <2>4. identity \in Surjection(Addresses, 1 .. n)
    BY <2>1, <2>2, <2>3, FS_Injection
  <2> QED BY <2>4 DEF Surjection
<1> HIDE DEF n
<1>4. /\ \A i \in Ids : appUser[i] = IF i <= n THEN NewUser("seed", {}) ELSE Nothing
      /\ appUser \in [Ids -> Users \cup {Nothing}]
      /\ NewUser("seed", {}) # Nothing
  <2>1. NewUser("seed", {}) \in Users
    BY DEF NewUser, Users
  <2>2. NewUser("seed", {}) # Nothing
    BY <2>1
  <2>3. appUser = [i \in Ids |-> IF i <= n THEN NewUser("seed", {}) ELSE Nothing]
    BY <1>1 DEF RoutesInit
  <2> QED BY <2>1, <2>2, <2>3
<1>5. \A b \in Browsers : session[b] # Nothing => session[b] \in Sessions /\ session[b].id \in 1 .. n
  <2>1. session \in [Browsers -> [id : 1 .. n, expires : {SessionLife}] \cup {Nothing}]
    BY <1>1 DEF RoutesInit
  <2>2. ASSUME NEW b \in Browsers, session[b] # Nothing
        PROVE  session[b] \in Sessions /\ session[b].id \in 1 .. n
    <3>1. session[b] \in [id : 1 .. n, expires : {SessionLife}]
      BY <2>1, <2>2
    <3>2. \A i \in 1 .. n : i \in 1 .. MaxIdentities
      BY <1>1
    <3> QED BY <3>1, <3>2 DEF Sessions
  <2> QED BY <2>2
<1>6. /\ today = 0 /\ link = [b \in Browsers |-> Nothing]
      /\ session \in [Browsers -> Sessions \cup {Nothing}]
      /\ signIn = [b \in Browsers |-> Out] /\ lookup = [b \in Browsers |-> NoLookup]
      /\ call = [b \in Callers |-> NoCall] /\ reviewOf = [i \in Ids |-> Nothing] /\ listed = Nothing
  <2>1. session = [b \in Browsers |-> session[b]]
    BY DEF RoutesInit
  <2>2. session \in [Browsers -> Sessions \cup {Nothing}]
    BY <1>5, <2>1
  <2> QED BY <2>2 DEF RoutesInit
<1>7. /\ Out \in SignIns /\ Out.at = "out" /\ Out.id = 0
      /\ NoLookup \in Lookups /\ NoLookup.at = "none" /\ NoLookup.id = 0
  BY DEF SignIns, Lookups, Out, NoLookup
<1>8. AccountsTypeOK
  <2>1. \A b \in Browsers : signIn[b].id <= issued /\ lookup[b].id <= issued
    BY <1>1, <1>6, <1>7
  <2>2. identity \in [Addresses -> 0 .. issued] /\ issued \in 0 .. MaxIdentities
    BY <1>1, <1>2
  <2> QED BY <1>4, <1>6, <1>7, <2>1, <2>2 DEF AccountsTypeOK
<1>9. \A i \in Ids : i \in 1 .. n => Live(i)
  BY <1>3, <1>1 DEF Live, Ids
<1>10. RowsInv
  <2>1. \A i \in Ids : appUser[i] # Nothing => i \in 1 .. n
    BY <1>1, <1>4 DEF Ids
  <2>2. \A b \in Browsers : session[b] # Nothing => appUser[session[b].id] # Nothing
    <3>1. \A i \in 1 .. n : i \in Ids /\ i <= n
      BY <1>1 DEF Ids
    <3> QED BY <1>4, <1>5, <3>1
  <2> QED BY <1>2, <1>9, <2>1, <2>2 DEF RowsInv
<1>11. PathsInv
  BY <1>6, <1>7 DEF PathsInv
<1>12. NoCall \in Calls /\ NoCall.at = "none" /\ NoCall.status = 0 /\ NoCall.mine = FALSE
  BY DEF NoCall, Calls, Needs
<1>13. RequestsOK
  BY <1>6, <1>12 DEF RequestsOK
<1>14. \A b \in Callers : RequestInv(b)
  BY <1>6, <1>7, <1>12 DEF RequestInv
<1>15. AuthorsInv
  BY <1>6 DEF AuthorsInv
<1> QED BY <1>8, <1>10, <1>11, <1>13, <1>14, <1>15 DEF RoutesInv, AccountsInv

\* The history remembers, while a request is there, the rights of every moment.
RightsRemembered ==
  rights' = [b \in Callers |->
    IF call'[b].at = "none" THEN {} ELSE rights[b] \cup RightsNow \cup RightsNow']

\* The requests of the others stay where they are.
LEMMA OthersStay ==
  ASSUME RightsRemembered, NEW b \in Callers, RequestInv(b),
         call'[b] = call[b], lookup'[b] = lookup[b]
  PROVE  RequestInv(b)'
BY DEF RightsRemembered, RequestInv, Entitled

LEMMA MovesTo ==
  ASSUME RequestsOK, NEW b \in Callers, NEW place \in {"guard", "core", "reads"}, Moves(b, place)
  PROVE  /\ call' \in [Callers -> Calls]
         /\ \A c \in Callers \ {b} : call'[c] = call[c]
         /\ call'[b] = [call[b] EXCEPT !.at = place]
         /\ call'[b].at = place /\ call'[b].route = call[b].route /\ call'[b].of = call[b].of
         /\ call'[b].flaw = call[b].flaw
         /\ call'[b].status = call[b].status /\ call'[b].mine = call[b].mine
<1> DEFINE r == [call[b] EXCEPT !.at = place]
<1>1. call' = [call EXCEPT ![b] = r] /\ call \in [Callers -> Calls] /\ call[b] \in Calls
  BY DEF Moves, RequestsOK
<1>2. /\ r \in Calls /\ r.at = place /\ r.route = call[b].route /\ r.of = call[b].of
      /\ r.flaw = call[b].flaw /\ r.status = call[b].status /\ r.mine = call[b].mine
  BY <1>1 DEF Calls
<1> HIDE DEF r
<1>3. call'[b] = r /\ \A c \in Callers \ {b} : call'[c] = call[c]
  BY <1>1
<1>4. call' \in [Callers -> Calls]
  BY <1>1, <1>2
<1> QED BY <1>2, <1>3, <1>4 DEF r

LEMMA AnswersWith ==
  ASSUME RequestsOK, NEW b \in Callers, NEW s \in Nat, Answers(b, s)
  PROVE  /\ call' \in [Callers -> Calls]
         /\ \A c \in Callers \ {b} : call'[c] = call[c]
         /\ call'[b].at = "answered" /\ call'[b].route = call[b].route /\ call'[b].of = call[b].of
         /\ call'[b].flaw = call[b].flaw
         /\ call'[b].status = s /\ call'[b].mine = call[b].mine
<1> DEFINE r == [at |-> "answered", route |-> call[b].route, of |-> call[b].of,
                 flaw |-> call[b].flaw, status |-> s, mine |-> call[b].mine]
<1>1. call \in [Callers -> Calls] /\ call[b] \in Calls
  BY DEF RequestsOK
<1>2. call' = [call EXCEPT ![b] = r]
  <2> DEFINE q == [at |-> "answered", route |-> call[b].route, of |-> call[b].of,
                   flaw |-> call[b].flaw, status |-> call[b].status, mine |-> call[b].mine]
             mid == [call EXCEPT ![b].at = "answered"]
  <2>1. call' = [mid EXCEPT ![b].status = s]
    BY DEF Answers
  <2>2. mid = [call EXCEPT ![b] = q]
    <3>1. [call[b] EXCEPT !.at = "answered"] = q
      BY <1>1 DEF Calls
    <3>2. mid = [call EXCEPT ![b] = [call[b] EXCEPT !.at = "answered"]]
      OBVIOUS
    <3> HIDE DEF q, mid
    <3> QED BY <3>1, <3>2
  <2>3. [q EXCEPT !.status = s] = r
    OBVIOUS
  <2> HIDE DEF q, mid, r
  <2>4. mid[b] = q
    BY <1>1, <2>2
  <2>5. call' = [mid EXCEPT ![b] = r]
    BY <2>1, <2>3, <2>4
  <2> QED BY <1>1, <2>2, <2>5
<1>3. r \in Calls
  BY <1>1 DEF Calls
<1>4. /\ r.at = "answered" /\ r.route = call[b].route /\ r.of = call[b].of
      /\ r.flaw = call[b].flaw /\ r.status = s /\ r.mine = call[b].mine
  OBVIOUS
<1> HIDE DEF r
<1>5. call'[b] = r /\ \A c \in Callers \ {b} : call'[c] = call[c]
  BY <1>1, <1>2
<1>6. call' \in [Callers -> Calls]
  BY <1>1, <1>2, <1>3
<1> QED BY <1>4, <1>5, <1>6

\* A request moves on, or is answered, with what its lookup has found.
LEMMA RequestMoves ==
  ASSUME RoutesInv, RightsRemembered, UNCHANGED lookup, NEW b \in Callers,
         call' \in [Callers -> Calls], \A c \in Callers \ {b} : call'[c] = call[c],
         call'[b].at # "none", call'[b].of \in Ids,
         call'[b].at = "session" => call'[b].status = 0 /\ ~call'[b].mine,
         call[b].at = "none" => lookup[b].at = "none",
         call'[b].at \in {"guard", "core", "reads"} => lookup[b].at \in {"anonymous", "known"},
         call'[b].at \in {"core", "reads"} \/ call'[b].status \in {200, 404, 409} => Entitled(b)',
         call'[b].mine => call'[b].of = lookup[b].id
  PROVE  \A c \in Callers : RequestInv(c)'
<1>1. ASSUME NEW c \in Callers, c # b PROVE RequestInv(c)'
  BY <1>1, OthersStay DEF RoutesInv
<1>2. rights'[b] = rights[b] \cup RightsNow \cup RightsNow'
  BY DEF RightsRemembered
<1>3. RequestInv(b)'
  BY <1>2 DEF RoutesInv, RequestInv
<1> QED BY <1>1, <1>3

\* A statement of a request writes a review of an account that is there.
RowsWritten ==
  /\ reviewOf' \in [Ids -> {"published", "rejected", Nothing}]
  /\ listed' \in Names \cup {Nothing}
  /\ \A i \in Ids : reviewOf'[i] # Nothing => reviewOf[i] # Nothing \/ Live(i)

LEMMA NothingWritten ==
  ASSUME RoutesInv, UNCHANGED <<reviewOf, listed>>
  PROVE  RowsWritten
BY DEF RowsWritten, RoutesInv, RequestsOK

LEMMA RequestStep ==
  ASSUME RoutesInv, UNCHANGED accountVars, RowsWritten,
         call' \in [Callers -> Calls], \A c \in Callers : RequestInv(c)'
  PROVE  RoutesInv'
<1>1. AccountsInv'
  BY AccountsUnchanged DEF RoutesInv
<1>2. \A i : Live(i)' <=> Live(i)
  BY DEF accountVars, rows, Live
<1>3. AuthorsInv'
  BY <1>2 DEF RoutesInv, AuthorsInv, RowsWritten
<1> QED BY <1>1, <1>3 DEF RoutesInv, RequestsOK, RowsWritten

LEMMA MoveStep ==
  ASSUME RoutesInv, RightsRemembered, UNCHANGED accountVars, RowsWritten,
         NEW b \in Callers, NEW place \in {"guard", "core", "reads"}, Moves(b, place),
         call[b].at # "none", lookup[b].at \in {"anonymous", "known"},
         place # "guard" => Entitled(b)
  PROVE  RoutesInv'
<1>1. RequestsOK /\ RequestInv(b) /\ UNCHANGED lookup
  BY DEF RoutesInv, accountVars
<1>2. /\ call' \in [Callers -> Calls]
      /\ \A c \in Callers \ {b} : call'[c] = call[c]
      /\ call'[b].at = place /\ call'[b].route = call[b].route /\ call'[b].of = call[b].of
      /\ call'[b].status = call[b].status /\ call'[b].mine = call[b].mine
  BY <1>1, MovesTo
<1>3. Entitled(b)' <=> Entitled(b)
  BY <1>1, <1>2 DEF Entitled
<1>4. \A c \in Callers : RequestInv(c)'
  <2>1. /\ call'[b].at # "none" /\ call'[b].at # "session" /\ call'[b].of \in Ids
        /\ call'[b].mine => call'[b].of = lookup[b].id
    BY <1>1, <1>2 DEF RequestInv
  <2>2. call'[b].at \in {"core", "reads"} \/ call'[b].status \in {200, 404, 409} => Entitled(b)'
    BY <1>1, <1>2, <1>3 DEF RequestInv
  <2> QED BY <1>1, <1>2, <2>1, <2>2, RequestMoves
<1> QED BY <1>2, <1>4, RequestStep

LEMMA AnswerStep ==
  ASSUME RoutesInv, RightsRemembered, UNCHANGED accountVars, RowsWritten,
         NEW b \in Callers, NEW s \in Nat, Answers(b, s),
         call[b].at # "none", s \in {200, 404, 409} => Entitled(b)
  PROVE  RoutesInv'
<1>1. RequestsOK /\ RequestInv(b) /\ UNCHANGED lookup
  BY DEF RoutesInv, accountVars
<1>2. /\ call' \in [Callers -> Calls]
      /\ \A c \in Callers \ {b} : call'[c] = call[c]
      /\ call'[b].at = "answered" /\ call'[b].route = call[b].route /\ call'[b].of = call[b].of
      /\ call'[b].status = s /\ call'[b].mine = call[b].mine
  BY <1>1, AnswersWith
<1>3. Entitled(b)' <=> Entitled(b)
  BY <1>1, <1>2 DEF Entitled
<1>4. \A c \in Callers : RequestInv(c)'
  <2>1. /\ call'[b].at # "none" /\ call'[b].at # "session" /\ call'[b].of \in Ids
        /\ call'[b].at \notin {"guard", "core", "reads"}
        /\ call'[b].mine => call'[b].of = lookup[b].id
    BY <1>1, <1>2 DEF RequestInv
  <2>2. call'[b].at \in {"core", "reads"} \/ call'[b].status \in {200, 404, 409} => Entitled(b)'
    BY <1>2, <1>3, <2>1
  <2> QED BY <1>1, <1>2, <2>1, <2>2, RequestMoves
<1> QED BY <1>2, <1>4, RequestStep

\* What a step writes, it writes by a right that its request has.
WritesByRight ==
  /\ \A i \in Ids :
       reviewOf'[i] # reviewOf[i] /\ (Live(i))' =>
         \E b \in Callers :
           /\ call[b].at = "core" /\ call'[b].at # "core"
           /\ {<<lookup[b].id, "session">>, <<lookup[b].id, "moderator">>} \cap rights[b] # {}
           /\ lookup[b].id = i \/ <<lookup[b].id, "moderator">> \in rights[b]
  /\ listed' # listed =>
       \E b \in Callers : <<lookup[b].id, "catalogue_manager">> \in rights[b]

LEMMA NoWriteByRight ==
  ASSUME UNCHANGED <<reviewOf, listed>>
  PROVE  WritesByRight
BY DEF WritesByRight

\* The record of no request.
LEMMA NoCallIsOne ==
  NoCall \in Calls /\ NoCall.at = "none" /\ NoCall.status = 0 /\ NoCall.mine = FALSE
BY AccountAssumption DEF NoCall, Calls, Needs

\* What the record of a request that arrives says: nothing is answered yet.
LEMMA ArrivesAs ==
  ASSUME RequestsOK, NEW b \in Callers, NEW route \in DOMAIN Needs, NEW i \in Ids, Arrive(b, route, i)
  PROVE  /\ call' \in [Callers -> Calls] /\ \A c \in Callers \ {b} : call'[c] = call[c]
         /\ call'[b].at = "session" /\ call'[b].route = route /\ call'[b].of = i
         /\ call'[b].flaw \in {"none"} \cup Flaws[route]
         /\ call'[b].status = 0 /\ ~call'[b].mine
<1> DEFINE r(flaw) == [at |-> "session", route |-> route, of |-> i, flaw |-> flaw, status |-> 0,
                       mine |-> FALSE]
<1>1. PICK flaw \in {"none"} \cup Flaws[route] : call' = [call EXCEPT ![b] = r(flaw)]
  BY DEF Arrive
<1>2. r(flaw) \in Calls
  BY AccountAssumption DEF Calls, Ids
<1>3. /\ r(flaw).at = "session" /\ r(flaw).route = route /\ r(flaw).of = i
      /\ r(flaw).flaw = flaw /\ r(flaw).status = 0 /\ ~r(flaw).mine
  OBVIOUS
<1> HIDE DEF r
<1>4. /\ call' \in [Callers -> Calls] /\ call'[b] = r(flaw)
      /\ \A c \in Callers \ {b} : call'[c] = call[c]
  BY <1>1, <1>2 DEF RequestsOK
<1> QED BY <1>1, <1>3, <1>4

\* The steps of a request before its call of packages/reviews.
LEMMA RequestBefore ==
  ASSUME RoutesInv, RightsRemembered, NEW b \in Callers,
         \/ \E route \in DOMAIN Needs, i \in 1 .. issued : Arrive(b, route, i)
         \/ Count(b) \/ Guard(b) \/ Refuse(b)
  PROVE  RoutesInv' /\ WritesByRight
<1>1. /\ UNCHANGED accountVars /\ UNCHANGED lookup /\ UNCHANGED <<reviewOf, listed>>
      /\ RowsWritten /\ WritesByRight /\ RequestInv(b) /\ RequestsOK /\ AccountsTypeOK
  <2>1. UNCHANGED accountVars /\ UNCHANGED <<reviewOf, listed>>
    BY DEF Arrive, Count, Guard, Refuse
  <2> QED BY <2>1, NothingWritten, NoWriteByRight DEF accountVars, RoutesInv, AccountsInv
<1>2. ASSUME NEW route \in DOMAIN Needs, NEW i \in 1 .. issued, Arrive(b, route, i)
      PROVE  RoutesInv'
  <2>1. i \in Ids
    BY <1>1, AccountAssumption DEF AccountsTypeOK, Ids
  <2>2. /\ call' \in [Callers -> Calls] /\ \A c \in Callers \ {b} : call'[c] = call[c]
        /\ call'[b].at = "session" /\ call'[b].of = i /\ call'[b].status = 0 /\ ~call'[b].mine
    BY <1>1, <1>2, <2>1, ArrivesAs
  <2>3. call[b].at = "none" => lookup[b].at = "none"
    BY <1>1 DEF RequestInv
  <2>4. \A c \in Callers : RequestInv(c)'
    BY <1>1, <2>1, <2>2, <2>3, RequestMoves
  <2> QED BY <1>1, <2>2, <2>4, RequestStep
<1>3. CASE Count(b)
  <2>1. CASE lookup[b].at = "inconsistent"
    BY <1>1, <1>3, <2>1, AnswerStep DEF Count
  <2>2. CASE lookup[b].at # "inconsistent"
    <3>1. lookup[b].at \in {"anonymous", "known"} /\ call[b].at = "session"
      BY <1>3, <2>2 DEF Count
    <3>2. CASE Moves(b, "guard")
      BY <1>1, <3>1, <3>2, MoveStep
    <3>3. CASE Answers(b, 429)
      BY <1>1, <3>1, <3>3, AnswerStep
    <3> QED BY <1>3, <2>2, <3>2, <3>3 DEF Count
  <2> QED BY <2>1, <2>2
<1>4. CASE Guard(b)
  <2>1. call[b].at = "guard" /\ lookup[b].at \in {"anonymous", "known"}
    BY <1>1, <1>4 DEF Guard, RequestInv
  <2>2. Passes(b) \in {200, 401, 403} /\ (Passes(b) = 200 => Entitled(b))
    BY <2>1 DEF Passes, Entitled
  <2>3. CASE Answers(b, 400)
    BY <1>1, <2>1, <2>3, AnswerStep
  <2>4. CASE Passes(b) = 200 /\ Moves(b, "core")
    BY <1>1, <2>1, <2>2, <2>4, MoveStep
  <2>5. CASE Passes(b) # 200 /\ Answers(b, Passes(b))
    <3>1. CASE Answers(b, 401)
      BY <1>1, <2>1, <3>1, AnswerStep
    <3>2. CASE Answers(b, 403)
      BY <1>1, <2>1, <3>2, AnswerStep
    <3> QED BY <2>2, <2>5, <3>1, <3>2
  <2> QED BY <1>4, <2>3, <2>4, <2>5 DEF Guard
<1>5. CASE Refuse(b)
  BY <1>1, <1>5, AnswerStep DEF Refuse
<1> QED BY <1>1, <1>2, <1>3, <1>4, <1>5

LEMMA ReadAnswers ==
  ASSUME RequestsOK, NEW b \in Callers, Read(b)
  PROVE  LET r == [at |-> "answered", route |-> call[b].route, of |-> call[b].of,
                   flaw |-> call[b].flaw, status |-> 200,
                   mine |-> lookup[b].at = "known" /\ call[b].of = Who(b)]
         IN  call' = [call EXCEPT ![b] = r] /\ r \in Calls
<1> DEFINE m == lookup[b].at = "known" /\ call[b].of = Who(b)
           q1 == [call[b] EXCEPT !.at = "answered"]
           q2 == [q1 EXCEPT !.status = 200]
           q3 == [q2 EXCEPT !.mine = m]
           c1 == [call EXCEPT ![b].at = "answered"]
           c2 == [c1 EXCEPT ![b].status = 200]
           r == [at |-> "answered", route |-> call[b].route, of |-> call[b].of,
                 flaw |-> call[b].flaw, status |-> 200, mine |-> m]
<1>1. call \in [Callers -> Calls] /\ call[b] \in Calls /\ m \in BOOLEAN
  BY DEF RequestsOK
<1>2. call' = [c2 EXCEPT ![b].mine = m]
  BY DEF Read
<1> HIDE DEF m
<1>3. q1 = [at |-> "answered", route |-> call[b].route, of |-> call[b].of, flaw |-> call[b].flaw,
            status |-> call[b].status, mine |-> call[b].mine]
  BY <1>1 DEF Calls
<1>4. q2 = [at |-> "answered", route |-> call[b].route, of |-> call[b].of, flaw |-> call[b].flaw,
            status |-> 200, mine |-> call[b].mine]
  <2> HIDE DEF q1
  <2> QED BY <1>3
<1>5. q3 = r
  <2> HIDE DEF q2
  <2> QED BY <1>4
<1>6. r \in Calls
  BY <1>1 DEF Calls
<1>7. c1 = [call EXCEPT ![b] = q1]
  OBVIOUS
<1> HIDE DEF q1, c1, r
<1>8. c1[b] = q1 /\ c1 = [call EXCEPT ![b] = q1]
  BY <1>1, <1>7
<1>9. c2 = [c1 EXCEPT ![b] = q2]
  BY <1>8
<1> HIDE DEF q2, c2
<1>10. c2[b] = q2 /\ c2 = [call EXCEPT ![b] = q2]
  BY <1>1, <1>8, <1>9
<1>11. call' = [c2 EXCEPT ![b] = q3]
  BY <1>2, <1>10
<1> HIDE DEF q3
<1>12. call' = [call EXCEPT ![b] = r]
  BY <1>1, <1>5, <1>10, <1>11
<1> QED BY <1>6, <1>12 DEF r, m

\* Who a request in a handler that needs a right is, and which right it has.
LEMMA RightOfRequest ==
  ASSUME RoutesInv, NEW b \in Callers, call[b].at = "core", Needs[call[b].route] # "nothing"
  PROVE  /\ Entitled(b) /\ Who(b) \in Ids
         /\ <<Who(b), "session">> \in rights[b]
         /\ Needs[call[b].route] # "session" => <<Who(b), Needs[call[b].route]>> \in rights[b]
<1>1. RequestInv(b) /\ Entitled(b) /\ b \in Browsers /\ AccountsTypeOK
  BY AccountAssumption DEF RoutesInv, RequestInv, AccountsInv
<1>2. lookup[b].at = "known" /\ (Needs[call[b].route] # "session" =>
                                   Needs[call[b].route] \in lookup[b].caps)
  BY <1>1 DEF Entitled
<1>3. Who(b) \in Ids
  BY <1>1, <1>2, IdentitiesHeld DEF Who
<1> QED BY <1>1, <1>2, <1>3 DEF RequestInv, Who

\* The calls that only read.
LEMMA RequestReads ==
  ASSUME RoutesInv, RightsRemembered, NEW b \in Callers,
         \/ ListProducts(b) \/ Bootstrap(b) \/ GetProduct(b) \/ ListReviews(b)
         \/ Read(b) \/ CallFails(b)
  PROVE  RoutesInv' /\ WritesByRight
<1>1. /\ UNCHANGED accountVars /\ UNCHANGED lookup /\ UNCHANGED <<reviewOf, listed>>
      /\ RowsWritten /\ WritesByRight /\ RequestInv(b) /\ RequestsOK
  <2>1. UNCHANGED accountVars /\ UNCHANGED <<reviewOf, listed>>
    BY DEF ListProducts, Bootstrap, GetProduct, ListReviews, Read, CallFails, Runs
  <2> QED BY <2>1, NothingWritten, NoWriteByRight DEF accountVars, RoutesInv
<1>2. CASE ListProducts(b) \/ Bootstrap(b) \/ GetProduct(b) \/ ListReviews(b)
  <2>1. /\ call[b].at = "core" /\ Entitled(b) /\ call[b].at # "none"
        /\ lookup[b].at \in {"anonymous", "known"}
    BY <1>1, <1>2 DEF ListProducts, Bootstrap, GetProduct, ListReviews, Runs, RequestInv
  <2>2. \/ Answers(b, 200) \/ Answers(b, 404) \/ Moves(b, "reads")
    BY <1>2 DEF ListProducts, Bootstrap, GetProduct, ListReviews
  <2>3. CASE Answers(b, 200)
    BY <1>1, <2>1, <2>3, AnswerStep
  <2>4. CASE Answers(b, 404)
    BY <1>1, <2>1, <2>4, AnswerStep
  <2>5. CASE Moves(b, "reads")
    BY <1>1, <2>1, <2>5, MoveStep
  <2> QED BY <1>1, <2>2, <2>3, <2>4, <2>5
<1>3. CASE Read(b)
  <2> DEFINE m == lookup[b].at = "known" /\ call[b].of = Who(b)
             r == [at |-> "answered", route |-> call[b].route, of |-> call[b].of,
                   flaw |-> call[b].flaw, status |-> 200, mine |-> m]
  <2>1. call' = [call EXCEPT ![b] = r] /\ r \in Calls
    BY <1>1, <1>3, ReadAnswers
  <2>2. r.at = "answered" /\ r.route = call[b].route /\ r.of = call[b].of /\ r.status = 200
        /\ (r.mine => call[b].of = lookup[b].id)
    BY DEF Who
  <2> HIDE DEF m, r
  <2>3. /\ call' \in [Callers -> Calls] /\ call'[b] = r
        /\ \A c \in Callers \ {b} : call'[c] = call[c]
    BY <1>1, <2>1 DEF RequestsOK
  <2>4. call[b].at = "reads" /\ Entitled(b)
    BY <1>1, <1>3 DEF Read, RequestInv
  <2>5. Entitled(b)'
    BY <1>1, <2>2, <2>3, <2>4 DEF Entitled
  <2>6. call'[b].of \in Ids
    BY <1>1, <2>2, <2>3, <2>4 DEF RequestInv
  <2>7. /\ call'[b].at # "none" /\ call'[b].at # "session"
        /\ call'[b].at \notin {"guard", "core", "reads"}
        /\ call'[b].mine => call'[b].of = lookup[b].id
        /\ call[b].at # "none"
    BY <2>2, <2>3, <2>4
  <2>8. \A c \in Callers : RequestInv(c)'
    BY <1>1, <2>3, <2>5, <2>6, <2>7, RequestMoves
  <2> QED BY <1>1, <2>3, <2>8, RequestStep
<1>4. CASE CallFails(b)
  BY <1>1, <1>4, AnswerStep DEF CallFails
<1> QED BY <1>1, <1>2, <1>3, <1>4

LEMMA SubmitReads ==
  ASSUME RequestsOK, NEW b \in Callers, NEW i \in Ids,
         call' = [call EXCEPT ![b].at = "reads", ![b].of = i]
  PROVE  /\ call' \in [Callers -> Calls]
         /\ \A c \in Callers \ {b} : call'[c] = call[c]
         /\ call'[b].at = "reads" /\ call'[b].route = call[b].route /\ call'[b].of = i
         /\ call'[b].flaw = call[b].flaw
         /\ call'[b].status = call[b].status /\ call'[b].mine = call[b].mine
<1> DEFINE q1 == [call[b] EXCEPT !.at = "reads"]
           q2 == [q1 EXCEPT !.of = i]
           c1 == [call EXCEPT ![b].at = "reads"]
           r == [at |-> "reads", route |-> call[b].route, of |-> i, flaw |-> call[b].flaw,
                 status |-> call[b].status, mine |-> call[b].mine]
<1>1. call \in [Callers -> Calls] /\ call[b] \in Calls
  BY DEF RequestsOK
<1>2. call' = [c1 EXCEPT ![b].of = i]
  OBVIOUS
<1>3. q1 = [at |-> "reads", route |-> call[b].route, of |-> call[b].of, flaw |-> call[b].flaw,
            status |-> call[b].status, mine |-> call[b].mine]
  BY <1>1 DEF Calls
<1>4. q2 = r
  <2> HIDE DEF q1
  <2> QED BY <1>3
<1>5. r \in Calls
  BY <1>1, AccountAssumption DEF Calls, Ids
<1>6. /\ r.at = "reads" /\ r.route = call[b].route /\ r.of = i /\ r.status = call[b].status
      /\ r.flaw = call[b].flaw /\ r.mine = call[b].mine
  OBVIOUS
<1>7. c1 = [call EXCEPT ![b] = q1]
  OBVIOUS
<1> HIDE DEF q1, c1, r
<1>8. c1[b] = q1
  BY <1>1, <1>7
<1>9. call' = [c1 EXCEPT ![b] = q2]
  BY <1>2, <1>8
<1> HIDE DEF q2
<1>10. call' = [call EXCEPT ![b] = r]
  BY <1>1, <1>4, <1>7, <1>9
<1>11. call'[b] = r /\ (\A c \in Callers \ {b} : call'[c] = call[c]) /\ call' \in [Callers -> Calls]
  BY <1>1, <1>5, <1>10
<1> QED BY <1>6, <1>11

\* One review is written, by its author or a moderator.
LEMMA ReviewWritten ==
  ASSUME RoutesInv, NEW i \in Ids, NEW state \in {"published", "rejected", Nothing},
         reviewOf' = [reviewOf EXCEPT ![i] = state], listed' = listed,
         state # Nothing => reviewOf[i] # Nothing \/ Live(i),
         NEW b \in Callers, call[b].at = "core", call'[b].at # "core",
         \/ Who(b) = i /\ <<Who(b), "session">> \in rights[b]
         \/ <<Who(b), "moderator">> \in rights[b]
  PROVE  RowsWritten /\ WritesByRight
<1>1. /\ reviewOf \in [Ids -> {"published", "rejected", Nothing}]
      /\ listed \in Names \cup {Nothing}
  BY DEF RoutesInv, RequestsOK
<1>2. \A j \in Ids : reviewOf'[j] = IF j = i THEN state ELSE reviewOf[j]
  BY <1>1
<1>3. RowsWritten
  BY <1>1, <1>2 DEF RowsWritten
<1>4. WritesByRight
  BY <1>2 DEF WritesByRight, Who
<1> QED BY <1>3, <1>4

\* The call of submitReview.
LEMMA SubmitStep ==
  ASSUME RoutesInv, RightsRemembered, NEW b \in Callers, Submit(b)
  PROVE  RoutesInv' /\ WritesByRight
<1>1. /\ UNCHANGED accountVars /\ UNCHANGED lookup /\ listed' = listed
      /\ RequestInv(b) /\ RequestsOK
      /\ call[b].at = "core" /\ call[b].at # "none" /\ Needs[call[b].route] = "session"
  BY DEF accountVars, RoutesInv, Submit, Runs, Needs
<1>2. Entitled(b) /\ Who(b) \in Ids /\ <<Who(b), "session">> \in rights[b]
  BY <1>1, RightOfRequest
<1>3. ASSUME call' = [call EXCEPT ![b].at = "reads", ![b].of = Who(b)], RowsWritten
      PROVE  RoutesInv'
  <2> DEFINE i == Who(b)
  <2>0. i \in Ids /\ call' = [call EXCEPT ![b].at = "reads", ![b].of = i]
        /\ i = lookup[b].id
    BY <1>2, <1>3 DEF Who
  <2> HIDE DEF i
  <2>1. /\ call' \in [Callers -> Calls]
        /\ \A c \in Callers \ {b} : call'[c] = call[c]
        /\ call'[b].at = "reads" /\ call'[b].route = call[b].route /\ call'[b].of = i
        /\ call'[b].status = call[b].status /\ call'[b].mine = call[b].mine
    BY <1>1, <2>0, SubmitReads
  <2>2. Entitled(b)'
    BY <1>1, <1>2, <2>1 DEF Entitled
  <2>3. lookup[b].at \in {"anonymous", "known"}
    BY <1>1 DEF RequestInv
  <2>4. /\ call'[b].at # "none" /\ call'[b].at # "session" /\ call'[b].of \in Ids
        /\ call'[b].mine => call'[b].of = lookup[b].id
    BY <2>0, <2>1
  <2>5. \A c \in Callers : RequestInv(c)'
    BY <1>1, <2>1, <2>2, <2>3, <2>4, RequestMoves
  <2> QED BY <1>1, <1>3, <2>1, <2>5, RequestStep
<1>4. CASE /\ Live(Who(b))
           /\ reviewOf' = [reviewOf EXCEPT ![Who(b)] = "published"]
           /\ call' = [call EXCEPT ![b].at = "reads", ![b].of = Who(b)]
  <2> DEFINE i == Who(b)
  <2>0. /\ i \in Ids /\ call' = [call EXCEPT ![b].at = "reads", ![b].of = i]
        /\ reviewOf' = [reviewOf EXCEPT ![i] = "published"] /\ Live(i)
        /\ <<i, "session">> \in rights[b]
    BY <1>2, <1>4
  <2>1. call'[b].at = "reads"
    <3> HIDE DEF i
    <3> QED BY <1>1, <2>0, SubmitReads
  <2>2. RowsWritten /\ WritesByRight
    <3>1. i = Who(b)
      OBVIOUS
    <3>2. call'[b].at # "core"
      BY <2>1
    <3> HIDE DEF i
    <3> QED BY <1>1, <2>0, <3>1, <3>2, ReviewWritten
  <2> QED BY <1>3, <1>4, <2>2
<1>5. CASE UNCHANGED reviewOf
  <2>1. RowsWritten /\ WritesByRight
    BY <1>1, <1>5, NothingWritten, NoWriteByRight
  <2>2. \/ call' = [call EXCEPT ![b].at = "reads", ![b].of = Who(b)]
        \/ Answers(b, 409) \/ Answers(b, 404) \/ Answers(b, 500)
    BY DEF Submit
  <2>3. CASE Answers(b, 409)
    BY <1>1, <1>2, <2>1, <2>3, AnswerStep
  <2>4. CASE Answers(b, 404)
    BY <1>1, <1>2, <2>1, <2>4, AnswerStep
  <2>5. CASE Answers(b, 500)
    BY <1>1, <1>2, <2>1, <2>5, AnswerStep
  <2> QED BY <1>3, <2>1, <2>2, <2>3, <2>4, <2>5
<1> QED BY <1>4, <1>5 DEF Submit

\* The calls of updateReview, removeReview and of the moderation.
LEMMA ReviewStep ==
  ASSUME RoutesInv, RightsRemembered, NEW b \in Callers, WriteOwn(b) \/ Moderate(b)
  PROVE  RoutesInv' /\ WritesByRight
<1> DEFINE i == call[b].of
<1>1. /\ UNCHANGED accountVars /\ UNCHANGED lookup /\ listed' = listed
      /\ RequestInv(b) /\ RequestsOK /\ call[b].at = "core" /\ call[b].at # "none"
      /\ Needs[call[b].route] \in {"session", "moderator"}
  BY DEF accountVars, RoutesInv, WriteOwn, Moderate, Runs, Needs
<1>2. /\ Entitled(b) /\ <<Who(b), "session">> \in rights[b] /\ i \in Ids
      /\ Needs[call[b].route] = "moderator" => <<Who(b), "moderator">> \in rights[b]
      /\ lookup[b].at \in {"anonymous", "known"}
  BY <1>1, RightOfRequest DEF RequestInv
<1>3. CASE UNCHANGED reviewOf /\ (Answers(b, 403) \/ Answers(b, 404) \/ Moves(b, "reads"))
  <2>1. RowsWritten /\ WritesByRight
    BY <1>1, <1>3, NothingWritten, NoWriteByRight
  <2>2. CASE Answers(b, 403)
    BY <1>1, <1>2, <2>1, <2>2, AnswerStep
  <2>3. CASE Answers(b, 404)
    BY <1>1, <1>2, <2>1, <2>3, AnswerStep
  <2>4. CASE Moves(b, "reads")
    BY <1>1, <1>2, <2>1, <2>4, MoveStep
  <2> QED BY <1>3, <2>1, <2>2, <2>3, <2>4
<1>4. CASE /\ i = Who(b) /\ Answers(b, 200) /\ reviewOf' = [reviewOf EXCEPT ![i] = Nothing]
  <2>1. call'[b].at # "core"
    BY <1>1, <1>4, AnswersWith
  <2>2. RowsWritten /\ WritesByRight
    <3> HIDE DEF i
    <3> QED BY <1>1, <1>2, <1>4, <2>1, ReviewWritten
  <2> QED BY <1>1, <1>2, <1>4, <2>2, AnswerStep
<1>5. CASE /\ Moderate(b) /\ reviewOf[i] # Nothing /\ Moves(b, "reads")
           /\ reviewOf' = [reviewOf EXCEPT ![i] =
                             IF call[b].route = "reject" THEN "rejected" ELSE "published"]
  <2>1. call'[b].at # "core"
    BY <1>1, <1>5, MovesTo
  <2>2. PICK state \in {"published", "rejected"} : reviewOf' = [reviewOf EXCEPT ![i] = state]
    BY <1>5
  <2>3. <<Who(b), "moderator">> \in rights[b]
    BY <1>1, <1>2, <1>5 DEF Moderate, Runs, Needs
  <2>4. RowsWritten /\ WritesByRight
    <3>1. state \in {"published", "rejected", Nothing} /\ reviewOf[i] # Nothing
      BY <1>5, <2>2
    <3> HIDE DEF i
    <3> QED BY <1>1, <1>2, <2>1, <2>2, <2>3, <3>1, ReviewWritten
  <2> QED BY <1>1, <1>2, <1>5, <2>4, MoveStep
<1>6. CASE WriteOwn(b)
  BY <1>3, <1>4, <1>6 DEF WriteOwn
<1>7. CASE Moderate(b)
  BY <1>3, <1>5, <1>7 DEF Moderate
<1> QED BY <1>6, <1>7

\* The calls of createProduct and updateProduct.
LEMMA CatalogueWrites ==
  ASSUME RoutesInv, RightsRemembered, NEW b \in Callers, Create(b) \/ Edit(b)
  PROVE  RoutesInv' /\ WritesByRight
<1>1. /\ UNCHANGED accountVars /\ UNCHANGED lookup /\ reviewOf' = reviewOf
      /\ RequestInv(b) /\ RequestsOK /\ call[b].at = "core" /\ call[b].at # "none"
      /\ Needs[call[b].route] = "catalogue_manager"
  BY DEF accountVars, RoutesInv, Create, Edit, Runs, Needs
<1>2. /\ Entitled(b) /\ <<lookup[b].id, "catalogue_manager">> \in rights[b]
      /\ lookup[b].at \in {"anonymous", "known"}
  BY <1>1, RightOfRequest DEF RequestInv, Who
<1>3. listed' \in Names \cup {Nothing}
  BY <1>1 DEF Create, Edit, RequestsOK
<1>4. RowsWritten /\ WritesByRight
  BY <1>1, <1>2, <1>3 DEF RowsWritten, WritesByRight, RequestsOK
<1>5. Answers(b, 200) \/ Answers(b, 404) \/ Answers(b, 409) \/ Moves(b, "reads")
  BY DEF Create, Edit
<1>6. CASE Answers(b, 200)
  BY <1>1, <1>2, <1>4, <1>6, AnswerStep
<1>7. CASE Answers(b, 404)
  BY <1>1, <1>2, <1>4, <1>7, AnswerStep
<1>8. CASE Answers(b, 409)
  BY <1>1, <1>2, <1>4, <1>8, AnswerStep
<1>9. CASE Moves(b, "reads")
  BY <1>1, <1>2, <1>4, <1>9, MoveStep
<1> QED BY <1>4, <1>5, <1>6, <1>7, <1>8, <1>9

\* A request leaves, and takes what it looked up with it.
LEMMA LeaveStep ==
  ASSUME RoutesInv, RightsRemembered, NEW b \in Callers, Leave(b)
  PROVE  RoutesInv' /\ WritesByRight
<1>1. /\ call' = [call EXCEPT ![b] = NoCall] /\ lookup' = [lookup EXCEPT ![b] = NoLookup]
      /\ UNCHANGED <<today, identity, issued, appUser, link, session, signIn>>
      /\ UNCHANGED <<reviewOf, listed>>
      /\ AccountsInv /\ AccountsTypeOK /\ RequestsOK /\ b \in Browsers
  BY AccountAssumption DEF Leave, rows, RoutesInv, AccountsInv
<1>2. /\ call' \in [Callers -> Calls] /\ call'[b] = NoCall
      /\ \A c \in Callers \ {b} : call'[c] = call[c]
  BY <1>1, NoCallIsOne DEF RequestsOK
<1>3. /\ NoLookup \in Lookups /\ NoLookup.at = "none" /\ NoLookup.id = 0
  BY AccountAssumption DEF NoLookup, Lookups
<1>4. /\ lookup' \in [Browsers -> Lookups] /\ lookup'[b] = NoLookup
      /\ \A x \in Browsers \ {b} : lookup'[x] = lookup[x]
  BY <1>1, <1>3 DEF AccountsTypeOK
<1>5. AccountsTypeOK'
  BY <1>1, <1>3, <1>4 DEF AccountsTypeOK
<1>6. AccountsInv'
  BY <1>1, <1>3, <1>4, <1>5, RowsStay
<1>7. AuthorsInv'
  <2>1. \A i : Live(i)' <=> Live(i)
    BY <1>1 DEF Live
  <2> QED BY <1>1, <2>1 DEF RoutesInv, AuthorsInv
<1>8. \A c \in Callers : RequestInv(c)'
  <2>1. ASSUME NEW c \in Callers, c # b PROVE RequestInv(c)'
    <3>1. call'[c] = call[c] /\ lookup'[c] = lookup[c]
      BY <1>2, <1>4, <2>1, AccountAssumption
    <3> QED BY <3>1, OthersStay DEF RoutesInv
  <2>2. RequestInv(b)'
    BY <1>2, <1>3, <1>4, NoCallIsOne DEF RequestInv
  <2> QED BY <2>1, <2>2
<1> QED BY <1>1, <1>2, <1>6, <1>7, <1>8, NoWriteByRight DEF RoutesInv, RequestsOK

\* Its session and its user are looked up, and both are rights of that moment.
LEMMA ResolveStep ==
  ASSUME RoutesInv, RightsRemembered, NEW b \in Callers, Resolve(b)
  PROVE  RoutesInv' /\ WritesByRight
<1>1. /\ AccountsInv /\ AccountsTypeOK /\ RequestsOK /\ RequestInv(b) /\ b \in Browsers
      /\ call[b].at = "session" /\ UNCHANGED call /\ UNCHANGED <<reviewOf, listed>>
      /\ UNCHANGED <<identity, appUser, session>>
  BY AccountAssumption
     DEF Resolve, FindSession, FindUser, rows, RoutesInv, AccountsInv
<1>2. AccountsInv'
  BY <1>1, LookupKeeps DEF Resolve
<1>3. AuthorsInv'
  <2>1. \A i : Live(i)' <=> Live(i)
    BY <1>1 DEF Live
  <2> QED BY <1>1, <2>1 DEF RoutesInv, AuthorsInv
<1>4. rights'[b] = rights[b] \cup RightsNow \cup RightsNow'
  BY <1>1 DEF RightsRemembered
<1>5. \A c \in Callers \ {b} : call'[c] = call[c] /\ lookup'[c] = lookup[c]
  BY <1>1, AccountAssumption DEF Resolve, FindSession, FindUser, AccountsTypeOK
<1>6. RequestInv(b)'
  <2>1. lookup[b] \in Lookups
    BY <1>1 DEF AccountsTypeOK
  <2>2. CASE FindSession(b)
    <3>1. CASE session[b] # Nothing /\ today <= session[b].expires
      <4>1. lookup'[b].at = "found" /\ lookup'[b].id = session[b].id
        BY <1>1, <2>1, <2>2, <3>1 DEF FindSession, AccountsTypeOK, Lookups
      <4>2. <<session[b].id, "session">> \in RightsNow
        BY <3>1 DEF RightsNow
      <4> QED BY <1>1, <1>4, <4>1, <4>2 DEF RequestInv
    <3>2. CASE ~(session[b] # Nothing /\ today <= session[b].expires)
      <4>1. lookup'[b].at = "anonymous"
        BY <1>1, <2>1, <2>2, <3>2 DEF FindSession, AccountsTypeOK, Lookups
      <4> QED BY <1>1, <4>1 DEF RequestInv
    <3> QED BY <3>1, <3>2
  <2>3. CASE FindUser(b)
    <3>1. lookup[b].at = "found" /\ lookup[b].id \in Ids
      BY <1>1, <2>3, IdentitiesHeld DEF FindUser
    <3>2. <<lookup[b].id, "session">> \in rights'[b]
      BY <1>1, <1>4, <3>1 DEF RequestInv
    <3>3. CASE appUser[lookup[b].id] = Nothing
      <4>1. lookup'[b].at = "inconsistent" /\ lookup'[b].id = lookup[b].id
        BY <1>1, <2>1, <2>3, <3>3 DEF FindUser, AccountsTypeOK, Lookups
      <4> QED BY <1>1, <3>2, <4>1 DEF RequestInv
    <3>4. CASE appUser[lookup[b].id] # Nothing
      <4>1. /\ lookup'[b].at = "known" /\ lookup'[b].id = lookup[b].id
            /\ lookup'[b].caps = appUser[lookup[b].id].caps
        <5> DEFINE l0 == [lookup[b] EXCEPT !.at = "known"]
                   l == [l0 EXCEPT !.caps = appUser[lookup[b].id].caps]
        <5>1. lookup' = [lookup EXCEPT ![b] = l]
          BY <2>3, <3>4 DEF FindUser
        <5>2. l = [at |-> "known", id |-> lookup[b].id, caps |-> appUser[lookup[b].id].caps]
          <6>1. l0 = [at |-> "known", id |-> lookup[b].id, caps |-> lookup[b].caps]
            BY <2>1 DEF Lookups
          <6> HIDE DEF l0
          <6> QED BY <6>1
        <5> HIDE DEF l
        <5>3. lookup'[b] = l
          BY <1>1, <5>1 DEF AccountsTypeOK
        <5> QED BY <5>2, <5>3
      <4>2. \A cap \in appUser[lookup[b].id].caps : <<lookup[b].id, cap>> \in RightsNow
        BY <3>1, <3>4 DEF RightsNow
      <4> QED BY <1>1, <1>4, <3>2, <4>1, <4>2 DEF RequestInv
    <3> QED BY <3>3, <3>4
  <2> QED BY <2>2, <2>3 DEF Resolve
<1>7. \A c \in Callers : RequestInv(c)'
  BY <1>5, <1>6, OthersStay DEF RoutesInv
<1>8. RequestsOK'
  BY <1>1 DEF RequestsOK
<1>9. WritesByRight
  BY <1>1, NoWriteByRight
<1> QED BY <1>2, <1>3, <1>7, <1>8, <1>9 DEF RoutesInv

\* An erased author's review goes, and no other is touched.
LEMMA EraseAuthorStep ==
  ASSUME RoutesInv, RightsRemembered, NEW a \in Addresses, EraseAuthor(a)
  PROVE  RoutesInv' /\ WritesByRight
<1> DEFINE gone == identity[a]
<1>1. /\ AccountsInv /\ RequestsOK /\ Erase(a) /\ UNCHANGED lookup
      /\ reviewOf' = [reviewOf EXCEPT ![gone] = Nothing]
      /\ UNCHANGED <<call, listed>>
  BY DEF EraseAuthor, Erase, RoutesInv
<1>2. AccountsInv'
  BY <1>1, EraseKeeps
<1>3. ASSUME NEW j, j = gone PROVE \A i : Live(i)' <=> Live(i) /\ i # j
  BY <1>1, <1>3, EraseEnds
<1> HIDE DEF gone
<1>4. \A i \in Ids : reviewOf'[i] = IF i = gone THEN Nothing ELSE reviewOf[i]
  BY <1>1 DEF RequestsOK
<1>5. RequestsOK'
  BY <1>1 DEF RequestsOK
<1>6. AuthorsInv'
  BY <1>3, <1>4 DEF RoutesInv, AuthorsInv
<1>7. \A c \in Callers : RequestInv(c)'
  BY <1>1, OthersStay DEF RoutesInv
<1>8. WritesByRight
  BY <1>1, <1>3, <1>4 DEF WritesByRight
<1> QED BY <1>2, <1>5, <1>6, <1>7, <1>8 DEF RoutesInv

\* A session ends, or a capability is granted.
LEMMA AccountMovesStep ==
  ASSUME RoutesInv, RightsRemembered, AccountMoves, UNCHANGED <<call, reviewOf, listed>>
  PROVE  RoutesInv' /\ WritesByRight
<1>1. AccountsInv /\ RequestsOK /\ UNCHANGED <<identity, lookup>>
  BY DEF AccountMoves, SignOut, Grant, RoutesInv
<1>2. AccountsInv'
  BY <1>1, AccountAssumption, AccountStepKeeps DEF AccountMoves, AccountStep
<1>3. AuthorsInv'
  <2>1. \A i : Live(i)' <=> Live(i)
    BY <1>1 DEF Live
  <2> QED BY <2>1 DEF RoutesInv, AuthorsInv
<1>4. \A c \in Callers : RequestInv(c)'
  BY <1>1, OthersStay DEF RoutesInv
<1> QED BY <1>1, <1>2, <1>3, <1>4, NoWriteByRight DEF RoutesInv, RequestsOK

LEMMA RoutesStep == RoutesInv /\ [RoutesNext]_routeVars => RoutesInv' /\ WritesByRight
<1> SUFFICES ASSUME RoutesInv, [RoutesNext]_routeVars PROVE RoutesInv' /\ WritesByRight
  OBVIOUS
<1>1. CASE UNCHANGED routeVars
  <2>1. UNCHANGED <<accountVars, identity, lookup, call, reviewOf, listed, rights>>
    BY <1>1 DEF routeVars, accountVars, rows
  <2>2. AccountsInv'
    BY <2>1, AccountsUnchanged DEF RoutesInv
  <2>3. \A i : Live(i)' <=> Live(i)
    BY <2>1 DEF Live
  <2>4. RequestsOK' /\ AuthorsInv'
    BY <2>1, <2>3 DEF RoutesInv, RequestsOK, AuthorsInv
  <2>5. \A c \in Callers : RequestInv(c)'
    BY <2>1 DEF RoutesInv, RequestInv, Entitled
  <2> QED BY <2>1, <2>2, <2>4, <2>5, NoWriteByRight DEF RoutesInv
<1>2. CASE RoutesNext
  <2>1. RightsRemembered
    BY <1>2 DEF RoutesNext, RightsRemembered
  <2>2. ASSUME NEW b \in Callers, RouteStep(b)
        PROVE  RoutesInv' /\ WritesByRight
    BY <2>1, <2>2, RequestBefore, RequestReads, SubmitStep, ReviewStep, CatalogueWrites,
       ResolveStep, LeaveStep DEF RouteStep
  <2>3. ASSUME NEW a \in Addresses, EraseAuthor(a)
        PROVE  RoutesInv' /\ WritesByRight
    BY <2>1, <2>3, EraseAuthorStep
  <2>4. CASE AccountMoves /\ UNCHANGED <<call, reviewOf, listed>>
    BY <2>1, <2>4, AccountMovesStep
  <2> QED BY <1>2, <2>2, <2>3, <2>4 DEF RoutesNext
<1> QED BY <1>1, <1>2

\* What an answer that is not for everyone rests on, in any state.
AnswersByRight ==
  /\ \A b \in Callers :
       call[b].status \in {200, 404, 409} /\ Needs[call[b].route] # "nothing" =>
         /\ <<lookup[b].id, "session">> \in rights[b]
         /\ Needs[call[b].route] # "session" => <<lookup[b].id, Needs[call[b].route]>> \in rights[b]
         /\ call[b].mine => call[b].of = lookup[b].id
  /\ AuthorsInv

LEMMA AnswersAreByRight == RoutesInv => AnswersByRight
BY DEF RoutesInv, RequestInv, Entitled, AnswersByRight

LEMMA RoutesKeepAccounts == RoutesInv /\ [RoutesNext]_routeVars => KeepsAccounts
<1> SUFFICES ASSUME RoutesInv, [RoutesNext]_routeVars PROVE KeepsAccounts
  OBVIOUS
<1>1. AccountsInv
  BY DEF RoutesInv
<1>2. ASSUME NEW b \in Callers, RouteStep(b) PROVE KeepsAccounts
  <2>1. UNCHANGED <<appUser, session, link>>
    BY <1>2 DEF RouteStep, Arrive, Resolve, FindSession, FindUser, Count, Guard, Refuse, Runs,
                ListProducts, GetProduct, Bootstrap, ListReviews, Submit, WriteOwn, Moderate,
                Create, Edit, Read, CallFails, Leave, accountVars, rows
  <2> QED BY <2>1, UntouchedKept
<1>3. ASSUME NEW a \in Addresses, EraseAuthor(a) PROVE KeepsAccounts
  BY <1>1, <1>3, EraseKept DEF EraseAuthor
<1>4. CASE AccountMoves
  BY <1>1, <1>4, AccountAssumption, AccountStepKept DEF AccountMoves, AccountStep
<1>5. CASE UNCHANGED routeVars
  BY <1>5, UntouchedKept DEF routeVars, accountVars, rows
<1> QED BY <1>2, <1>3, <1>4, <1>5 DEF RoutesNext

LEMMA RoutesInductive == RoutesSpec => []RoutesInv
BY RoutesInitHolds, RoutesStep, PTL DEF RoutesSpec

\* session-middleware.ts:53, reviews.router.ts:70-73 and 162-166,
\* products.router.ts:80-82: whatever ends, is granted or erased while a request is
\* served, it writes and is answered only by a right its user had since it arrived.
THEOREM RoutesServeByRight == RoutesSpec => ServedByRight
<1>1. RoutesInv' => AnswersByRight'
  BY AnswersAreByRight, PTL
<1>2. AnswersByRight' /\ WritesByRight => ServesByRight
  BY DEF AnswersByRight, AuthorsInv, WritesByRight, ServesByRight
<1>3. RoutesInv /\ [RoutesNext]_routeVars => [ServesByRight]_routeVars
  BY <1>1, <1>2, RoutesStep
<1> QED BY <1>3, RoutesInductive, PTL DEF RoutesSpec, ServedByRight

\* factory.ts:341-356, session-middleware.ts:49-51: between the requests of all the
\* routes too, a session has its user and nothing of an account is lost.
THEOREM RoutesKeep == RoutesSpec => []SessionsHaveUsers /\ AccountsKept
<1>1. RoutesInv => AccountsInv
  BY DEF RoutesInv
<1>2. RoutesSpec => []SessionsHaveUsers
  BY <1>1, RoutesInductive, UsersOfSessions, PTL
<1>3. RoutesInv /\ [RoutesNext]_routeVars => [KeepsAccounts]_accountVars
  BY RoutesKeepAccounts
<1>4. RoutesSpec => AccountsKept
  BY <1>3, RoutesInductive, PTL DEF RoutesSpec, AccountsKept
<1> QED BY <1>2, <1>4

\* The tables of the contract, route by route.
LEMMA ProductRoutesAre ==
  /\ DOMAIN ProductRoutes = {"listProducts", "get", "createProduct", "updateProduct"}
  /\ ProductRoutes["listProducts"] = Route("GET", {400, 429})
  /\ ProductRoutes["get"] = Route("GET", {400, 404, 429})
  /\ ProductRoutes["createProduct"] = Route("POST", {400, 401, 403, 409})
  /\ ProductRoutes["updateProduct"] = Route("PATCH", {400, 401, 403, 404})
BY DEF ProductRoutes

LEMMA ReviewRoutesAre ==
  /\ DOMAIN ReviewRoutes = {"listForProduct", "submit", "update", "remove"}
  /\ ReviewRoutes["listForProduct"] = Route("GET", {400, 404, 429})
  /\ ReviewRoutes["submit"] = Route("POST", {400, 401, 404, 409, 429})
  /\ ReviewRoutes["update"] = Route("PATCH", {400, 401, 403, 429})
  /\ ReviewRoutes["remove"] = Route("DELETE", {400, 401, 403})
BY DEF ReviewRoutes

LEMMA ModerationRoutesAre ==
  /\ DOMAIN ModerationRoutes = {"moderationList", "reject", "restore"}
  /\ ModerationRoutes["moderationList"] = Route("GET", {400, 401, 403, 429})
  /\ ModerationRoutes["reject"] = Route("POST", {400, 401, 403, 404})
  /\ ModerationRoutes["restore"] = Route("POST", {400, 401, 403, 404})
  /\ DOMAIN SessionRoutes = {"bootstrap"}
  /\ SessionRoutes["bootstrap"] = Route("GET", {})
BY DEF ModerationRoutes, SessionRoutes

LEMMA RouteIs == \A method, errors : Route(method, errors).method = method /\ Route(method, errors).errors = errors
BY DEF Route

LEMMA BothAre ==
  ASSUME NEW f, NEW g
  PROVE  /\ DOMAIN Both(f, g) = DOMAIN f \cup DOMAIN g
         /\ \A x \in DOMAIN f : Both(f, g)[x] = f[x]
         /\ \A x \in DOMAIN g : x \notin DOMAIN f => Both(f, g)[x] = g[x]
BY DEF Both

LEMMA NeedsAre ==
  /\ DOMAIN Needs = {"listProducts", "get", "listForProduct", "bootstrap", "submit", "update", "remove",
                     "moderationList", "reject", "restore", "createProduct", "updateProduct"}
  /\ \A r \in DOMAIN Needs :
       /\ Needs[r] = "nothing" <=> r \in {"listProducts", "get", "listForProduct"}
       /\ Needs[r] = "session" <=> r \in {"bootstrap", "submit", "update", "remove"}
BY DEF Needs

LEMMA ContractIs ==
  /\ DOMAIN Contract = DOMAIN Needs
  /\ \A r \in DOMAIN ProductRoutes : Contract[r] = ProductRoutes[r]
  /\ \A r \in DOMAIN ReviewRoutes : Contract[r] = ReviewRoutes[r]
  /\ \A r \in DOMAIN ModerationRoutes : Contract[r] = ModerationRoutes[r]
  /\ \A r \in DOMAIN SessionRoutes : Contract[r] = SessionRoutes[r]
<1> DEFINE f == Both(ProductRoutes, ReviewRoutes)
           g == Both(ModerationRoutes, SessionRoutes)
<1>1. /\ DOMAIN f = DOMAIN ProductRoutes \cup DOMAIN ReviewRoutes
      /\ \A r \in DOMAIN ProductRoutes : f[r] = ProductRoutes[r]
      /\ \A r \in DOMAIN ReviewRoutes : r \notin DOMAIN ProductRoutes => f[r] = ReviewRoutes[r]
  BY BothAre
<1>2. /\ DOMAIN g = DOMAIN ModerationRoutes \cup DOMAIN SessionRoutes
      /\ \A r \in DOMAIN ModerationRoutes : g[r] = ModerationRoutes[r]
      /\ \A r \in DOMAIN SessionRoutes : r \notin DOMAIN ModerationRoutes => g[r] = SessionRoutes[r]
  BY BothAre
<1>3. /\ DOMAIN Contract = DOMAIN f \cup DOMAIN g
      /\ \A r \in DOMAIN f : Contract[r] = f[r]
      /\ \A r \in DOMAIN g : r \notin DOMAIN f => Contract[r] = g[r]
  BY BothAre DEF Contract
<1> HIDE DEF f, g
<1> QED BY <1>1, <1>2, <1>3, ProductRoutesAre, ReviewRoutesAre, ModerationRoutesAre, NeedsAre

\* A schema is checked of every route but the bootstrap.
LEMMA FlawsAre ==
  /\ DOMAIN Flaws = DOMAIN Needs
  /\ Flaws["bootstrap"] = {}
  /\ \A r \in DOMAIN Needs : Flaws[r] \subseteq {"shape", "meaning"}
<1> DEFINE f == Both(ProductFlaws, ReviewFlaws)
           g == [bootstrap |-> {}]
<1>1. /\ DOMAIN ProductFlaws = DOMAIN ProductRoutes
      /\ \A r \in DOMAIN ProductFlaws : ProductFlaws[r] \subseteq {"shape", "meaning"}
  BY ProductRoutesAre DEF ProductFlaws
<1>2. /\ DOMAIN ReviewFlaws = DOMAIN ReviewRoutes \cup DOMAIN ModerationRoutes
      /\ \A r \in DOMAIN ReviewFlaws : ReviewFlaws[r] \subseteq {"shape", "meaning"}
  BY ReviewRoutesAre, ModerationRoutesAre DEF ReviewFlaws
<1>3. DOMAIN g = {"bootstrap"} /\ g["bootstrap"] = {}
  OBVIOUS
<1>4. /\ DOMAIN f = DOMAIN ProductFlaws \cup DOMAIN ReviewFlaws
      /\ \A r \in DOMAIN ProductFlaws : f[r] = ProductFlaws[r]
      /\ \A r \in DOMAIN ReviewFlaws : r \notin DOMAIN ProductFlaws => f[r] = ReviewFlaws[r]
  BY BothAre
<1>5. /\ DOMAIN Flaws = DOMAIN f \cup DOMAIN g
      /\ \A r \in DOMAIN f : Flaws[r] = f[r]
      /\ \A r \in DOMAIN g : r \notin DOMAIN f => Flaws[r] = g[r]
  BY BothAre DEF Flaws
<1> HIDE DEF f, g
<1>6. \A r \in DOMAIN f : f[r] \subseteq {"shape", "meaning"}
  BY <1>1, <1>2, <1>4
<1>7. DOMAIN Flaws = DOMAIN Needs
  BY <1>1, <1>2, <1>3, <1>4, <1>5, ProductRoutesAre, ReviewRoutesAre, ModerationRoutesAre, NeedsAre
<1>8. "bootstrap" \notin DOMAIN f /\ "bootstrap" \in DOMAIN g
  BY <1>1, <1>2, <1>3, <1>4, ProductRoutesAre, ReviewRoutesAre, ModerationRoutesAre
<1> QED BY <1>3, <1>5, <1>6, <1>7, <1>8

\* What a route may answer beside a success and a fault.
Answerable(route) == Contract[route].errors \cup Undeclared(route)

LEMMA AnswerableAre ==
  /\ \A r \in DOMAIN Needs \ {"bootstrap"} : 400 \in Answerable(r)
  /\ \A r \in DOMAIN Needs : Needs[r] # "nothing" => 401 \in Answerable(r)
  /\ \A r \in DOMAIN Needs : Needs[r] \notin {"nothing", "session"} => 403 \in Answerable(r)
  /\ \A r \in {"update", "remove"} : 403 \in Answerable(r)
  /\ \A r \in {"get", "listForProduct", "submit", "reject", "restore", "updateProduct"} : 404 \in Answerable(r)
  /\ \A r \in {"submit", "createProduct"} : 409 \in Answerable(r)
  /\ \A r \in DOMAIN Needs : Contract[r].method \in {"GET", "POST"} => 429 \in Answerable(r)
  /\ \A r \in {"submit", "update"} : 429 \in Answerable(r)
<1>1. /\ Contract["listProducts"].errors = {400, 429}
      /\ Contract["get"].errors = {400, 404, 429}
      /\ Contract["createProduct"].errors = {400, 401, 403, 409}
      /\ Contract["updateProduct"].errors = {400, 401, 403, 404}
      /\ Contract["updateProduct"].method = "PATCH"
  BY ContractIs, ProductRoutesAre, RouteIs
<1>2. /\ Contract["listForProduct"].errors = {400, 404, 429}
      /\ Contract["submit"].errors = {400, 401, 404, 409, 429}
      /\ Contract["update"].errors = {400, 401, 403, 429}
      /\ Contract["remove"].errors = {400, 401, 403}
      /\ Contract["remove"].method = "DELETE"
  BY ContractIs, ReviewRoutesAre, RouteIs
<1>3. /\ Contract["moderationList"].errors = {400, 401, 403, 429}
      /\ Contract["reject"].errors = {400, 401, 403, 404}
      /\ Contract["restore"].errors = {400, 401, 403, 404}
      /\ Contract["bootstrap"].errors = {}
  BY ContractIs, ModerationRoutesAre, RouteIs
<1>4. /\ Undeclared("bootstrap") = {401, 429} /\ Undeclared("createProduct") = {429}
      /\ Undeclared("reject") = {429} /\ Undeclared("restore") = {429}
  BY DEF Undeclared
<1> QED BY <1>1, <1>2, <1>3, <1>4, NeedsAre DEF Answerable

\* A request's record: whose review it is of, what is wrong with its input and what
\* it was answered are what its route admits.
Admits(c, ids) ==
  /\ c.of \in 0 .. ids
  /\ c.flaw \in {"none"} \cup Flaws[c.route]
  /\ c.status \in {0, 200, 500} \cup Answerable(c.route)

AnswersInv == \A b \in Callers : Admits(call[b], issued)

LEMMA BareCallAdmitted == \A n \in Nat : Admits(NoCall, n)
BY DEF Admits, NoCall

\* A request that only moves, or is answered what its route admits.
LEMMA MoveAdmitted ==
  ASSUME RequestsOK, NEW b \in Callers, NEW place \in {"guard", "core", "reads"}, Moves(b, place),
         Admits(call[b], issued)
  PROVE  Admits(call'[b], issued) /\ \A c \in Callers \ {b} : call'[c] = call[c]
<1>1. /\ \A c \in Callers \ {b} : call'[c] = call[c]
      /\ call'[b].route = call[b].route /\ call'[b].of = call[b].of
      /\ call'[b].flaw = call[b].flaw /\ call'[b].status = call[b].status
  BY MovesTo
<1> QED BY <1>1 DEF Admits

LEMMA AnswerAdmitted ==
  ASSUME RequestsOK, NEW b \in Callers, NEW s \in Nat, Answers(b, s), Admits(call[b], issued),
         s \in {200, 500} \cup Answerable(call[b].route)
  PROVE  Admits(call'[b], issued) /\ \A c \in Callers \ {b} : call'[c] = call[c]
BY AnswersWith DEF Admits

\* The steps before the handler: the buckets, the schema and the guard.
LEMMA BeforeAdmitted ==
  ASSUME RoutesInv, NEW b \in Callers, Admits(call[b], issued), Count(b) \/ Guard(b) \/ Refuse(b)
  PROVE  Admits(call'[b], issued) /\ \A c \in Callers \ {b} : call'[c] = call[c]
<1> DEFINE route == call[b].route
<1>1. RequestsOK /\ route \in DOMAIN Needs /\ RequestInv(b)
  BY DEF RoutesInv, RequestsOK, Calls
<1>2. CASE Count(b)
  <2>1. BucketOf(b) # "none" => 429 \in Answerable(route)
    BY <1>1, AnswerableAre DEF BucketOf
  <2>2. CASE Answers(b, 500)
    BY <1>1, <2>2, AnswerAdmitted
  <2>3. CASE Moves(b, "guard")
    BY <1>1, <2>3, MoveAdmitted
  <2>4. CASE BucketOf(b) # "none" /\ Answers(b, 429)
    BY <1>1, <2>1, <2>4, AnswerAdmitted
  <2> QED BY <1>2, <2>2, <2>3, <2>4 DEF Count
<1>3. \* An input is refused only of a route that has one.
      call[b].flaw # "none" => 400 \in Answerable(route)
  BY <1>1, FlawsAre, AnswerableAre DEF Admits
<1>4. CASE Guard(b)
  <2>1. CASE call[b].flaw = "shape" /\ Answers(b, 400)
    BY <1>1, <1>3, <2>1, AnswerAdmitted
  <2>2. CASE Moves(b, "core")
    BY <1>1, <2>2, MoveAdmitted
  <2>3. CASE Passes(b) # 200 /\ Answers(b, Passes(b))
    <3>1. CASE Passes(b) = 401
      <4>1. 401 \in Answerable(route)
        BY <1>1, <3>1, AnswerableAre DEF Passes
      <4> QED BY <1>1, <2>3, <3>1, <4>1, AnswerAdmitted
    <3>2. CASE Passes(b) = 403
      <4>1. 403 \in Answerable(route)
        BY <1>1, <3>2, AnswerableAre DEF Passes
      <4> QED BY <1>1, <2>3, <3>2, <4>1, AnswerAdmitted
    <3>3. Passes(b) \in {200, 401, 403}
      BY DEF Passes
    <3> QED BY <2>3, <3>1, <3>2, <3>3
  <2> QED BY <1>4, <2>1, <2>2, <2>3 DEF Guard
<1>5. CASE Refuse(b)
  <2>1. call[b].flaw # "none" /\ Answers(b, 400)
    BY <1>5 DEF Refuse, Refused
  <2> QED BY <1>1, <1>3, <2>1, AnswerAdmitted
<1> QED BY <1>2, <1>4, <1>5

\* Each handler answers its own errors.
LEMMA HandlersAdmitted ==
  ASSUME RoutesInv, NEW b \in Callers, Admits(call[b], issued),
         \/ ListProducts(b) \/ GetProduct(b) \/ Bootstrap(b) \/ ListReviews(b) \/ WriteOwn(b)
         \/ Moderate(b) \/ Create(b) \/ Edit(b) \/ CallFails(b)
  PROVE  Admits(call'[b], issued) /\ \A c \in Callers \ {b} : call'[c] = call[c]
<1> DEFINE route == call[b].route
<1>1. RequestsOK /\ route \in DOMAIN Needs
  BY DEF RoutesInv, RequestsOK, Calls
<1>2. ASSUME NEW s \in {200, 500}, Answers(b, s)
      PROVE  Admits(call'[b], issued) /\ \A c \in Callers \ {b} : call'[c] = call[c]
  BY <1>1, <1>2, AnswerAdmitted
<1>3. ASSUME Moves(b, "reads")
      PROVE  Admits(call'[b], issued) /\ \A c \in Callers \ {b} : call'[c] = call[c]
  BY <1>1, <1>3, MoveAdmitted
<1>4. ASSUME Answers(b, 404),
             route \in {"get", "listForProduct", "reject", "restore", "updateProduct"}
      PROVE  Admits(call'[b], issued) /\ \A c \in Callers \ {b} : call'[c] = call[c]
  BY <1>1, <1>4, AnswerableAre, AnswerAdmitted
<1>5. CASE ListProducts(b) \/ Bootstrap(b) \/ CallFails(b)
  BY <1>2, <1>5 DEF ListProducts, Bootstrap, CallFails
<1>6. CASE GetProduct(b)
  BY <1>2, <1>4, <1>6 DEF GetProduct, Runs
<1>7. CASE ListReviews(b)
  BY <1>3, <1>4, <1>7 DEF ListReviews, Runs
<1>8. CASE WriteOwn(b)
  <2>1. route \in {"update", "remove"}
    BY <1>8 DEF WriteOwn, Runs
  <2>2. CASE Answers(b, 403)
    BY <1>1, <2>1, <2>2, AnswerableAre, AnswerAdmitted
  <2> QED BY <1>2, <1>3, <1>8, <2>2 DEF WriteOwn
<1>9. CASE Moderate(b)
  BY <1>3, <1>4, <1>9 DEF Moderate, Runs
<1>10. CASE Create(b)
  <2>1. route = "createProduct"
    BY <1>10 DEF Create, Runs
  <2>2. CASE Answers(b, 409)
    BY <1>1, <2>1, <2>2, AnswerableAre, AnswerAdmitted
  <2> QED BY <1>2, <1>10, <2>2 DEF Create
<1>11. CASE Edit(b)
  BY <1>3, <1>4, <1>11 DEF Edit, Runs
<1> QED BY <1>5, <1>6, <1>7, <1>8, <1>9, <1>10, <1>11

\* A submission answers of its own author's review.
LEMMA SubmitAdmitted ==
  ASSUME RoutesInv, NEW b \in Callers, Admits(call[b], issued), Submit(b)
  PROVE  Admits(call'[b], issued) /\ \A c \in Callers \ {b} : call'[c] = call[c]
<1>1. RequestsOK /\ call[b].route = "submit" /\ call[b].at = "core"
  BY DEF RoutesInv, Submit, Runs
<1>2. Needs["submit"] # "nothing" /\ "submit" \in DOMAIN Needs
  BY DEF Needs
<1>3. Who(b) \in Ids /\ Who(b) \in 0 .. issued
  <2>1. Who(b) \in Ids
    BY <1>1, <1>2, RightOfRequest
  <2>2. Who(b) <= issued /\ issued \in Nat
    BY AccountAssumption DEF RoutesInv, AccountsInv, AccountsTypeOK, Who
  <2> QED BY <2>1, <2>2 DEF Ids
<1>4. CASE call' = [call EXCEPT ![b].at = "reads", ![b].of = Who(b)]
  <2>1. /\ \A c \in Callers \ {b} : call'[c] = call[c]
        /\ call'[b].route = call[b].route /\ call'[b].of = Who(b)
        /\ call'[b].flaw = call[b].flaw /\ call'[b].status = call[b].status
    BY <1>1, <1>3, <1>4, SubmitReads
  <2> QED BY <1>3, <2>1 DEF Admits
<1>5. CASE Answers(b, 409) \/ Answers(b, 404)
  BY <1>1, <1>5, AnswerableAre, AnswerAdmitted
<1>6. CASE Answers(b, 500)
  BY <1>1, <1>6, AnswerAdmitted
<1> QED BY <1>4, <1>5, <1>6 DEF Submit

LEMMA RouteStepAdmitted ==
  ASSUME RoutesInv, NEW b \in Callers, Admits(call[b], issued), RouteStep(b)
  PROVE  /\ issued' = issued
         /\ Admits(call'[b], issued) /\ \A c \in Callers \ {b} : call'[c] = call[c]
<1>1. RequestsOK /\ AccountsTypeOK /\ issued \in Nat /\ call \in [Callers -> Calls]
  BY AccountAssumption DEF RoutesInv, RequestsOK, AccountsInv, AccountsTypeOK
<1>2. issued' = issued
  BY DEF RouteStep, Arrive, Resolve, FindSession, FindUser, Count, Guard, Refuse, Runs,
         ListProducts, GetProduct, Bootstrap, ListReviews, Submit, WriteOwn, Moderate,
         Create, Edit, Read, CallFails, Leave, accountVars, rows
<1>3. ASSUME NEW route \in DOMAIN Needs, NEW i \in 1 .. issued, Arrive(b, route, i)
      PROVE  Admits(call'[b], issued) /\ \A c \in Callers \ {b} : call'[c] = call[c]
  <2>1. i \in Ids /\ i \in 0 .. issued
    BY <1>1, AccountAssumption DEF AccountsTypeOK, Ids
  <2> QED BY <1>1, <1>3, <2>1, ArrivesAs DEF Admits
<1>4. CASE Resolve(b)
  <2>1. call' = call
    BY <1>4 DEF Resolve
  <2> QED BY <1>2, <2>1
<1>5. CASE Read(b)
  <2> DEFINE r == [at |-> "answered", route |-> call[b].route, of |-> call[b].of,
                   flaw |-> call[b].flaw, status |-> 200,
                   mine |-> lookup[b].at = "known" /\ call[b].of = Who(b)]
  <2>1. call' = [call EXCEPT ![b] = r]
    BY <1>1, <1>5, ReadAnswers
  <2>2. r.route = call[b].route /\ r.of = call[b].of /\ r.flaw = call[b].flaw /\ r.status = 200
    OBVIOUS
  <2> HIDE DEF r
  <2>3. call'[b] = r /\ \A c \in Callers \ {b} : call'[c] = call[c]
    BY <1>1, <2>1
  <2> QED BY <1>2, <2>2, <2>3 DEF Admits
<1>6. CASE Leave(b)
  <2>1. call'[b] = NoCall /\ \A c \in Callers \ {b} : call'[c] = call[c]
    BY <1>1, <1>6 DEF Leave
  <2> QED BY <1>1, <1>2, <2>1, BareCallAdmitted
<1> QED BY <1>2, <1>3, <1>4, <1>5, <1>6, BeforeAdmitted, HandlersAdmitted, SubmitAdmitted
        DEF RouteStep

LEMMA AnswersStep == RoutesInv /\ AnswersInv /\ [RoutesNext]_routeVars => AnswersInv'
<1> SUFFICES ASSUME RoutesInv, AnswersInv, [RoutesNext]_routeVars PROVE AnswersInv'
  OBVIOUS
<1>1. ASSUME NEW b \in Callers, RouteStep(b)
      PROVE  \A c \in Callers : Admits(call'[c], issued')
  BY <1>1, RouteStepAdmitted DEF AnswersInv
<1>2. CASE issued' = issued /\ call' = call
  BY <1>2 DEF AnswersInv
<1>3. ASSUME NEW a \in Addresses, EraseAuthor(a) PROVE issued' = issued /\ call' = call
  BY <1>3 DEF EraseAuthor, Erase
<1>4. AccountMoves /\ UNCHANGED <<call, reviewOf, listed>> => issued' = issued /\ call' = call
  BY DEF AccountMoves, SignOut, Grant
<1>5. UNCHANGED routeVars => issued' = issued /\ call' = call
  BY DEF routeVars, accountVars, rows
<1>6. CASE \A c \in Callers : Admits(call'[c], issued')
  BY <1>6 DEF AnswersInv, Admits, Answerable, Undeclared
<1> QED BY <1>1, <1>2, <1>3, <1>4, <1>5, <1>6 DEF RoutesNext

\* app-contract.ts:6-24, session.router.ts:22: however requests, sign-outs, grants and
\* erasures interleave, a route answers a success, a fault or an error its contract
\* declares, but for the 401 of the bootstrap and a full bucket's 429 of four routes.
THEOREM RoutesTypes == RoutesSpec => []RoutesTypeOK
<1>1. RoutesInit => AnswersInv
  <2> SUFFICES ASSUME RoutesInit, NEW b \in Callers PROVE Admits(call[b], issued)
    BY DEF AnswersInv
  <2>1. call[b] = NoCall
    BY DEF RoutesInit
  <2>2. issued \in Nat
    BY RoutesInitHolds, AccountAssumption DEF RoutesInv, AccountsInv, AccountsTypeOK
  <2> QED BY <2>1, <2>2, BareCallAdmitted
<1>2. RoutesInv /\ AnswersInv => RoutesTypeOK
  <2> SUFFICES ASSUME RoutesInv, AnswersInv PROVE RoutesTypeOK
    OBVIOUS
  <2>1. RequestsOK
    BY DEF RoutesInv
  <2>2. ASSUME NEW b \in Callers
        PROVE  /\ call[b].at \in {"none", "session", "guard", "core", "reads", "answered"}
               /\ call[b].route \in DOMAIN Contract
    BY <2>1, ContractIs DEF RequestsOK, Calls
  <2>3. ASSUME NEW b \in Callers
        PROVE  /\ call[b].of \in 0 .. issued
               /\ call[b].flaw \in {"none"} \cup Flaws[call[b].route]
               /\ call[b].status \in {0, 200, 500} \cup Contract[call[b].route].errors
                                       \cup Undeclared(call[b].route)
    BY DEF AnswersInv, Admits, Answerable
  <2> QED BY <2>1, <2>2, <2>3 DEF RoutesTypeOK, RequestsOK
<1>3. RoutesSpec => []AnswersInv
  BY <1>1, RoutesInductive, AnswersStep, PTL DEF RoutesSpec
<1> QED BY <1>2, <1>3, RoutesInductive, PTL

-----------------------------------------------------------------------------
(* Finite sets and lists. *)

\* A nonempty set of naturals has a least element.
LEMMA LeastNat ==
  ASSUME NEW T, T \subseteq Nat, T # {}
  PROVE  \E x \in T : \A y \in T : x <= y
<1>1. PICK x \in T : \A y \in T : ~(<<y, x>> \in OpToRel(<, Nat))
  BY NatLessThanWellFounded, WFMin
<1>2. \A y \in T : ~(y < x)
  BY <1>1 DEF OpToRel
<1> QED BY <1>2

\* A list with no repetition as long as a finite set it lists from lists it whole.
LEMMA ListedWhole ==
  ASSUME NEW S, IsFiniteSet(S), NEW n \in Nat, n = Cardinality(S),
         NEW f \in [1 .. n -> S], \A i, j \in 1 .. n : f[i] = f[j] => i = j
  PROVE  {f[i] : i \in 1 .. n} = S
<1>1. f \in Injection(1 .. n, S)
  BY DEF Injection, IsInjective
<1>2. Cardinality(1 .. n) = n
  BY FS_Interval
<1>3. f \in Surjection(1 .. n, S)
  BY <1>1, <1>2, FS_Injection
<1> QED BY <1>3 DEF Surjection

-----------------------------------------------------------------------------
(* The extraction tool. *)

\* No member is listed twice.
Once(s) == \A i, j \in 1 .. Len(s) : s[i] = s[j] => i = j

\* The packages at the first n places of the order.
Ordered(n) == {order[k] : k \in 1 .. n}

Untouched == next = 1 /\ copied = {} /\ built = {} /\ ~ranTests
Extracting == stage \in {"sort", "copy", "install", "build", "test", "remove"}
InTemp == stage \in {"copy", "install", "build", "test", "remove"}

ToolTypes ==
  /\ workspace \in Shapes /\ command \in Commands
  /\ stage \in Stages \cup {"ended"} /\ exit \in {0, 1}
  /\ queue \in Seq(Packages \cup {Unknown})
  /\ stage \notin {"target", "ended"} => queue # <<>>
  /\ closure \subseteq Packages /\ stack \in Seq(Packages)
  /\ degree \in [Packages -> Nat]
  /\ ready \in Seq(Packages) /\ order \in Seq(Packages)
  /\ next \in Nat \ {0} /\ copied \subseteq Packages /\ built \subseteq Packages
  /\ ranTests \in BOOLEAN /\ tested = ranTests

\* The search has left nothing it found behind: what is found is reached, and what
\* a package found depends on is found or on the stack.  At its end, all is found.
SearchInv ==
  /\ stage = "target" => closure = {} /\ stack = <<>> /\ order = <<>> /\ Untouched
  /\ stage = "reach" =>
       /\ order = <<>> /\ Untouched
       /\ Target \in Packages /\ Target \in closure \cup ToSet(stack)
       /\ closure \cup ToSet(stack) \subseteq Reaches(Target)
       /\ \A p \in closure : Deps(p) \subseteq closure \cup ToSet(stack)
  /\ Extracting => Target \in Packages /\ closure = Reaches(Target)

\* Every package is ordered once, behind all it depends on.
OrderInv ==
  Extracting =>
    /\ \A i \in 1 .. Len(order) : order[i] \in closure /\ Deps(order[i]) \subseteq Ordered(i - 1)
    /\ Once(order)

\* A package's degree is the number of its dependencies not ordered yet; ready
\* are those that have none left and are not ordered themselves.
KahnInv ==
  stage = "sort" =>
    /\ Untouched
    /\ Once(ready)
    /\ ToSet(ready) \subseteq closure /\ ToSet(ready) \cap ToSet(order) = {}
    /\ \A p \in closure :
         /\ degree[p] = Cardinality(Deps(p) \ ToSet(order))
         /\ degree[p] = 0 <=> p \in ToSet(order) \cup ToSet(ready)

\* The order is complete, and the directory holds what its first packages give.
TempInv ==
  /\ InTemp => ToSet(order) = closure
  /\ stage = "copy" =>
       next \in 1 .. Len(order) + 1 /\ copied = Ordered(next - 1) /\ built = {} /\ ~ranTests
  /\ stage \in {"install", "build"} =>
       next \in 1 .. Len(order) /\ copied = closure /\ built = Ordered(next - 1)
  /\ stage = "test" =>
       next \in 1 .. Len(order) /\ copied = closure /\ built = Ordered(next)
  /\ stage = "remove" =>
       /\ built = closure
       /\ Target \in workspace.buildOnly \/ (ranTests <=> Target \in workspace.tests)

Results ==
  [target : Packages \cup {Unknown}, ok : BOOLEAN, ranTests : BOOLEAN, temp : BOOLEAN,
   built : SUBSET Packages, tested : BOOLEAN]

Honest(r) ==
  /\ r.ok => Reaches(r.target) \subseteq r.built /\ ~r.temp
  /\ r.ranTests <=> r.ok /\ r.tested
  /\ r.ok => r.ranTests \/ r.target \in workspace.buildOnly \/ r.target \notin workspace.tests

Reported == {results[i].target : i \in 1 .. Len(results)}

\* While the exit code is 0 every target had a good verdict or is still to come.
ResultsInv ==
  /\ results \in Seq(Results)
  /\ \A i \in 1 .. Len(results) : Honest(results[i])
  /\ exit = 0 =>
       /\ \A i \in 1 .. Len(results) : results[i].ok
       /\ Reported \cup ToSet(queue) = Targets(command)
       /\ stage = "ended" => queue = <<>>
  /\ stage = "report" => Target \in Reported

ToolInv == ToolTypes /\ SearchInv /\ OrderInv /\ KahnInv /\ TempInv /\ ResultsInv

-----------------------------------------------------------------------------
\* SetToSeq lists a finite set whole, each member once.
LEMMA Listing ==
  ASSUME NEW S, IsFiniteSet(S)
  PROVE  /\ SetToSeq(S) \in Seq(S) /\ Len(SetToSeq(S)) = Cardinality(S)
         /\ Cardinality(S) \in Nat
         /\ Once(SetToSeq(S)) /\ ToSet(SetToSeq(S)) = S
<1> DEFINE n == Cardinality(S)
<1>1. n \in Nat /\ ExistsBijection(1 .. n, S)
  BY FS_CardinalityType
<1>2. PICK f \in Bijection(1 .. n, S) : TRUE
  BY <1>1 DEF ExistsBijection
<1>3. f \in [1 .. n -> S] /\ IsInjective(f)
  BY <1>2 DEF Bijection, Injection, IsInjective
<1>4. SetToSeq(S) \in [1 .. n -> S] /\ IsInjective(SetToSeq(S))
  BY <1>3 DEF SetToSeq
<1> HIDE DEF n
<1>5. SetToSeq(S) \in Seq(S) /\ Len(SetToSeq(S)) = n /\ DOMAIN SetToSeq(S) = 1 .. n
  BY <1>1, <1>4
<1>6. \A i, j \in 1 .. n : SetToSeq(S)[i] = SetToSeq(S)[j] => i = j
  BY <1>4 DEF IsInjective
<1>7. {SetToSeq(S)[i] : i \in 1 .. n} = S
  BY <1>1, <1>4, <1>6, ListedWhole DEF n
<1> QED BY <1>1, <1>5, <1>6, <1>7 DEF n, ToSet, Once

-----------------------------------------------------------------------------
(* What a list holds *)

\* Append adds one member.
LEMMA MembersAppend ==
  ASSUME NEW P, NEW s \in Seq(P), NEW x \in P
  PROVE  Append(s, x) \in Seq(P) /\ ToSet(Append(s, x)) = ToSet(s) \cup {x}
<1>1. Append(s, x) \in Seq(P) /\ DOMAIN Append(s, x) = 1 .. Len(s) + 1 /\ DOMAIN s = 1 .. Len(s)
  OBVIOUS
<1>2. \A i \in 1 .. Len(s) + 1 : Append(s, x)[i] = IF i = Len(s) + 1 THEN x ELSE s[i]
  OBVIOUS
<1>3. ToSet(Append(s, x)) \subseteq ToSet(s) \cup {x}
  BY <1>1, <1>2 DEF ToSet
<1>4. ToSet(s) \cup {x} \subseteq ToSet(Append(s, x))
  BY <1>1, <1>2 DEF ToSet
<1> QED BY <1>1, <1>3, <1>4

\* Two lists one after the other.
LEMMA MembersConcat ==
  ASSUME NEW P, NEW s \in Seq(P), NEW t \in Seq(P)
  PROVE  s \o t \in Seq(P) /\ ToSet(s \o t) = ToSet(s) \cup ToSet(t)
<1>1. s \o t \in Seq(P) /\ Len(s \o t) = Len(s) + Len(t)
      /\ DOMAIN (s \o t) = 1 .. Len(s) + Len(t) /\ DOMAIN s = 1 .. Len(s) /\ DOMAIN t = 1 .. Len(t)
  OBVIOUS
<1>2. \A i \in 1 .. Len(s) + Len(t) : (s \o t)[i] = IF i <= Len(s) THEN s[i] ELSE t[i - Len(s)]
  OBVIOUS
<1>3. ToSet(s \o t) \subseteq ToSet(s) \cup ToSet(t)
  BY <1>1, <1>2 DEF ToSet
<1>4. ToSet(s) \subseteq ToSet(s \o t)
  BY <1>1, <1>2 DEF ToSet
<1>5. ToSet(t) \subseteq ToSet(s \o t)
  <2> SUFFICES ASSUME NEW i \in 1 .. Len(t) PROVE t[i] \in ToSet(s \o t)
    BY <1>1 DEF ToSet
  <2>1. Len(s) + i \in 1 .. Len(s) + Len(t) /\ (s \o t)[Len(s) + i] = t[i]
    BY <1>2
  <2> QED BY <1>1, <2>1 DEF ToSet
<1> QED BY <1>1, <1>3, <1>4, <1>5

\* A list that is not empty: its last member and those before.
LEMMA MembersLast ==
  ASSUME NEW P, NEW s \in Seq(P), s # <<>>
  PROVE  Front(s) \in Seq(P) /\ Last(s) \in P /\ ToSet(s) = ToSet(Front(s)) \cup {Last(s)}
<1>1. Len(s) \in Nat \ {0} /\ DOMAIN s = 1 .. Len(s)
  OBVIOUS
<1>2. Front(s) \in Seq(P) /\ Len(Front(s)) = Len(s) - 1 /\ DOMAIN Front(s) = 1 .. Len(s) - 1
      /\ \A i \in 1 .. Len(s) - 1 : Front(s)[i] = s[i]
  BY <1>1 DEF Front
<1>3. Last(s) \in P /\ Last(s) \in ToSet(s)
  BY <1>1 DEF Last, ToSet
<1>4. ToSet(Front(s)) \subseteq ToSet(s)
  BY <1>1, <1>2 DEF ToSet
<1>5. ToSet(s) \subseteq ToSet(Front(s)) \cup {Last(s)}
  <2> SUFFICES ASSUME NEW i \in 1 .. Len(s) PROVE s[i] \in ToSet(Front(s)) \cup {Last(s)}
    BY <1>1 DEF ToSet
  <2> DEFINE n == Len(s)
  <2>0. n \in Nat
    BY <1>1
  <2>1. i = n \/ i \in 1 .. n - 1
    <3> HIDE DEF n
    <3>1. i \in 1 .. n
      BY DEF n
    <3> QED BY ONLY <2>0, <3>1
  <2>2. CASE i = Len(s)
    BY <2>2 DEF Last
  <2>3. CASE i \in 1 .. Len(s) - 1
    BY <1>2, <2>3 DEF ToSet
  <2> QED BY <2>1, <2>2, <2>3
<1> QED BY <1>2, <1>3, <1>4, <1>5

\* A list that is not empty: its head and those behind.
LEMMA MembersHead ==
  ASSUME NEW P, NEW s \in Seq(P), s # <<>>
  PROVE  Tail(s) \in Seq(P) /\ Head(s) \in P /\ ToSet(s) = {Head(s)} \cup ToSet(Tail(s))
<1>1. Len(s) \in Nat \ {0} /\ DOMAIN s = 1 .. Len(s)
  OBVIOUS
<1>2. Tail(s) \in Seq(P) /\ DOMAIN Tail(s) = 1 .. Len(s) - 1
      /\ \A i \in 1 .. Len(s) - 1 : Tail(s)[i] = s[i + 1]
  OBVIOUS
<1>3. Head(s) \in P /\ Head(s) = s[1] /\ Head(s) \in ToSet(s)
  BY <1>1 DEF ToSet
<1>4. ToSet(Tail(s)) \subseteq ToSet(s)
  <2> SUFFICES ASSUME NEW i \in 1 .. Len(s) - 1 PROVE s[i + 1] \in ToSet(s)
    BY <1>2 DEF ToSet
  <2> QED BY <1>1 DEF ToSet
<1>5. ToSet(s) \subseteq {Head(s)} \cup ToSet(Tail(s))
  <2> SUFFICES ASSUME NEW i \in 1 .. Len(s) PROVE s[i] \in {Head(s)} \cup ToSet(Tail(s))
    BY <1>1 DEF ToSet
  <2>1. i = 1 \/ (i - 1 \in 1 .. Len(s) - 1 /\ (i - 1) + 1 = i)
    BY <1>1
  <2> QED BY <1>2, <1>3, <2>1 DEF ToSet
<1> QED BY <1>2, <1>3, <1>4, <1>5

\* Of a list with no repetition the head is not met again.
LEMMA OnceTail ==
  ASSUME NEW P, NEW s \in Seq(P), s # <<>>, Once(s)
  PROVE  Once(Tail(s)) /\ Head(s) \notin ToSet(Tail(s))
<1>1. Len(s) \in Nat \ {0} /\ Len(Tail(s)) = Len(s) - 1 /\ DOMAIN Tail(s) = 1 .. Len(s) - 1
      /\ Head(s) = s[1] /\ \A i \in 1 .. Len(s) - 1 : Tail(s)[i] = s[i + 1]
  OBVIOUS
<1>2. \A i \in 1 .. Len(s) - 1 : i + 1 \in 1 .. Len(s) /\ i + 1 # 1 /\ 1 \in 1 .. Len(s)
  BY <1>1
<1>3. Head(s) \notin ToSet(Tail(s))
  BY <1>1, <1>2 DEF ToSet, Once
<1>4. ASSUME NEW i \in 1 .. Len(s) - 1, NEW j \in 1 .. Len(s) - 1, Tail(s)[i] = Tail(s)[j]
      PROVE  i = j
  <2>1. i + 1 = j + 1
    BY <1>1, <1>2, <1>4 DEF Once
  <2> QED BY <2>1
<1> QED BY <1>1, <1>3, <1>4 DEF Once

\* Two lists with no member in common, one after the other.
LEMMA OnceConcat ==
  ASSUME NEW P, NEW s \in Seq(P), NEW t \in Seq(P), Once(s), Once(t), ToSet(s) \cap ToSet(t) = {}
  PROVE  Once(s \o t)
<1> DEFINE n == Len(s)
           m == Len(t)
<1>1. n \in Nat /\ m \in Nat /\ Len(s \o t) = n + m /\ DOMAIN s = 1 .. n /\ DOMAIN t = 1 .. m
  OBVIOUS
<1>2. \A i \in 1 .. n + m : (s \o t)[i] = IF i <= n THEN s[i] ELSE t[i - n]
  OBVIOUS
<1>3. \A i \in 1 .. n, j \in 1 .. m : s[i] # t[j]
  BY <1>1 DEF ToSet
<1> HIDE DEF n, m
<1> SUFFICES ASSUME NEW i \in 1 .. n + m, NEW j \in 1 .. n + m, (s \o t)[i] = (s \o t)[j]
             PROVE  i = j
  BY <1>1 DEF Once
<1>4. \A k \in 1 .. n + m :
        \/ k \in 1 .. n /\ (s \o t)[k] = s[k]
        \/ k > n /\ k - n \in 1 .. m /\ (s \o t)[k] = t[k - n]
  BY <1>1, <1>2
<1>5. CASE i \in 1 .. n /\ j \in 1 .. n
  BY <1>1, <1>2, <1>5 DEF Once, n
<1>6. CASE i > n /\ j > n
  <2>1. i - n \in 1 .. m /\ j - n \in 1 .. m /\ t[i - n] = t[j - n]
    BY <1>1, <1>4, <1>6
  <2>2. i - n = j - n
    BY <2>1 DEF Once, m
  <2> QED BY <1>1, <2>2
<1>7. CASE i \in 1 .. n /\ j > n
  <2>1. j - n \in 1 .. m /\ s[i] = t[j - n]
    BY <1>1, <1>4, <1>7
  <2> QED BY <1>3, <1>7, <2>1
<1>8. CASE i > n /\ j \in 1 .. n
  <2>1. i - n \in 1 .. m /\ s[j] = t[i - n]
    BY <1>1, <1>4, <1>8
  <2> QED BY <1>3, <1>8, <2>1
<1> QED BY <1>1, <1>4, <1>5, <1>6, <1>7, <1>8

\* The empty list has none.
LEMMA MembersNone == ToSet(<<>>) = {}
BY DEF ToSet

-----------------------------------------------------------------------------
(* What a package reaches *)

\* The dependencies of a package are packages, finitely many.
LEMMA DepsType ==
  ASSUME workspace \in Shapes, NEW p \in Packages
  PROVE  Deps(p) \subseteq Packages /\ IsFiniteSet(Deps(p)) /\ Cardinality(Deps(p)) \in Nat
<1>1. Deps(p) \subseteq Packages
  BY DEF Deps, Shapes
<1> QED BY <1>1, WorkspaceAssumption, FS_Subset, FS_CardinalityType

\* A package reaches itself and what its own reach depends on, and nothing that a
\* closed set of packages around it leaves out.
LEMMA Reach1 == \A p \in Packages : p \in Reaches(p) /\ Reaches(p) \subseteq Packages
BY DEF Reaches

\* See Reach1: the reach is closed.
LEMMA Reach2 ==
  ASSUME workspace \in Shapes, NEW p \in Packages, NEW q \in Reaches(p)
  PROVE  q \in Packages /\ Deps(q) \subseteq Reaches(p)
<1>1. q \in Packages
  BY DEF Reaches
<1>2. Deps(q) \subseteq Packages
  BY <1>1, DepsType
<1>3. ASSUME NEW r \in Deps(q), NEW S \in SUBSET Packages,
             p \in S, \A x \in S : Deps(x) \subseteq S
      PROVE  r \in S
  <2>1. q \in S
    BY <1>3 DEF Reaches
  <2> QED BY <1>3, <2>1
<1> QED BY <1>1, <1>2, <1>3 DEF Reaches

\* See Reach1: the least.
LEMMA Reach3 ==
  ASSUME NEW p \in Packages, NEW S \in SUBSET Packages, p \in S,
         \A x \in S : Deps(x) \subseteq S
  PROVE  Reaches(p) \subseteq S
BY DEF Reaches

\* What is reached is the workspace's alone.
LEMMA SameReach ==
  ASSUME workspace' = workspace
  PROVE  /\ \A p : Reaches(p)' = Reaches(p) /\ Deps(p)' = Deps(p)
         /\ queue' = queue => Reaches(Target)' = Reaches(Target)
BY DEF Reaches, Deps, Target

-----------------------------------------------------------------------------
(* The commands and the verdicts *)

\* The targets of a command are folders, finitely many.
LEMMA TargetsType ==
  ASSUME workspace \in Shapes, command \in Commands
  PROVE  Targets(command) \subseteq Packages \cup {Unknown} /\ IsFiniteSet(Targets(command))
<1>1. workspace.liftable \subseteq Packages
  BY DEF Shapes
<1>2. CASE command.kind = "name"
  <2>1. command.package \in Packages \cup {Unknown}
    BY <1>2 DEF Commands
  <2>2. Targets(command) = {command.package}
    BY <1>2 DEF Targets
  <2> QED BY <2>1, <2>2, FS_Singleton
<1>3. CASE command.kind = "all"
  <2>1. Targets(command) = workspace.liftable
    BY <1>3 DEF Targets
  <2> QED BY <1>1, <2>1, WorkspaceAssumption, FS_Subset
<1>4. CASE command.kind = "changed"
  <2>1. Targets(command) \subseteq workspace.liftable
    BY <1>4 DEF Targets
  <2> QED BY <1>1, <2>1, WorkspaceAssumption, FS_Subset
<1>5. command.kind \in {"name", "all", "changed"}
  BY DEF Commands
<1> QED BY <1>2, <1>3, <1>4, <1>5

\* The targets come in some order, each once.
LEMMA QueueListed ==
  ASSUME NEW S, IsFiniteSet(S), NEW q \in SetToSeqs(S)
  PROVE  q \in Seq(S) /\ ToSet(q) = S
<1> DEFINE n == Cardinality(S)
<1>1. n \in Nat
  BY FS_CardinalityType
<1>2. q \in [1 .. n -> S] /\ \A i, j \in 1 .. n : q[i] = q[j] => i = j
  BY DEF SetToSeqs
<1>3. {q[i] : i \in 1 .. n} = S
  BY <1>1, <1>2, ListedWhole
<1> HIDE DEF n
<1>4. q \in Seq(S) /\ DOMAIN q = 1 .. n
  BY <1>1, <1>2
<1> QED BY <1>3, <1>4 DEF ToSet

\* Before the first target the tool has found, ordered and done nothing.
LEMMA ToolInitHolds == ToolInit => ToolInv
<1> SUFFICES ASSUME ToolInit PROVE ToolInv
  OBVIOUS
<1> USE DEF ToolInit
<1>1. workspace \in Shapes /\ command \in Commands
  BY WorkspaceAssumption
<1>2. queue \in Seq(Packages \cup {Unknown}) /\ (exit = 0 => ToSet(queue) = Targets(command))
  <2>1. CASE queue \in SetToSeqs(Targets(command))
    <3>1. Targets(command) \subseteq Packages \cup {Unknown} /\ IsFiniteSet(Targets(command))
      BY <1>1, TargetsType
    <3>2. queue \in Seq(Targets(command)) /\ ToSet(queue) = Targets(command)
      BY <2>1, <3>1, QueueListed
    <3> HIDE DEF ToolInit
    <3> QED BY <3>1, <3>2
  <2>2. CASE queue = <<>> /\ exit = 1
    BY <2>2
  <2> QED BY <2>1, <2>2
<1>3. ToolTypes
  <2>1. degree \in [Packages -> Nat] /\ stack \in Seq(Packages)
        /\ ready \in Seq(Packages) /\ order \in Seq(Packages)
    <3>1. degree = [p \in Packages |-> 0] /\ stack = <<>> /\ ready = <<>> /\ order = <<>>
      OBVIOUS
    <3> HIDE DEF ToolInit
    <3> QED BY ONLY <3>1
  <2>2. stage \in {"target", "ended"} /\ exit \in {0, 1}
    OBVIOUS
  <2>3. /\ closure \subseteq Packages /\ copied \subseteq Packages /\ built \subseteq Packages
        /\ next \in Nat \ {0}
    OBVIOUS
  <2>4. ranTests \in BOOLEAN /\ tested = ranTests
    BY Zenon
  <2> HIDE DEF ToolInit
  <2> QED BY <1>1, <1>2, <2>1, <2>2, <2>3, <2>4, Zenon DEF ToolTypes, Stages
<1>4. SearchInv /\ OrderInv /\ KahnInv /\ TempInv
  BY DEF SearchInv, OrderInv, KahnInv, TempInv, Untouched, Extracting, InTemp
<1>5. ResultsInv
  <2>1. results \in Seq(Results) /\ Len(results) = 0 /\ Reported = {}
    BY DEF Reported
  <2>2. stage # "report" /\ (exit = 0 => stage = "target")
    OBVIOUS
  <2> QED BY <1>2, <2>1, <2>2 DEF ResultsInv
<1> QED BY <1>3, <1>4, <1>5 DEF ToolInv

\* The workspace and the command say what a verdict is held to.
LEMMA SameJudge ==
  ASSUME workspace' = workspace, command' = command
  PROVE  /\ \A r : Honest(r)' = Honest(r)
         /\ Targets(command)' = Targets(command)
         /\ (workspace \in Shapes)' = (workspace \in Shapes) /\ (command \in Commands)' = (command \in Commands)
<1>1. \A r : Honest(r)' = Honest(r)
  BY SameReach DEF Honest
<1>2. Targets(command)' = Targets(command)
  BY DEF Targets
<1> QED BY <1>1, <1>2 DEF Shapes, Commands

\* A step that gives no verdict keeps the verdicts, unless it ends with work left.
LEMMA NoVerdict ==
  ASSUME ToolInv, UNCHANGED <<workspace, command, queue, results>>,
         exit' = exit \/ exit' = 1,
         stage' = "ended" /\ exit' = 0 => queue = <<>>,
         stage' # "report" \/ stage = "report"
  PROVE  ResultsInv'
<1>1. Reported' = Reported /\ Target' = Target
  BY DEF Reported, Target
<1>2. exit \in {0, 1}
  BY DEF ToolInv, ToolTypes
<1> QED BY <1>1, <1>2, SameJudge DEF ToolInv, ResultsInv

\* A verdict is added to those given; a failed one makes the exit code 1.
LEMMA OneVerdict ==
  ASSUME ToolInv, NEW ok \in BOOLEAN, NEW temp \in BOOLEAN, Verdict(ok, temp),
         UNCHANGED <<workspace, command, queue>>, queue # <<>>,
         ok => /\ Reaches(Target) \subseteq built /\ ~temp
               /\ ranTests \/ Target \in workspace.buildOnly \/ Target \notin workspace.tests
  PROVE  ResultsInv' /\ exit' \in {0, 1} /\ stage' = "report"
<1> DEFINE r == [target |-> Target, ok |-> ok, ranTests |-> ok /\ ranTests,
                 temp |-> temp, built |-> built, tested |-> tested]
<1>0. Target \in Packages \cup {Unknown} /\ tested = ranTests /\ ranTests \in BOOLEAN
      /\ built \in SUBSET Packages /\ exit \in {0, 1} /\ results \in Seq(Results)
  BY DEF ToolInv, ToolTypes, ResultsInv, Target
<1>1. r \in Results
  BY <1>0 DEF Results
<1>2. Honest(r)
  BY <1>0 DEF Honest
<1>3. r.target = Target /\ r.ok = ok
  OBVIOUS
<1>4. results' = Append(results, r) /\ exit' = (IF ok THEN exit ELSE 1) /\ stage' = "report"
  BY DEF Verdict
<1> HIDE DEF r
<1>5. results' \in Seq(Results) /\ Len(results') = Len(results) + 1 /\ Len(results) \in Nat
      /\ \A i \in 1 .. Len(results) + 1 : results'[i] = IF i = Len(results) + 1 THEN r ELSE results[i]
  BY <1>0, <1>1, <1>4
<1>6. \A i \in 1 .. Len(results') : Honest(results'[i])
  BY <1>2, <1>5 DEF ToolInv, ResultsInv
<1>7. Reported' = Reported \cup {Target}
  <2>1. Reported' = {results'[i].target : i \in 1 .. Len(results) + 1}
    BY <1>5 DEF Reported
  <2>2. Reported' \subseteq Reported \cup {Target}
    <3> SUFFICES ASSUME NEW i \in 1 .. Len(results) + 1 PROVE results'[i].target \in Reported \cup {Target}
      BY <2>1
    <3> QED BY <1>3, <1>5 DEF Reported
  <2>3. Reported \subseteq Reported'
    <3> SUFFICES ASSUME NEW i \in 1 .. Len(results) PROVE results[i].target \in Reported'
      BY DEF Reported
    <3>1. i \in 1 .. Len(results) + 1 /\ results'[i] = results[i]
      BY <1>5
    <3> QED BY <2>1, <3>1
  <2>4. Target \in Reported'
    <3>1. Len(results) + 1 \in 1 .. Len(results) + 1 /\ results'[Len(results) + 1] = r
      BY <1>5
    <3> QED BY <1>3, <2>1, <3>1
  <2> QED BY <2>2, <2>3, <2>4
<1>8. Target \in ToSet(queue)
  BY MembersHead DEF ToolInv, ToolTypes, Target
<1>9. exit' = 0 => ok /\ exit = 0
  BY <1>4
<1>10. exit' = 0 => \A i \in 1 .. Len(results') : results'[i].ok
  <2> SUFFICES ASSUME exit' = 0, NEW i \in 1 .. Len(results) + 1 PROVE results'[i].ok
    BY <1>5
  <2>1. CASE i = Len(results) + 1
    BY <1>3, <1>5, <1>9, <2>1
  <2>2. CASE i # Len(results) + 1
    <3>1. i \in 1 .. Len(results) /\ results'[i] = results[i]
      BY <1>5, <2>2
    <3> QED BY <1>9, <3>1 DEF ToolInv, ResultsInv
  <2> QED BY <2>1, <2>2
<1>11. exit' = 0 => (Reported \cup ToSet(queue))' = Targets(command)
  <2> SUFFICES ASSUME exit' = 0 PROVE Reported' \cup ToSet(queue) = Targets(command)
    OBVIOUS
  <2>1. Reported \cup ToSet(queue) = Targets(command)
    BY <1>9 DEF ToolInv, ResultsInv
  <2> QED BY <1>7, <1>8, <2>1
<1>12. Target' = Target /\ Target \in Reported'
  BY <1>7 DEF Target
<1>13. (\A i \in 1 .. Len(results) : Honest(results[i]))'
  BY <1>6, SameJudge
<1> QED BY <1>0, <1>4, <1>5, <1>10, <1>11, <1>12, <1>13, SameJudge DEF ResultsInv

-----------------------------------------------------------------------------
(* The search *)

\* A target that may be lifted is where the search starts.
LEMMA ChooseKeeps == ToolInv /\ ChooseTarget => ToolInv'
<1> SUFFICES ASSUME ToolInv, ChooseTarget PROVE ToolInv'
  OBVIOUS
<1>0. /\ ToolTypes /\ SearchInv /\ stage = "target" /\ queue # <<>>
      /\ UNCHANGED <<workspace, command, queue, closure, degree, ready, order>>
      /\ UNCHANGED <<next, copied, built, ranTests, tested>>
  BY DEF ToolInv, ChooseTarget, sorting, temporary
<1>1. Target \in Packages \cup {Unknown} /\ Target' = Target
  BY <1>0, MembersHead DEF ToolTypes, Target
<1>2. closure = {} /\ stack = <<>> /\ order = <<>> /\ Untouched
  BY <1>0 DEF SearchInv
<1>3. Untouched'
  BY <1>0, <1>2 DEF Untouched
<1>4. CASE Target \in workspace.liftable /\ workspace.pinned
  <2>1. stage' = "reach" /\ stack' = <<Target>> /\ results' = results /\ exit' = exit
    BY <1>4 DEF ChooseTarget
  <2>2. Target \in Packages
    BY <1>0, <1>4 DEF ToolTypes, Shapes
  <2>3. stack' \in Seq(Packages) /\ ToSet(stack') = {Target}
    <3>1. <<Target>> \in Seq(Packages) /\ DOMAIN <<Target>> = 1 .. 1 /\ <<Target>>[1] = Target
      BY <2>2
    <3>2. ToSet(<<Target>>) = {Target}
      BY <3>1 DEF ToSet
    <3> QED BY <2>1, <3>1, <3>2
  <2>4. ToolTypes'
    BY <1>0, <2>1, <2>3, SameJudge DEF ToolTypes, Stages
  <2>5. SearchInv'
    <3>1. closure' \cup ToSet(stack)' = {Target} /\ closure' = {} /\ order' = <<>>
      BY <1>0, <1>2, <2>3
    <3>2. Target \in Reaches(Target) /\ Reaches(Target)' = Reaches(Target)
      BY <1>0, <2>2, Reach1, SameReach
    <3>3. stage' = "reach" /\ ~Extracting'
      BY <2>1 DEF Extracting
    <3>4. Target' \in Packages /\ Target' \in closure' \cup ToSet(stack)'
          /\ (closure \cup ToSet(stack) \subseteq Reaches(Target))'
      BY <1>1, <2>2, <3>1, <3>2
    <3>5. \A p \in closure' : Deps(p)' \subseteq closure' \cup ToSet(stack)'
      BY <3>1
    <3> QED BY <1>3, <3>1, <3>3, <3>4, <3>5 DEF SearchInv
  <2>6. OrderInv' /\ KahnInv' /\ TempInv'
    BY <2>1 DEF OrderInv, KahnInv, TempInv, Extracting, InTemp
  <2>7. ResultsInv'
    BY <1>0, <2>1, NoVerdict
  <2> QED BY <2>4, <2>5, <2>6, <2>7 DEF ToolInv
<1>5. CASE ~(Target \in workspace.liftable /\ workspace.pinned)
  <2>1. Verdict(FALSE, FALSE) /\ stack' = stack
    BY <1>5 DEF ChooseTarget
  <2>2. ResultsInv' /\ exit' \in {0, 1} /\ stage' = "report"
    BY <1>0, <2>1, OneVerdict
  <2>3. ToolTypes'
    BY <1>0, <2>1, <2>2, SameJudge DEF ToolTypes, Stages
  <2>4. SearchInv' /\ OrderInv' /\ KahnInv' /\ TempInv'
    BY <2>2 DEF SearchInv, OrderInv, KahnInv, TempInv, Extracting, InTemp
  <2> QED BY <2>2, <2>3, <2>4 DEF ToolInv
<1> QED BY <1>4, <1>5

\* A package found is put aside and what it depends on is looked at.
LEMMA ReachKeeps == ToolInv /\ Reach => ToolInv'
<1> SUFFICES ASSUME ToolInv, Reach PROVE ToolInv'
  OBVIOUS
<1> DEFINE p == Last(stack)
<1>0. /\ ToolTypes /\ SearchInv /\ stage = "reach" /\ stack # <<>>
      /\ UNCHANGED <<workspace, command, queue, degree, ready, order>>
      /\ UNCHANGED <<next, copied, built, ranTests, tested, results>>
  BY DEF ToolInv, Reach, sorting, temporary
<1>1. Target' = Target /\ (Untouched <=> Untouched')
  BY <1>0 DEF Target, Untouched
<1>2. stack \in Seq(Packages) /\ workspace \in Shapes /\ closure \subseteq Packages
  BY <1>0 DEF ToolTypes
<1>3. Front(stack) \in Seq(Packages) /\ p \in Packages /\ ToSet(stack) = ToSet(Front(stack)) \cup {p}
  BY <1>0, <1>2, MembersLast
<1>4. /\ order = <<>> /\ Untouched /\ Target \in Packages
      /\ Target \in closure \cup ToSet(stack)
      /\ closure \cup ToSet(stack) \subseteq Reaches(Target)
      /\ \A q \in closure : Deps(q) \subseteq closure \cup ToSet(stack)
  BY <1>0 DEF SearchInv
<1>5. \A q : Reaches(q)' = Reaches(q) /\ Deps(q)' = Deps(q)
  BY <1>0, SameReach
<1> HIDE DEF p
<1>6. ASSUME stage' \in {"reach", "ended"}, closure' \subseteq Packages, stack' \in Seq(Packages),
             exit' = exit \/ exit' = 1, stage' = "ended" => exit' = 1,
             stage' = "reach" =>
               /\ closure' \cup ToSet(stack') = closure \cup ToSet(stack) \cup Deps(p)
                  \/ closure' \cup ToSet(stack') = closure \cup ToSet(stack)
               /\ Target \in closure' \cup ToSet(stack')
               /\ closure' \cup ToSet(stack') \subseteq Reaches(Target)
               /\ \A q \in closure' : Deps(q) \subseteq closure' \cup ToSet(stack')
      PROVE  ToolInv'
  <2>1. ToolTypes'
    BY <1>0, <1>6, SameJudge DEF ToolTypes, Stages
  <2>2. SearchInv'
    BY <1>0, <1>1, <1>4, <1>5, <1>6 DEF SearchInv, Extracting
  <2>3. OrderInv' /\ KahnInv' /\ TempInv'
    BY <1>6 DEF OrderInv, KahnInv, TempInv, Extracting, InTemp
  <2>4. ResultsInv'
    BY <1>0, <1>6, NoVerdict
  <2> QED BY <2>1, <2>2, <2>3, <2>4 DEF ToolInv
<1>7. CASE p \in closure
  <2>1. stack' = Front(stack) /\ UNCHANGED <<closure, stage, exit>>
    BY <1>7 DEF Reach, p
  <2>2. closure' \cup ToSet(stack') = closure \cup ToSet(stack)
    BY <1>3, <1>7, <2>1
  <2>3. Target \in closure' \cup ToSet(stack') /\ closure' \cup ToSet(stack') \subseteq Reaches(Target)
        /\ \A q \in closure' : Deps(q) \subseteq closure' \cup ToSet(stack')
    BY <1>4, <2>1, <2>2
  <2> HIDE DEF Reach
  <2> QED BY <1>0, <1>2, <1>3, <1>6, <2>1, <2>2, <2>3
<1>8. CASE p \notin closure /\ Unknown \in workspace.deps[p]
  <2>1. stage' = "ended" /\ exit' = 1 /\ UNCHANGED <<closure, stack>>
    BY <1>8 DEF Reach, p, search
  <2> QED BY <1>2, <1>6, <2>1
<1>9. CASE p \notin closure /\ Unknown \notin workspace.deps[p]
  <2> DEFINE D == SetToSeq(Deps(p))
  <2>1. closure' = closure \cup {p} /\ stack' = Front(stack) \o D /\ UNCHANGED <<stage, exit>>
    BY <1>9 DEF Reach, p
  <2>2. Deps(p) \subseteq Packages /\ IsFiniteSet(Deps(p))
    BY <1>2, <1>3, DepsType
  <2>3. D \in Seq(Deps(p)) /\ ToSet(D) = Deps(p)
    BY <2>2, Listing
  <2>4. D \in Seq(Packages)
    BY <2>2, <2>3
  <2> HIDE DEF D
  <2>5. stack' \in Seq(Packages) /\ ToSet(stack') = ToSet(Front(stack)) \cup Deps(p)
    BY <1>3, <2>1, <2>3, <2>4, MembersConcat
  <2>6. closure' \cup ToSet(stack') = closure \cup ToSet(stack) \cup Deps(p)
    BY <1>3, <2>1, <2>5
  <2>7. p \in Reaches(Target)
    BY <1>3, <1>4
  <2>8. Deps(p) \subseteq Reaches(Target)
    BY <1>2, <1>4, <2>7, Reach2
  <2>9. Target \in closure' \cup ToSet(stack') /\ closure' \cup ToSet(stack') \subseteq Reaches(Target)
    BY <1>4, <2>6, <2>8
  <2>10. \A q \in closure' : Deps(q) \subseteq closure' \cup ToSet(stack')
    BY <1>4, <2>1, <2>6
  <2>11. closure' \subseteq Packages
    BY <1>2, <1>3, <2>1
  <2> QED BY <1>0, <1>6, <2>1, <2>5, <2>6, <2>9, <2>10, <2>11
<1> QED BY <1>7, <1>8, <1>9

-----------------------------------------------------------------------------
(* Kahn's algorithm *)

\* With nothing left to look at, all that is reached is found.
LEMMA StartSortKeeps == ToolInv /\ StartSort => ToolInv'
<1> SUFFICES ASSUME ToolInv, StartSort PROVE ToolInv'
  OBVIOUS
<1> DEFINE Free == {p \in closure : degree'[p] = 0}
<1>0. /\ ToolTypes /\ SearchInv /\ stage = "reach" /\ stack = <<>> /\ stage' = "sort"
      /\ degree' = [p \in Packages |-> IF p \in closure THEN Cardinality(Deps(p)) ELSE 0]
      /\ ready' = SetToSeq(Free)
      /\ UNCHANGED <<workspace, command, queue, closure, stack, order, results, exit>>
      /\ UNCHANGED <<next, copied, built, ranTests, tested>>
  BY DEF ToolInv, StartSort, search, temporary
<1>1. Target' = Target /\ Untouched = Untouched'
  BY <1>0 DEF Target, Untouched
<1>2. workspace \in Shapes /\ closure \subseteq Packages /\ IsFiniteSet(closure)
  BY <1>0, WorkspaceAssumption, FS_Subset DEF ToolTypes
<1>3. /\ order = <<>> /\ Untouched /\ Target \in Packages /\ Target \in closure
      /\ closure \subseteq Reaches(Target) /\ \A p \in closure : Deps(p) \subseteq closure
  BY <1>0, MembersNone DEF SearchInv
<1>4. closure = Reaches(Target)
  BY <1>2, <1>3, Reach3
<1>5. \A p \in closure : Cardinality(Deps(p)) \in Nat /\ IsFiniteSet(Deps(p)) /\ Deps(p)' = Deps(p)
  BY <1>0, <1>2, DepsType, SameReach
<1>6. degree' \in [Packages -> Nat] /\ \A p \in closure : degree'[p] = Cardinality(Deps(p))
  BY <1>0, <1>2, <1>5
<1>7. Free \subseteq closure /\ IsFiniteSet(Free)
  BY <1>2, FS_Subset
<1>8. ready' \in Seq(Free) /\ Once(ready') /\ ToSet(ready') = Free
  BY <1>0, <1>7, Listing
<1>9. ready' \in Seq(Packages)
  BY <1>2, <1>7, <1>8
<1>10. ToolTypes'
  BY <1>0, <1>6, <1>9, SameJudge DEF ToolTypes, Stages
<1>11. SearchInv'
  BY <1>0, <1>1, <1>3, <1>4, SameReach DEF SearchInv
<1>12. OrderInv'
  <2>1. order' = <<>> /\ Len(order') = 0
    BY <1>0, <1>3
  <2> QED BY <2>1 DEF OrderInv, Once
<1>13. KahnInv'
  <2>1. ToSet(order') = {}
    BY <1>0, <1>3, MembersNone
  <2>2. \A p \in closure' : /\ degree'[p] = Cardinality(Deps(p)' \ ToSet(order'))
                            /\ degree'[p] = 0 <=> p \in ToSet(order') \cup ToSet(ready')
    <3> SUFFICES ASSUME NEW p \in closure
                 PROVE  /\ degree'[p] = Cardinality(Deps(p) \ {})
                        /\ degree'[p] = 0 <=> p \in ToSet(ready')
      BY <1>0, <1>5, <2>1
    <3>1. Deps(p) \ {} = Deps(p)
      OBVIOUS
    <3> QED BY <1>6, <1>8, <3>1
  <2>3. Once(ready)' /\ ToSet(ready') \subseteq closure' /\ ToSet(ready') \cap ToSet(order') = {}
    BY <1>0, <1>7, <1>8, <2>1 DEF Once
  <2> QED BY <1>1, <1>3, <2>2, <2>3 DEF KahnInv
<1>14. TempInv'
  BY <1>0 DEF TempInv, InTemp
<1>15. ResultsInv'
  BY <1>0, NoVerdict
<1> QED BY <1>10, <1>11, <1>12, <1>13, <1>14, <1>15 DEF ToolInv

\* Counting the dependencies left when one more package is ordered.
LEMMA OneLess ==
  ASSUME NEW D, IsFiniteSet(D), NEW O, NEW h, h \notin O
  PROVE  /\ Cardinality(D \ O) \in Nat
         /\ Cardinality(D \ (O \cup {h})) = IF h \in D THEN Cardinality(D \ O) - 1 ELSE Cardinality(D \ O)
         /\ h \in D => Cardinality(D \ O) # 0
<1>1. IsFiniteSet(D \ O)
  BY FS_Subset
<1>2. D \ (O \cup {h}) = (D \ O) \ {h} /\ (h \in D \ O <=> h \in D)
  OBVIOUS
<1>3. Cardinality((D \ O) \ {h}) = IF h \in D \ O THEN Cardinality(D \ O) - 1 ELSE Cardinality(D \ O)
  BY <1>1, FS_RemoveElement
<1>4. h \in D => D \ O # {}
  OBVIOUS
<1>5. Cardinality(D \ O) \in Nat /\ (Cardinality(D \ O) = 0 <=> D \ O = {})
  BY <1>1, FS_CardinalityType, FS_EmptySet
<1> QED BY <1>2, <1>3, <1>4, <1>5

\* The first of the ready has all it depends on before it.
LEMMA SortKeeps == ToolInv /\ Sort => ToolInv'
<1> SUFFICES ASSUME ToolInv, Sort PROVE ToolInv'
  OBVIOUS
<1> DEFINE h == Head(ready)
           above == {p \in closure : h \in Deps(p)}
           Free == {p \in above : degree'[p] = 0}
<1>0. /\ ToolTypes /\ SearchInv /\ OrderInv /\ KahnInv /\ stage = "sort" /\ stage' = stage /\ ready # <<>>
      /\ order' = Append(order, h)
      /\ degree' = [p \in Packages |-> IF p \in above THEN degree[p] - 1 ELSE degree[p]]
      /\ ready' = Tail(ready) \o SetToSeq(Free)
      /\ UNCHANGED <<workspace, command, queue, closure, stack, results, exit>>
      /\ UNCHANGED <<next, copied, built, ranTests, tested>>
  BY DEF ToolInv, Sort, search, temporary
<1>1. Target' = Target /\ Untouched = Untouched' /\ Extracting /\ Extracting'
  BY <1>0 DEF Target, Untouched, Extracting
<1>2. /\ workspace \in Shapes /\ closure \subseteq Packages /\ IsFiniteSet(closure)
      /\ order \in Seq(Packages) /\ ready \in Seq(Packages) /\ degree \in [Packages -> Nat]
  BY <1>0, WorkspaceAssumption, FS_Subset DEF ToolTypes
<1>3. /\ Untouched /\ Once(ready) /\ ToSet(ready) \subseteq closure /\ ToSet(ready) \cap ToSet(order) = {}
      /\ \A p \in closure : /\ degree[p] = Cardinality(Deps(p) \ ToSet(order))
                            /\ degree[p] = 0 <=> p \in ToSet(order) \cup ToSet(ready)
  BY <1>0 DEF KahnInv
<1>4. /\ Tail(ready) \in Seq(Packages) /\ ToSet(ready) = {h} \cup ToSet(Tail(ready))
      /\ Once(Tail(ready)) /\ h \notin ToSet(Tail(ready)) /\ h \in Packages
  BY <1>0, <1>2, <1>3, MembersHead, OnceTail
<1>5. h \in closure /\ h \notin ToSet(order) /\ degree[h] = 0
  BY <1>3, <1>4
<1> HIDE DEF h
<1>6. order' \in Seq(Packages) /\ ToSet(order') = ToSet(order) \cup {h}
  BY <1>0, <1>2, <1>4, MembersAppend
<1>7. \A p \in closure : /\ IsFiniteSet(Deps(p)) /\ Deps(p)' = Deps(p) /\ degree[p] \in Nat /\ p \in Packages
  BY <1>0, <1>2, DepsType, SameReach
<1>8. \A p \in closure :
        /\ Cardinality(Deps(p) \ (ToSet(order) \cup {h})) =
             IF h \in Deps(p) THEN degree[p] - 1 ELSE degree[p]
        /\ h \in Deps(p) => degree[p] # 0
  <2> SUFFICES ASSUME NEW p \in closure
               PROVE  /\ Cardinality(Deps(p) \ (ToSet(order) \cup {h})) =
                           IF h \in Deps(p) THEN degree[p] - 1 ELSE degree[p]
                      /\ h \in Deps(p) => degree[p] # 0
    OBVIOUS
  <2> DEFINE d == Deps(p)
             o == ToSet(order)
  <2>1. IsFiniteSet(d) /\ h \notin o /\ degree[p] = Cardinality(d \ o)
    BY <1>3, <1>5, <1>7
  <2> HIDE DEF d, o
  <2>2. /\ Cardinality(d \ (o \cup {h})) = IF h \in d THEN Cardinality(d \ o) - 1 ELSE Cardinality(d \ o)
        /\ h \in d => Cardinality(d \ o) # 0
    BY <2>1, OneLess
  <2> QED BY <2>1, <2>2 DEF d, o
<1>9. \A p \in closure : /\ degree'[p] = IF h \in Deps(p) THEN degree[p] - 1 ELSE degree[p]
                         /\ degree'[p] = Cardinality(Deps(p) \ ToSet(order'))
  BY <1>0, <1>6, <1>7, <1>8
<1>10. degree' \in [Packages -> Nat]
  <2>1. \A p \in Packages : degree[p] \in Nat
    BY <1>2
  <2>2. \A p \in above : degree[p] # 0
    BY <1>8
  <2>3. \A p \in Packages : (IF p \in above THEN degree[p] - 1 ELSE degree[p]) \in Nat
    <3> HIDE DEF above
    <3> QED BY <2>1, <2>2
  <2> QED BY <1>0, <2>3
<1>11. Free \subseteq closure /\ IsFiniteSet(Free) /\ \A p \in Free : degree[p] # 0 /\ degree'[p] = 0
  BY <1>2, <1>8, FS_Subset
<1>12. \A p \in closure : degree'[p] = 0 <=> degree[p] = 0 \/ p \in Free
  <2> SUFFICES ASSUME NEW p \in closure PROVE degree'[p] = 0 <=> degree[p] = 0 \/ p \in Free
    OBVIOUS
  <2>1. CASE h \in Deps(p)
    BY <1>8, <2>1
  <2>2. CASE h \notin Deps(p)
    <3>1. p \notin Free /\ degree'[p] = degree[p]
      BY <1>9, <2>2
    <3> QED BY <3>1
  <2> QED BY <2>1, <2>2
<1> HIDE DEF Free, above
<1>13. SetToSeq(Free) \in Seq(Packages) /\ Once(SetToSeq(Free)) /\ ToSet(SetToSeq(Free)) = Free
  <2>1. SetToSeq(Free) \in Seq(Free)
    BY <1>11, Listing
  <2> QED BY <1>2, <1>11, <2>1, Listing
<1>14. ready' \in Seq(Packages) /\ ToSet(ready') = ToSet(Tail(ready)) \cup Free
  <2> DEFINE f == SetToSeq(Free)
             t == Tail(ready)
  <2>1. f \in Seq(Packages) /\ ToSet(f) = Free /\ t \in Seq(Packages) /\ ready' = t \o f
    BY <1>0, <1>4, <1>13
  <2> HIDE DEF f, t
  <2>2. t \o f \in Seq(Packages) /\ ToSet(t \o f) = ToSet(t) \cup ToSet(f)
    BY <2>1, MembersConcat
  <2> QED BY <2>1, <2>2 DEF t
<1>15. ToSet(Tail(ready)) \cap Free = {} /\ ToSet(order) \cap Free = {} /\ h \notin Free
  BY <1>3, <1>4, <1>5, <1>11
<1>16. Once(ready')
  BY <1>0, <1>4, <1>13, <1>15, OnceConcat
<1>17. ToolTypes'
  BY <1>0, <1>6, <1>10, <1>14, SameJudge DEF ToolTypes
<1>18. SearchInv'
  BY <1>0, <1>1, SameReach DEF SearchInv
<1>19. KahnInv'
  <2>1. ToSet(ready') \subseteq closure' /\ ToSet(ready') \cap ToSet(order') = {}
    BY <1>0, <1>3, <1>4, <1>6, <1>11, <1>14, <1>15
  <2>2. \A p \in closure' : /\ degree'[p] = Cardinality(Deps(p)' \ ToSet(order'))
                            /\ degree'[p] = 0 <=> p \in ToSet(order') \cup ToSet(ready')
    BY <1>0, <1>3, <1>4, <1>6, <1>7, <1>9, <1>12, <1>14
  <2> QED BY <1>1, <1>3, <1>16, <2>1, <2>2 DEF KahnInv, Once
<1>20. OrderInv'
  <2> DEFINE n == Len(order)
  <2>1. n \in Nat /\ Len(order') = n + 1 /\ order'[n + 1] = h /\ \A i \in 1 .. n : order'[i] = order[i]
    BY <1>0, <1>2, <1>4
  <2>2. ToSet(order) = Ordered(n)
    BY <1>2 DEF ToSet, Ordered
  <2>3. Deps(h) \subseteq ToSet(order)
    <3>1. IsFiniteSet(Deps(h) \ ToSet(order)) /\ Cardinality(Deps(h) \ ToSet(order)) = 0
      BY <1>3, <1>5, <1>7, FS_Subset
    <3>2. Deps(h) \ ToSet(order) = {}
      BY <3>1, FS_EmptySet
    <3> QED BY <3>2
  <2>4. /\ \A i \in 1 .. n : order[i] \in closure /\ Deps(order[i]) \subseteq Ordered(i - 1)
        /\ Once(order)
    BY <1>0, <1>1 DEF OrderInv
  <2> HIDE DEF n
  <2>5. \A i \in 1 .. n + 1 : Ordered(i - 1)' = Ordered(i - 1)
    <3> SUFFICES ASSUME NEW i \in 1 .. n + 1 PROVE Ordered(i - 1)' = Ordered(i - 1)
      OBVIOUS
    <3>1. \A k \in 1 .. i - 1 : order'[k] = order[k]
      BY <2>1
    <3> QED BY <3>1 DEF Ordered
  <2>6. \A i \in 1 .. n + 1 : order'[i] \in closure' /\ Deps(order'[i]) \subseteq Ordered(i - 1)'
    <3> SUFFICES ASSUME NEW i \in 1 .. n + 1
                 PROVE  order'[i] \in closure /\ Deps(order'[i]) \subseteq Ordered(i - 1)
      BY <1>0, <2>5
    <3>1. CASE i = n + 1
      BY <1>5, <2>1, <2>2, <2>3, <3>1
    <3>2. CASE i # n + 1
      <4>1. i \in 1 .. n
        BY <2>1, <3>2
      <4> QED BY <2>1, <2>4, <4>1
    <3> QED BY <3>1, <3>2
  <2>7. Once(order')
    <3> SUFFICES ASSUME NEW i \in 1 .. n + 1, NEW j \in 1 .. n + 1, order'[i] = order'[j] PROVE i = j
      BY <2>1 DEF Once
    <3>1. \A k \in 1 .. n : order'[k] # h
      <4> SUFFICES ASSUME NEW k \in 1 .. n PROVE order[k] # h
        BY <2>1
      <4> QED BY <1>5, <2>2 DEF Ordered
    <3>2. \A k \in 1 .. n + 1 : k = n + 1 \/ k \in 1 .. n
      BY <2>1
    <3> QED BY <2>1, <2>4, <3>1, <3>2 DEF Once, n
  <2>8. \A i \in 1 .. Len(order') :
          order'[i] \in closure' /\ workspace'.deps[order'[i]] \ {Unknown} \subseteq Ordered(i - 1)'
    BY <1>0, <2>1, <2>6 DEF Deps
  <2> QED BY <2>7, <2>8 DEF OrderInv, Deps, Once
<1>21. TempInv'
  BY <1>0 DEF TempInv, InTemp
<1>22. ResultsInv'
  BY <1>0, NoVerdict
<1> QED BY <1>17, <1>18, <1>19, <1>20, <1>21, <1>22 DEF ToolInv

\* Nothing ready: either all is ordered, or a cycle ends the command.
LEMMA SortedKeeps == ToolInv /\ Sorted => ToolInv'
<1> SUFFICES ASSUME ToolInv, Sorted PROVE ToolInv'
  OBVIOUS
<1>0. /\ ToolTypes /\ SearchInv /\ OrderInv /\ KahnInv /\ stage = "sort"
      /\ UNCHANGED <<workspace, command, queue, closure, stack, degree, ready, order, results>>
      /\ UNCHANGED <<next, copied, built, ranTests, tested>>
  BY DEF ToolInv, Sorted, search, sorting, temporary
<1>1. Target' = Target /\ Untouched /\ Extracting
  BY <1>0 DEF Target, Extracting, KahnInv
<1>2. closure \subseteq Packages /\ IsFiniteSet(closure) /\ order \in Seq(Packages)
  BY <1>0, WorkspaceAssumption, FS_Subset DEF ToolTypes
<1>3. CASE Len(order) = Cardinality(closure)
  <2>1. stage' = "copy" /\ exit' = exit
    BY <1>3 DEF Sorted
  <2>2. ToSet(order) = closure
    <3> DEFINE n == Len(order)
    <3>1. n \in Nat /\ n = Cardinality(closure) /\ order \in [1 .. n -> Packages] /\ DOMAIN order = 1 .. n
      BY <1>2, <1>3
    <3>2. (\A i \in 1 .. n : order[i] \in closure) /\ Once(order)
      BY <1>0, <1>1 DEF OrderInv
    <3>3. \A i, j \in 1 .. n : order[i] = order[j] => i = j
      BY <3>2 DEF Once
    <3> HIDE DEF n
    <3>4. order \in [1 .. n -> closure]
      BY <3>1, <3>2 DEF n
    <3>5. {order[i] : i \in 1 .. n} = closure
      BY <1>2, <3>1, <3>3, <3>4, ListedWhole
    <3> QED BY <3>1, <3>5 DEF ToSet
  <2>3. ToolTypes'
    BY <1>0, <2>1, SameJudge DEF ToolTypes, Stages
  <2>4. SearchInv'
    BY <1>0, <1>1, <2>1, SameReach DEF SearchInv
  <2>5. OrderInv' /\ KahnInv'
    BY <1>0, <1>1, <2>1 DEF OrderInv, KahnInv, Extracting, Deps, Once, Ordered
  <2>6. TempInv'
    <3>1. next' \in 1 .. Len(order') + 1 /\ copied' = Ordered(next - 1)' /\ built' = {} /\ ~ranTests'
      <4>1. next' = 1 /\ copied' = {} /\ built' = {} /\ ~ranTests' /\ Len(order') \in Nat
        BY <1>0, <1>1, <1>2 DEF Untouched
      <4>2. Ordered(next - 1)' = {}
        BY <4>1 DEF Ordered
      <4> QED BY <4>1, <4>2
    <3> QED BY <1>0, <2>1, <2>2, <3>1 DEF TempInv, InTemp
  <2>7. ResultsInv'
    BY <1>0, <2>1, NoVerdict
  <2> QED BY <2>3, <2>4, <2>5, <2>6, <2>7 DEF ToolInv
<1>4. CASE Len(order) # Cardinality(closure)
  <2>1. stage' = "ended" /\ exit' = 1
    BY <1>4 DEF Sorted
  <2>2. ToolTypes'
    BY <1>0, <2>1, SameJudge DEF ToolTypes
  <2>3. SearchInv' /\ OrderInv' /\ KahnInv' /\ TempInv'
    BY <2>1 DEF SearchInv, OrderInv, KahnInv, TempInv, Extracting, InTemp
  <2>4. ResultsInv'
    BY <1>0, <2>1, NoVerdict
  <2> QED BY <2>2, <2>3, <2>4 DEF ToolInv
<1> QED BY <1>3, <1>4

-----------------------------------------------------------------------------
(* The temporary directory *)

\* One place more of the order; all its places.
LEMMA OrderedNext ==
  ASSUME order \in Seq(Packages)
  PROVE  /\ Ordered(0) = {} /\ ToSet(order) = Ordered(Len(order))
         /\ \A n \in Nat : Ordered(n + 1) = Ordered(n) \cup {order[n + 1]}
<1>1. Ordered(0) = {}
  BY DEF Ordered
<1>2. ToSet(order) = Ordered(Len(order))
  BY DEF ToSet, Ordered
<1>3. ASSUME NEW n \in Nat PROVE Ordered(n + 1) = Ordered(n) \cup {order[n + 1]}
  <2>1. \A k : k \in 1 .. n + 1 <=> k \in 1 .. n \/ k = n + 1
    OBVIOUS
  <2> QED BY <2>1 DEF Ordered
<1> QED BY <1>1, <1>2, <1>3

\* The target is the last of a complete order: the packages up to it are closed under
\* dependency, so they are all it reaches.
LEMMA TargetLast ==
  ASSUME ToolInv, InTemp
  PROVE  /\ order \in Seq(Packages) /\ Len(order) \in Nat \ {0} /\ Last(order) = Target
         /\ ToSet(order) = Reaches(Target) /\ closure = Reaches(Target) /\ Target \in Packages
<1>1. Extracting /\ order \in Seq(Packages) /\ Len(order) \in Nat
  BY DEF ToolInv, ToolTypes, Extracting, InTemp
<1>2. Target \in Packages /\ closure = Reaches(Target) /\ ToSet(order) = closure /\ workspace \in Shapes
  BY <1>1 DEF ToolInv, ToolTypes, SearchInv, TempInv
<1>3. /\ \A i \in 1 .. Len(order) : order[i] \in closure /\ Deps(order[i]) \subseteq Ordered(i - 1)
      /\ Once(order)
  BY <1>1 DEF ToolInv, OrderInv
<1>4. PICK i \in 1 .. Len(order) : order[i] = Target
  <2>1. Target \in ToSet(order)
    BY <1>2, Reach1
  <2> QED BY <1>1, <2>1 DEF ToSet
<1> DEFINE S == Ordered(i)
<1>5. S \subseteq Packages /\ Target \in S
  BY <1>1, <1>4 DEF Ordered
<1>6. \A x \in S : Deps(x) \subseteq S
  <2> SUFFICES ASSUME NEW k \in 1 .. i PROVE Deps(order[k]) \subseteq S
    BY DEF Ordered
  <2>1. Deps(order[k]) \subseteq Ordered(k - 1)
    BY <1>3
  <2>2. Ordered(k - 1) \subseteq S
    BY DEF Ordered
  <2> QED BY <2>1, <2>2
<1>7. Reaches(Target) \subseteq S
  BY <1>2, <1>5, <1>6, Reach3
<1>8. order[Len(order)] \in S /\ Len(order) # 0
  <2>1. Len(order) # 0 /\ Len(order) \in 1 .. Len(order)
    BY <1>1, <1>4
  <2> QED BY <1>2, <1>3, <1>7, <2>1
<1>9. PICK k \in 1 .. i : order[k] = order[Len(order)]
  BY <1>8 DEF Ordered
<1>10. k = Len(order)
  <2>1. k \in 1 .. Len(order) /\ Len(order) \in 1 .. Len(order)
    BY <1>1, <1>8, <1>9
  <2> QED BY <1>3, <1>9, <2>1 DEF Once
<1>11. i = Len(order)
  BY <1>1, <1>10
<1> QED BY <1>1, <1>2, <1>4, <1>8, <1>11 DEF Last

\* A step within the directory leaves the search, the order and the verdicts alone.
LEMMA TempStep ==
  ASSUME ToolInv, InTemp,
         UNCHANGED <<workspace, command, queue, closure, stack, degree, ready, order, results, exit>>,
         InTemp', next' \in Nat \ {0}, copied' \subseteq Packages, built' \subseteq Packages,
         ranTests' \in BOOLEAN, tested' = ranTests', TempInv'
  PROVE  ToolInv'
<1>0. /\ ToolTypes /\ SearchInv /\ OrderInv /\ Extracting /\ Extracting' /\ Target' = Target
      /\ stage' \notin {"target", "reach", "sort", "report", "ended"} /\ stage' \in Stages
      /\ stage \notin {"target", "reach", "sort", "report", "ended"}
  BY DEF ToolInv, Extracting, InTemp, Target, Stages
<1>1. ToolTypes'
  BY <1>0, SameJudge DEF ToolTypes
<1>2. SearchInv'
  BY <1>0, SameReach DEF SearchInv
<1>3. OrderInv' /\ KahnInv'
  <2>1. KahnInv'
    BY <1>0 DEF KahnInv
  <2>2. workspace' = workspace /\ order' = order /\ closure' = closure /\ OrderInv
    BY <1>0
  <2>3. (\A i \in 1 .. Len(order) : order[i] \in closure /\ Deps(order[i]) \subseteq Ordered(i - 1))'
    <3>1. \A i \in 1 .. Len(order) : order[i] \in closure /\ Deps(order[i]) \subseteq Ordered(i - 1)
      BY <1>0, <2>2 DEF OrderInv
    <3>2. \A n : Ordered(n)' = Ordered(n)
      BY <2>2 DEF Ordered
    <3> QED BY <2>2, <3>1, <3>2 DEF Deps
  <2>4. Once(order)'
    BY <1>0, <2>2 DEF OrderInv, Once
  <2>5. OrderInv'
    BY <2>3, <2>4 DEF OrderInv
  <2> QED BY <2>1, <2>5
<1>4. ResultsInv'
  BY <1>0, NoVerdict
<1> QED BY <1>1, <1>2, <1>3, <1>4 DEF ToolInv

\* Copied in order.
LEMMA CopyKeeps == ToolInv /\ Copy => ToolInv'
<1> SUFFICES ASSUME ToolInv, Copy PROVE ToolInv'
  OBVIOUS
<1>0. /\ ToolTypes /\ stage = "copy" /\ InTemp
      /\ UNCHANGED <<workspace, command, queue, closure, stack, degree, ready, order, results, exit>>
      /\ UNCHANGED <<built, ranTests, tested>>
  BY DEF ToolInv, Copy, search, sorting, InTemp
<1>1. /\ order \in Seq(Packages) /\ Len(order) \in Nat \ {0} /\ ToSet(order) = closure
      /\ next \in 1 .. Len(order) + 1 /\ copied = Ordered(next - 1) /\ built = {} /\ ~ranTests
      /\ copied \subseteq Packages /\ built \subseteq Packages /\ ranTests \in BOOLEAN /\ tested = ranTests
  BY <1>0, TargetLast DEF ToolInv, ToolTypes, TempInv
<1>2. \A n : Ordered(n)' = Ordered(n)
  BY <1>0 DEF Ordered
<1>3. CASE next <= Len(order)
  <2>1. copied' = copied \cup {order[next]} /\ next' = next + 1 /\ stage' = stage
    BY <1>3 DEF Copy, Here
  <2>2. next \in Nat /\ next' - 1 = next /\ next' \in 1 .. Len(order) + 1
    BY <1>1, <1>3, <2>1
  <2>3. Ordered(next) = Ordered(next - 1) \cup {order[next]}
    <3>1. next - 1 \in Nat /\ (next - 1) + 1 = next
      BY <1>1
    <3>2. Ordered((next - 1) + 1) = Ordered(next - 1) \cup {order[(next - 1) + 1]}
      BY <1>1, <3>1, OrderedNext
    <3> QED BY <3>1, <3>2
  <2>4. copied' = Ordered(next' - 1)
    BY <1>1, <2>1, <2>2, <2>3
  <2>5. copied' = Ordered(next - 1)'
    BY <1>0, <2>4 DEF Ordered
  <2>6. copied' \subseteq Packages
    BY <1>1, <1>3, <2>1
  <2>7. TempInv' /\ InTemp'
    BY <1>0, <1>1, <2>1, <2>2, <2>5 DEF TempInv, InTemp
  <2> QED BY <1>0, <1>1, <2>2, <2>6, <2>7, TempStep
<1>4. CASE ~(next <= Len(order))
  <2>1. stage' = "install" /\ next' = 1 /\ copied' = copied
    BY <1>4 DEF Copy
  <2>2. next - 1 = Len(order)
    BY <1>1, <1>4
  <2>3. copied = closure
    BY <1>1, <2>2, OrderedNext
  <2>4. Ordered(next - 1)' = {}
    BY <2>1 DEF Ordered
  <2>5. next' \in 1 .. Len(order)'
    BY <1>0, <1>1, <2>1
  <2>6. TempInv' /\ InTemp'
    BY <1>0, <1>1, <2>1, <2>3, <2>4, <2>5 DEF TempInv, InTemp
  <2> QED BY <1>0, <1>1, <2>1, <2>6, TempStep
<1> QED BY <1>3, <1>4

\* The package at hand installs what is copied; nothing else moves.
LEMMA InstallKeeps == ToolInv /\ Install => ToolInv'
<1> SUFFICES ASSUME ToolInv, Install PROVE ToolInv'
  OBVIOUS
<1>0. /\ ToolTypes /\ TempInv /\ stage = "install" /\ stage' = "build" /\ InTemp /\ InTemp'
      /\ UNCHANGED <<workspace, command, queue, closure, stack, degree, ready, order, results, exit>>
      /\ UNCHANGED <<next, copied, built, ranTests, tested>>
  BY DEF ToolInv, Install, search, sorting, temporary, InTemp
<1>1. next \in Nat \ {0} /\ copied \subseteq Packages /\ built \subseteq Packages
      /\ ranTests \in BOOLEAN /\ tested = ranTests
  BY <1>0 DEF ToolTypes
<1>2. next \in 1 .. Len(order) /\ copied = closure /\ built = Ordered(next - 1) /\ ToSet(order) = closure
  BY <1>0 DEF TempInv
<1>3. Ordered(next - 1)' = Ordered(next - 1)
  BY <1>0 DEF Ordered
<1>4. TempInv'
  BY <1>0, <1>2, <1>3 DEF TempInv
<1> QED BY <1>0, <1>1, <1>4, TempStep

\* The loop past a package built: the next one, or the end of a complete build.
LEMMA GoesOnKeeps ==
  ASSUME ToolInv, InTemp, GoesOn,
         UNCHANGED <<workspace, command, queue, closure, stack, degree, ready, order, results, exit, copied>>,
         next \in 1 .. Len(order), copied = closure, built' = Ordered(next),
         ranTests' \in BOOLEAN, tested' = ranTests',
         order[next] = Target => Target \in workspace.buildOnly \/ (ranTests' <=> Target \in workspace.tests)
  PROVE  ToolInv'
<1>1. /\ order \in Seq(Packages) /\ Len(order) \in Nat \ {0} /\ Last(order) = Target
      /\ ToSet(order) = closure /\ closure \subseteq Packages
  BY TargetLast DEF ToolInv, ToolTypes
<1>2. next' = next + 1 /\ stage' = (IF next < Len(order) THEN "install" ELSE "remove") /\ InTemp'
  BY DEF GoesOn, InTemp
<1>3. built' = Ordered(next - 1)'
  <2>1. next' - 1 = next
    BY <1>1, <1>2
  <2> QED BY <2>1 DEF Ordered
<1>4. Target' = Target
  BY DEF Target
<1>5. built' \subseteq Packages
  BY <1>1 DEF Ordered
<1>6. TempInv'
  <2>1. CASE next < Len(order)
    <3>1. stage' = "install" /\ next' \in 1 .. Len(order')
      BY <1>1, <1>2, <2>1
    <3> QED BY <1>1, <1>3, <3>1 DEF TempInv, InTemp
  <2>2. CASE ~(next < Len(order))
    <3>1. stage' = "remove" /\ next = Len(order)
      BY <1>1, <1>2, <2>2
    <3>2. built' = closure /\ order[next] = Target
      BY <1>1, <3>1, OrderedNext DEF Last
    <3> QED BY <1>1, <1>4, <3>1, <3>2 DEF TempInv, InTemp
  <2> QED BY <2>1, <2>2
<1>7. next' \in Nat \ {0} /\ copied' \subseteq Packages
  BY <1>1, <1>2
<1> QED BY <1>2, <1>5, <1>6, <1>7, TempStep

\* Built in order; the target is tested next, unless it is only built.
LEMMA BuildKeeps == ToolInv /\ Build => ToolInv'
<1> SUFFICES ASSUME ToolInv, Build PROVE ToolInv'
  OBVIOUS
<1>0. /\ ToolTypes /\ TempInv /\ stage = "build" /\ InTemp /\ built' = built \cup {order[next]}
      /\ UNCHANGED <<workspace, command, queue, closure, stack, degree, ready, order, results, exit>>
      /\ UNCHANGED <<copied, ranTests, tested>>
  BY DEF ToolInv, Build, search, sorting, InTemp, Here
<1>1. /\ order \in Seq(Packages) /\ Len(order) \in Nat \ {0} /\ ToSet(order) = closure
      /\ next \in 1 .. Len(order) /\ copied = closure /\ built = Ordered(next - 1)
      /\ closure \subseteq Packages /\ built \subseteq Packages /\ ranTests \in BOOLEAN /\ tested = ranTests
  BY <1>0, TargetLast DEF ToolInv, ToolTypes, TempInv
<1>2. built' = Ordered(next)
  <2>1. next - 1 \in Nat /\ (next - 1) + 1 = next
    BY <1>1
  <2>2. Ordered((next - 1) + 1) = Ordered(next - 1) \cup {order[(next - 1) + 1]}
    BY <1>1, <2>1, OrderedNext
  <2> QED BY <1>0, <1>1, <2>1, <2>2
<1>3. CASE order[next] = Target /\ Target \notin workspace.buildOnly
  <2>1. stage' = "test" /\ next' = next
    BY <1>3 DEF Build, Here
  <2>2. Ordered(next)' = Ordered(next)
    BY <1>0, <2>1 DEF Ordered
  <2>3. TempInv' /\ InTemp'
    BY <1>0, <1>1, <1>2, <2>1, <2>2 DEF TempInv, InTemp
  <2>4. built' \subseteq Packages /\ next' \in Nat \ {0} /\ copied' \subseteq Packages
    BY <1>0, <1>1, <2>1
  <2> QED BY <1>0, <1>1, <2>3, <2>4, TempStep
<1>4. CASE ~(order[next] = Target /\ Target \notin workspace.buildOnly)
  <2>1. GoesOn
    BY <1>4 DEF Build, Here
  <2> QED BY <1>0, <1>1, <1>2, <1>4, <2>1, GoesOnKeeps
<1> QED BY <1>3, <1>4

\* The target's tests have passed, or there were none: where there are some, the flag
\* lets vitest pass only if it found them.
LEMMA TestKeeps == ToolInv /\ Test => ToolInv'
<1> SUFFICES ASSUME ToolInv, Test PROVE ToolInv'
  OBVIOUS
<1>0. /\ TempInv /\ stage = "test" /\ InTemp /\ GoesOn
      /\ ranTests' = (Target \in workspace.tests) /\ tested' = (Target \in workspace.globbed)
      /\ VitestPasses(Target \in workspace.tests)
      /\ UNCHANGED <<workspace, command, queue, closure, stack, degree, ready, order, results, exit, copied>>
      /\ built' = built
  BY DEF ToolInv, Test, search, sorting, InTemp
<1>1. next \in 1 .. Len(order) /\ copied = closure /\ built = Ordered(next)
  BY <1>0 DEF TempInv
<1>2. ranTests' \in BOOLEAN /\ tested' = ranTests' /\ (ranTests' <=> Target \in workspace.tests)
  <2>1. ranTests' = (Target \in workspace.tests) /\ tested' = (Target \in workspace.globbed)
    BY <1>0
  <2>2. tested' = ranTests'
    <3>1. workspace.globbed \subseteq workspace.tests
      BY DEF ToolInv, ToolTypes, Shapes
    <3>2. Target \in workspace.tests => Target \in workspace.globbed
      BY <1>0 DEF VitestPasses
    <3>3. (Target \in workspace.tests) = (Target \in workspace.globbed)
      BY <3>1, <3>2
    <3> QED BY <2>1, <3>3, Zenon
  <2>3. CASE Target \in workspace.tests
    BY <2>1, <2>2, <2>3, Zenon
  <2>4. CASE Target \notin workspace.tests
    <3>1. (Target \in workspace.tests) = FALSE
      BY <2>4
    <3>2. ranTests' = FALSE
      BY <2>1, <3>1, Zenon
    <3> QED BY <2>2, <2>4, <3>2
  <2> QED BY <2>3, <2>4
<1> QED BY <1>0, <1>1, <1>2, GoesOnKeeps

\* A verdict, good or bad.
LEMMA VerdictsKeep == ToolInv /\ (RemoveTemp \/ StepFails) => ToolInv'
<1> SUFFICES ASSUME ToolInv, RemoveTemp \/ StepFails PROVE ToolInv'
  OBVIOUS
<1>0. /\ ToolTypes /\ InTemp /\ queue # <<>>
      /\ UNCHANGED <<workspace, command, queue, closure, stack, degree, ready, order>>
      /\ UNCHANGED <<next, copied, built, ranTests, tested>>
  BY DEF ToolInv, ToolTypes, RemoveTemp, StepFails, search, sorting, temporary, InTemp
<1>1. ResultsInv' /\ exit' \in {0, 1} /\ stage' = "report"
  <2>1. CASE RemoveTemp
    <3>1. stage = "remove" /\ Verdict(TRUE, FALSE)
      BY <2>1 DEF RemoveTemp
    <3>2. Reaches(Target) = built
      BY <1>0, <3>1, TargetLast DEF ToolInv, TempInv
    <3>3. Target \in workspace.buildOnly \/ (ranTests <=> Target \in workspace.tests)
      BY <3>1 DEF ToolInv, TempInv
    <3>4. ranTests \/ Target \in workspace.buildOnly \/ Target \notin workspace.tests
      BY <3>3
    <3> QED BY <1>0, <3>1, <3>2, <3>4, OneVerdict
  <2>2. CASE StepFails
    <3>1. Verdict(FALSE, TRUE)
      BY <2>2 DEF StepFails
    <3> QED BY <1>0, <3>1, OneVerdict
  <2> QED BY <2>1, <2>2
<1>2. ToolTypes'
  BY <1>0, <1>1, SameJudge DEF ToolTypes, Stages
<1>3. SearchInv' /\ OrderInv' /\ KahnInv' /\ TempInv'
  BY <1>1 DEF SearchInv, OrderInv, KahnInv, TempInv, Extracting, InTemp
<1> QED BY <1>1, <1>2, <1>3 DEF ToolInv

-----------------------------------------------------------------------------
(* From one target to the next *)

\* What was found for a target is forgotten with it.
LEMMA ReportKeeps == ToolInv /\ Report => ToolInv'
<1> SUFFICES ASSUME ToolInv, Report PROVE ToolInv'
  OBVIOUS
<1>0. /\ ToolTypes /\ ResultsInv /\ stage = "report" /\ queue' = Tail(queue) /\ stage' = "target"
      /\ closure' = {} /\ stack' = <<>> /\ order' = <<>>
      /\ next' = 1 /\ copied' = {} /\ built' = {} /\ ranTests' = FALSE /\ tested' = FALSE
      /\ UNCHANGED <<workspace, command, degree, ready, results, exit>>
  BY DEF ToolInv, Report
<1>1. queue \in Seq(Packages \cup {Unknown}) /\ queue # <<>>
  BY <1>0 DEF ToolTypes
<1>2. queue' \in Seq(Packages \cup {Unknown}) /\ ToSet(queue) = {Target} \cup ToSet(queue')
  BY <1>0, <1>1, MembersHead DEF Target
<1>3. ToolTypes'
  <2>1. ranTests' \in BOOLEAN /\ tested' = ranTests'
    BY <1>0, Zenon
  <2>2. stack' \in Seq(Packages) /\ order' \in Seq(Packages) /\ next' \in Nat \ {0}
        /\ closure' \subseteq Packages /\ copied' \subseteq Packages /\ built' \subseteq Packages
    BY <1>0
  <2> QED BY <1>0, <1>2, <2>1, <2>2, SameJudge, Zenon DEF ToolTypes, Stages
<1>4. SearchInv' /\ OrderInv' /\ KahnInv' /\ TempInv'
  BY <1>0 DEF SearchInv, OrderInv, KahnInv, TempInv, Extracting, InTemp, Untouched
<1>5. ResultsInv'
  <2>1. Reported' = Reported /\ Target \in Reported
    BY <1>0 DEF Reported, ResultsInv
  <2>2. exit' = 0 => Reported' \cup ToSet(queue)' = Targets(command)'
    BY <1>0, <1>2, <2>1, SameJudge DEF ResultsInv
  <2> QED BY <1>0, <2>1, <2>2, SameJudge DEF ResultsInv
<1> QED BY <1>3, <1>4, <1>5 DEF ToolInv

\* No target is left.
LEMMA EndsKeeps == ToolInv /\ ToolEnds => ToolInv'
<1> SUFFICES ASSUME ToolInv, ToolEnds PROVE ToolInv'
  OBVIOUS
<1>0. /\ ToolTypes /\ stage = "target" /\ queue = <<>> /\ stage' = "ended"
      /\ UNCHANGED <<workspace, command, queue, closure, stack, degree, ready, order, results, exit>>
      /\ UNCHANGED <<next, copied, built, ranTests, tested>>
  BY DEF ToolInv, ToolEnds, search, sorting, temporary
<1>1. ToolTypes'
  BY <1>0, SameJudge DEF ToolTypes
<1>2. SearchInv' /\ OrderInv' /\ KahnInv' /\ TempInv'
  BY <1>0 DEF SearchInv, OrderInv, KahnInv, TempInv, Extracting, InTemp
<1>3. ResultsInv'
  BY <1>0, NoVerdict
<1> QED BY <1>1, <1>2, <1>3 DEF ToolInv

\* A step of the tool, or none.
LEMMA ToolStepKeeps == ToolInv /\ [ToolNext]_toolVars => ToolInv'
<1> SUFFICES ASSUME ToolInv, [ToolNext]_toolVars PROVE ToolInv'
  OBVIOUS
<1>1. CASE UNCHANGED toolVars
  <2>1. /\ UNCHANGED <<workspace, command, queue, stage, closure, stack, degree, ready, order>>
        /\ UNCHANGED <<next, copied, built, ranTests, tested, results, exit>>
    BY <1>1 DEF toolVars, search, sorting, temporary
  <2>2. ToolTypes' /\ Target' = Target
    BY <2>1, SameJudge DEF ToolInv, ToolTypes, Target
  <2>3. SearchInv'
    BY <2>1, <2>2, SameReach DEF ToolInv, SearchInv, Extracting, Untouched
  <2>4. OrderInv' /\ TempInv'
    BY <2>1, <2>2 DEF ToolInv, OrderInv, TempInv, Extracting, InTemp, Deps, Once, Ordered
  <2>5. KahnInv'
    BY <2>1 DEF ToolInv, KahnInv, Untouched, Deps, Once
  <2>6. ResultsInv'
    <3>1. stage = "ended" /\ exit = 0 => queue = <<>>
      BY DEF ToolInv, ResultsInv
    <3> QED BY <2>1, <3>1, NoVerdict
  <2> QED BY <2>2, <2>3, <2>4, <2>5, <2>6 DEF ToolInv
<1>2. CASE ToolNext
  BY <1>2, ChooseKeeps, ReachKeeps, StartSortKeeps, SortKeeps, SortedKeeps, CopyKeeps, InstallKeeps,
     BuildKeeps, TestKeeps, VerdictsKeep, ReportKeeps, EndsKeeps DEF ToolNext
<1> QED BY <1>1, <1>2

\* The tool's invariant holds of every command on every workspace.
LEMMA ToolInductive == ToolSpec => []ToolInv
<1> QED BY ToolInitHolds, ToolStepKeeps, PTL DEF ToolSpec

\* BuiltInOrder for any workspace: a package is installed and built only when all it
\* depends on is built beside it, and the target is the last (extract.ts:1-16, 92-96).
THEOREM ToolBuildsInOrder == ToolSpec => []BuiltInOrder
<1>1. ToolInv => BuiltInOrder
  <2> SUFFICES ASSUME ToolInv, stage \in {"install", "build", "test"}
               PROVE  /\ Deps(Here) \subseteq built
                      /\ ToSet(order) = Reaches(Target) /\ copied = Reaches(Target)
                      /\ Last(order) = Target
    BY DEF BuiltInOrder
  <2>1. InTemp /\ Extracting /\ TempInv /\ OrderInv
    BY DEF ToolInv, InTemp, Extracting
  <2>2. /\ Len(order) \in Nat /\ Last(order) = Target
        /\ ToSet(order) = Reaches(Target) /\ closure = Reaches(Target)
    BY <2>1, TargetLast
  <2>3. next \in 1 .. Len(order) /\ copied = closure /\ Ordered(next - 1) \subseteq built
    <3>1. Ordered(next - 1) \subseteq Ordered(next) \/ stage # "test"
      BY <2>1 DEF TempInv, Ordered
    <3> QED BY <2>1, <3>1 DEF TempInv
  <2>4. Deps(Here) \subseteq Ordered(next - 1)
    BY <2>1, <2>3 DEF OrderInv, Here
  <2> QED BY <2>2, <2>3, <2>4
<1> QED BY <1>1, ToolInductive, PTL

\* VerdictHonest for any workspace and any command: a target passes only with all it
\* reaches built, and exit 0 means every target of the command passed (extract.ts:32-43).
THEOREM ToolVerdictHonest == ToolSpec => []VerdictHonest
<1>1. ToolInv => VerdictHonest
  <2> SUFFICES ASSUME ToolInv PROVE VerdictHonest
    OBVIOUS
  <2>1. ResultsInv /\ command \in Commands
    BY DEF ToolInv, ToolTypes
  <2>2. \A i \in 1 .. Len(results) : Honest(results[i])
    BY <2>1 DEF ResultsInv
  <2>3. ASSUME stage = "ended", exit = 0
        PROVE  (\A i \in 1 .. Len(results) : results[i].ok) /\ Reported = Targets(command)
    BY <2>1, <2>3, MembersNone DEF ResultsInv
  <2>4. Targets(command) = CASE command.kind = "name" -> {command.package}
              [] command.kind = "all" -> workspace.liftable
              [] command.kind = "changed" -> {p \in workspace.liftable : command.global \/ p \in command.touched}
    <3>1. command.kind \in {"name", "all", "changed"}
      BY <2>1 DEF Commands
    <3>2. CASE command.kind \in {"name", "all"}
      BY <3>2 DEF Targets
    <3>3. CASE command.kind = "changed"
      <4>1. Targets(command) = IF command.global THEN workspace.liftable
                                                 ELSE command.touched \cap workspace.liftable
        BY <3>3 DEF Targets
      <4>2. Targets(command) = {p \in workspace.liftable : command.global \/ p \in command.touched}
        BY <4>1
      <4> QED BY <3>3, <4>2
    <3> QED BY <3>1, <3>2, <3>3
  <2> QED BY <2>2, <2>3, <2>4 DEF VerdictHonest, Honest, Reported
<1> QED BY <1>1, ToolInductive, PTL

-----------------------------------------------------------------------------
(* The migration runner. *)

\* What a transaction has of the plan, from its first file on.
PartOf(q, plan) == Len(q) <= Len(plan) /\ \A i \in 1 .. Len(q) : q[i] = plan[i]

\* No two files of one name: the release was not refused when it was collected.
Distinct(t) == \A f, g \in Listed(t) : f.name = g.name => f = g

Rebuilt(q) == FoldLeft(Up, {}, q)

RunRows ==
  [at : {"idle", "collected", "migrating", "ended"}, plan : Seq(UNION ToSet(releases)),
   exit : {0, 1, Nobody}, release : {{}} \cup ToSet(releases)]

\* A plan in hand lists a release, in order; one that has ended well is in what is
\* executed.
RunsInv ==
  \A r \in Runners :
    /\ run[r].at \in {"collected", "migrating"} =>
         run[r].release \in ToSet(releases) /\ Distinct(run[r].release)
         /\ run[r].plan = InOrder(Listed(run[r].release))
    /\ run[r].exit = 0 => run[r].at = "ended" /\ Listed(run[r].release) \subseteq ToSet(executed)

\* The transaction of who holds the lock goes on from what is executed; there is no other.
WorkInv ==
  /\ lock \in Runners \cup {Nobody}
  /\ \A r \in Runners :
       /\ run[r].at = "migrating" <=> lock = r
       /\ lock # r => work[r] = NoWork
       /\ lock = r =>
            /\ PartOf(executed, work[r].executed) /\ PartOf(work[r].executed, run[r].plan)
            /\ work[r].database = Rebuilt(work[r].executed)
            /\ work[r].executed \in Seq(UNION ToSet(releases))

\* What is executed is the first files of some release's plan, and what it leaves.
ExecutedInv ==
  /\ database = Rebuilt(executed)
  /\ executed = <<>> \/ \E t \in ToSet(releases) : Distinct(t) /\ PartOf(executed, InOrder(Listed(t)))

MigrationsInv ==
  /\ releases \in Histories /\ executed \in Seq(UNION ToSet(releases))
  /\ run \in [Runners -> RunRows]
  /\ work = [r \in Runners |-> work[r]]
  /\ RunsInv /\ WorkInv /\ ExecutedInv

-----------------------------------------------------------------------------
(* The list in the order of names *)

\* A finite set of files with distinct names can be listed by name: the first of them
\* before a list of the rest.
LEMMA AscendingListExists ==
  ASSUME NEW S, IsFiniteSet(S), \A f \in S : f.name \in Nat, \A f, g \in S : f.name = g.name => f = g
  PROVE  \E q \in SetToSeqs(S) : Ascending(q)
<1> DEFINE Bad(R) == ~\E q \in SetToSeqs(R) : Ascending(q)
           T == {Cardinality(R) : R \in {R \in SUBSET S : Bad(R)}}
<1>1. \A R \in SUBSET S : IsFiniteSet(R) /\ Cardinality(R) \in Nat
  BY FS_Subset, FS_CardinalityType
<1>2. SUFFICES ASSUME Bad(S) PROVE FALSE
  OBVIOUS
<1>3. T \subseteq Nat /\ T # {}
  BY <1>1, <1>2
<1>4. PICK c \in T : \A y \in T : c <= y
  BY <1>3, LeastNat
<1>5. PICK R \in SUBSET S : Bad(R) /\ c = Cardinality(R)
  BY <1>4
<1>6. R # {}
  <2> SUFFICES ASSUME R = {} PROVE FALSE
    OBVIOUS
  <2>1. Cardinality(R) = 0 /\ 1 .. 0 = {}
    BY FS_EmptySet
  <2>2. <<>> \in [1 .. 0 -> R] /\ Ascending(<<>>)
    BY DEF Ascending
  <2>3. <<>> \in SetToSeqs(R)
    BY <2>1, <2>2 DEF SetToSeqs
  <2> QED BY <1>5, <2>2, <2>3
<1>7. PICK m \in R : \A f \in R : m.name <= f.name
  <2> DEFINE N == {f.name : f \in R}
  <2>1. N \subseteq Nat /\ N # {}
    BY <1>5, <1>6
  <2>2. PICK x \in N : \A y \in N : x <= y
    BY <2>1, LeastNat
  <2> QED BY <2>2
<1> DEFINE Rest == R \ {m}
           k == Cardinality(Rest)
<1>8. IsFiniteSet(Rest) /\ k \in Nat /\ Cardinality(R) = k + 1 /\ Rest \in SUBSET S
  <2>1. Cardinality(Rest) = Cardinality(R) - 1 /\ IsFiniteSet(Rest)
    BY <1>1, FS_RemoveElement
  <2>2. Cardinality(Rest) \in Nat /\ Cardinality(R) \in Nat
    BY <1>1, <2>1, FS_CardinalityType
  <2> QED BY <2>1, <2>2
<1>9. ~Bad(Rest)
  <2> SUFFICES ASSUME Bad(Rest) PROVE FALSE
    OBVIOUS
  <2>1. k \in T
    BY <1>8
  <2> QED BY <1>4, <1>5, <1>8, <2>1
<1>10. PICK q \in SetToSeqs(Rest) : Ascending(q)
  BY <1>9
<1>11. q \in [1 .. k -> Rest] /\ (\A i, j \in 1 .. k : i # j => q[i] # q[j]) /\ DOMAIN q = 1 .. k
  BY DEF SetToSeqs
<1> DEFINE p == [i \in 1 .. k + 1 |-> IF i = 1 THEN m ELSE q[i - 1]]
<1> HIDE DEF k, T
<1>12. \A i \in 1 .. k + 1 : i = 1 \/ i - 1 \in 1 .. k
  BY <1>8
<1>13. p \in [1 .. k + 1 -> R] /\ DOMAIN p = 1 .. k + 1
  BY <1>11, <1>12
<1>14. \A i, j \in 1 .. k + 1 : i < j => p[i].name < p[j].name
  <2> SUFFICES ASSUME NEW i \in 1 .. k + 1, NEW j \in 1 .. k + 1, i < j
               PROVE  p[i].name < p[j].name
    OBVIOUS
  <2>1. j - 1 \in 1 .. k /\ p[j] = q[j - 1] /\ p[j] \in Rest
    BY <1>8, <1>11
  <2>2. CASE i = 1
    <3>1. p[i] = m /\ p[j] # m /\ p[j] \in R
      BY <2>1, <2>2
    <3>2. m.name <= p[j].name /\ m.name # p[j].name /\ m.name \in Nat /\ p[j].name \in Nat
      BY <1>5, <1>7, <3>1
    <3> QED BY <3>1, <3>2
  <2>3. CASE i # 1
    <3>1. i - 1 \in 1 .. k /\ p[i] = q[i - 1] /\ i - 1 < j - 1
      BY <1>8, <2>3
    <3> QED BY <1>10, <1>11, <2>1, <3>1 DEF Ascending
  <2> QED BY <2>2, <2>3
<1>15. \A i, j \in 1 .. k + 1 : i # j => p[i] # p[j]
  <2> SUFFICES ASSUME NEW i \in 1 .. k + 1, NEW j \in 1 .. k + 1, i # j, p[i] = p[j] PROVE FALSE
    OBVIOUS
  <2>1. p[i].name \in Nat /\ p[j].name \in Nat
    BY <1>5, <1>13
  <2>2. i < j \/ j < i
    BY <1>8
  <2> HIDE DEF p
  <2> QED BY <1>14, <2>1, <2>2
<1> HIDE DEF p
<1>16. p \in SetToSeqs(R)
  BY <1>8, <1>13, <1>15 DEF SetToSeqs
<1>17. Ascending(p)
  BY <1>13, <1>14 DEF Ascending
<1> QED BY <1>5, <1>16, <1>17

\* InOrder lists the files of a release whole, in the order of their names.
LEMMA InOrderLists ==
  ASSUME NEW S, IsFiniteSet(S), \A f \in S : f.name \in Nat, \A f, g \in S : f.name = g.name => f = g
  PROVE  InOrder(S) \in Seq(S) /\ Ascending(InOrder(S)) /\ ToSet(InOrder(S)) = S
<1> DEFINE q == InOrder(S)
           n == Cardinality(S)
<1>1. q \in SetToSeqs(S) /\ Ascending(q)
  BY AscendingListExists DEF InOrder
<1>2. n \in Nat
  BY FS_CardinalityType
<1>3. q \in [1 .. n -> S] /\ \A i, j \in 1 .. n : q[i] = q[j] => i = j
  BY <1>1 DEF SetToSeqs
<1> HIDE DEF q
<1>4. {q[i] : i \in 1 .. n} = S
  BY <1>2, <1>3, ListedWhole
<1> HIDE DEF n
<1>5. q \in Seq(S) /\ DOMAIN q = 1 .. n
  BY <1>2, <1>3
<1>6. ToSet(q) = S
  BY <1>4, <1>5 DEF ToSet
<1> QED BY <1>1, <1>5, <1>6 DEF q

-----------------------------------------------------------------------------
(* What a list of files leaves *)

\* The greatest of a set of places.
LEMMA Greatest ==
  ASSUME NEW n \in Nat, NEW d \in SUBSET (1 .. n), d # {}
  PROVE  Max(d) \in d /\ \A y \in d : Max(d) >= y
<1> DEFINE B == {k \in Nat : \A y \in d : y <= k}
<1>1. n \in B
  OBVIOUS
<1>2. PICK b \in B : \A k \in B : b <= k
  BY <1>1, LeastNat
<1>3. b \in d
  <2> SUFFICES ASSUME b \notin d PROVE FALSE
    OBVIOUS
  <2>1. \A y \in d : y <= b - 1 /\ 1 <= y
    BY <1>2
  <2>2. b - 1 \in Nat
    <3>1. PICK y \in d : TRUE
      OBVIOUS
    <3>2. y \in Nat /\ 1 <= y /\ y <= b /\ b \in Nat
      BY <1>2
    <3> QED BY <3>2
  <2>3. b - 1 \in B
    BY <2>1, <2>2
  <2> QED BY <1>2, <2>3
<1>4. \E x \in d : \A y \in d : x >= y
  BY <1>2, <1>3
<1> QED BY <1>4 DEF Max

\* The function that FoldLeft(Up, {}, s) defines by recursion on the places folded.
FoldBody(s, it) ==
  [d \in SUBSET (DOMAIN s) |-> IF d = {} THEN {} ELSE Up(it[d \ {Max(d)}], s[Max(d)])]
FoldTable(s) == CHOOSE it : it = FoldBody(s, it)

\* FoldLeft is that function at all places.
LEMMA FoldIsTable == \A s : Rebuilt(s) = FoldTable(s)[DOMAIN s]
BY Zenon DEF Rebuilt, FoldLeft, MapThenFoldSet, FoldTable, FoldBody

\* There is one, for a list: from the places up to k - 1 to those up to k.
LEMMA FoldTableIs ==
  ASSUME NEW n \in Nat, NEW s, DOMAIN s = 1 .. n
  PROVE  FoldTable(s) = FoldBody(s, FoldTable(s))
<1> DEFINE On(k, it) ==
      [d \in SUBSET (1 .. k) |-> IF d = {} THEN {} ELSE Up(it[d \ {Max(d)}], s[Max(d)])]
           Has(k) == \E it : it = On(k, it)
           Bad == {k \in Nat : ~Has(k)}
<1>1. Has(0)
  <2> DEFINE it == [d \in SUBSET (1 .. 0) |-> {}]
  <2>1. SUBSET (1 .. 0) = {{}}
    OBVIOUS
  <2>2. it = On(0, it)
    BY <2>1
  <2> QED BY <2>2
<1>2. ASSUME NEW k \in Nat, Has(k) PROVE Has(k + 1)
  <2>1. PICK it : it = On(k, it)
    BY <1>2
  <2> DEFINE g == On(k + 1, it)
  <2>2. \A d \in SUBSET (1 .. k + 1) : d # {} => d \ {Max(d)} \in SUBSET (1 .. k)
    <3> SUFFICES ASSUME NEW d \in SUBSET (1 .. k + 1), d # {}, NEW x \in d, x # Max(d)
                 PROVE  x \in 1 .. k
      OBVIOUS
    <3>0. k + 1 \in Nat
      OBVIOUS
    <3>1. Max(d) \in d /\ Max(d) >= x
      BY <3>0, Greatest
    <3>2. x \in 1 .. k + 1 /\ Max(d) \in 1 .. k + 1
      BY <3>1
    <3> HIDE DEF g
    <3> QED BY <3>1, <3>2
  <2>3. \A e \in SUBSET (1 .. k) : e \in SUBSET (1 .. k + 1) /\ g[e] = it[e]
    <3> SUFFICES ASSUME NEW e \in SUBSET (1 .. k) PROVE e \in SUBSET (1 .. k + 1) /\ g[e] = it[e]
      OBVIOUS
    <3>1. e \in SUBSET (1 .. k + 1)
      OBVIOUS
    <3>2. g[e] = IF e = {} THEN {} ELSE Up(it[e \ {Max(e)}], s[Max(e)])
      BY <3>1
    <3>3. On(k, it)[e] = IF e = {} THEN {} ELSE Up(it[e \ {Max(e)}], s[Max(e)])
      OBVIOUS
    <3> HIDE DEF g
    <3>4. it[e] = On(k, it)[e]
      BY <2>1, Zenon
    <3> HIDE DEF On
    <3> QED BY <3>1, <3>2, <3>3, <3>4
  <2>4. \A d \in SUBSET (1 .. k + 1) :
          (IF d = {} THEN {} ELSE Up(it[d \ {Max(d)}], s[Max(d)]))
            = IF d = {} THEN {} ELSE Up(g[d \ {Max(d)}], s[Max(d)])
    <3> HIDE DEF g
    <3> QED BY <2>2, <2>3
  <2>5. g = On(k + 1, g)
    <3>1. g = [d \in SUBSET (1 .. k + 1) |-> IF d = {} THEN {} ELSE Up(it[d \ {Max(d)}], s[Max(d)])]
      OBVIOUS
    <3> HIDE DEF g
    <3> QED BY <2>4, <3>1
  <2> QED BY <2>5
<1> HIDE DEF Has
<1>3. Bad = {}
  <2> SUFFICES ASSUME Bad # {} PROVE FALSE
    OBVIOUS
  <2>1. PICK b \in Bad : \A k \in Bad : b <= k
    BY LeastNat
  <2>2. b # 0 /\ b \in Nat /\ ~Has(b)
    BY <1>1, <2>1
  <2>3. b - 1 \in Nat /\ (b - 1) + 1 = b /\ ~(b <= b - 1)
    BY <2>2
  <2>4. Has(b - 1)
    BY <2>1, <2>3
  <2> QED BY <1>2, <2>2, <2>3, <2>4
<1>4. Has(n)
  BY <1>3
<1>5. \E it : it = FoldBody(s, it)
  BY <1>4 DEF Has, FoldBody
<1> QED BY <1>5 DEF FoldTable

\* The places up to k + 1 are among those up to m.
LEMMA PlacesWithin ==
  ASSUME NEW k \in Nat, NEW m \in Nat, k + 1 <= m
  PROVE  1 .. k + 1 \in SUBSET (1 .. m) /\ 1 .. k + 1 # {}
<1>1. 1 \in 1 .. k + 1
  OBVIOUS
<1>2. \A i \in 1 .. k + 1 : i \in 1 .. m
  OBVIOUS
<1> QED BY <1>1, <1>2

\* The places up to k have a greatest.
LEMMA GreatestPlace ==
  ASSUME NEW k \in Nat
  PROVE  Max(1 .. k + 1) = k + 1 /\ (1 .. k + 1) \ {k + 1} = 1 .. k
<1>0. k + 1 \in Nat /\ k + 1 <= k + 1
  OBVIOUS
<1>1. 1 .. k + 1 \in SUBSET (1 .. k + 1) /\ 1 .. k + 1 # {}
  BY <1>0, PlacesWithin
<1> DEFINE x == Max(1 .. k + 1)
<1>2. x \in 1 .. k + 1 /\ \A y \in 1 .. k + 1 : x >= y
  BY <1>0, <1>1, Greatest
<1> HIDE DEF x
<1>3. k + 1 \in 1 .. k + 1
  OBVIOUS
<1>4. x = k + 1
  BY <1>2, <1>3
<1>5. (1 .. k + 1) \ {k + 1} = 1 .. k
  OBVIOUS
<1> QED BY <1>4, <1>5 DEF x

\* One file more: its up() runs on what those before it have left.
LEMMA RebuiltOneMore ==
  ASSUME NEW F, NEW s \in Seq(F), NEW x \in F
  PROVE  Rebuilt(Append(s, x)) = Up(Rebuilt(s), x)
<1> DEFINE n == Len(s)
           t == Append(s, x)
           I == FoldTable(s)
           J == FoldTable(t)
<1>1. n \in Nat /\ DOMAIN s = 1 .. n /\ DOMAIN t = 1 .. n + 1 /\ t[n + 1] = x
      /\ \A i \in 1 .. n : t[i] = s[i]
  OBVIOUS
<1>2. I = FoldBody(s, I) /\ J = FoldBody(t, J)
  BY <1>1, FoldTableIs
<1> HIDE DEF n, t, I, J
<1>3. \A d \in SUBSET (1 .. n) : I[d] = IF d = {} THEN {} ELSE Up(I[d \ {Max(d)}], s[Max(d)])
  <2> DEFINE B == [d \in SUBSET (DOMAIN s) |-> IF d = {} THEN {} ELSE Up(I[d \ {Max(d)}], s[Max(d)])]
  <2>1. I = B
    BY <1>2, Zenon DEF FoldBody
  <2>2. \A d \in SUBSET (1 .. n) : B[d] = IF d = {} THEN {} ELSE Up(I[d \ {Max(d)}], s[Max(d)])
    BY <1>1
  <2> HIDE DEF B
  <2> QED BY <2>1, <2>2
<1>4. \A d \in SUBSET (1 .. n + 1) : J[d] = IF d = {} THEN {} ELSE Up(J[d \ {Max(d)}], t[Max(d)])
  <2> DEFINE B == [d \in SUBSET (DOMAIN t) |-> IF d = {} THEN {} ELSE Up(J[d \ {Max(d)}], t[Max(d)])]
  <2>1. J = B
    BY <1>2, Zenon DEF FoldBody
  <2>2. \A d \in SUBSET (1 .. n + 1) : B[d] = IF d = {} THEN {} ELSE Up(J[d \ {Max(d)}], t[Max(d)])
    BY <1>1
  <2> HIDE DEF B
  <2> QED BY <2>1, <2>2
<1>5. ASSUME NEW k \in Nat, k + 1 <= n + 1 PROVE J[1 .. k + 1] = Up(J[1 .. k], t[k + 1])
  <2>1. 1 .. k + 1 \in SUBSET (1 .. n + 1) /\ 1 .. k + 1 # {}
    <3>1. n + 1 \in Nat
      BY <1>1
    <3> QED BY <1>5, <3>1, PlacesWithin
  <2> DEFINE d == 1 .. k + 1
  <2>2. Max(d) = k + 1 /\ d \ {k + 1} = 1 .. k
    BY GreatestPlace
  <2> HIDE DEF d
  <2>3. J[d] = Up(J[d \ {Max(d)}], t[Max(d)])
    BY <1>4, <2>1 DEF d
  <2> QED BY <2>2, <2>3 DEF d
<1>6. ASSUME NEW k \in Nat, k + 1 <= n PROVE I[1 .. k + 1] = Up(I[1 .. k], s[k + 1])
  <2>1. 1 .. k + 1 \in SUBSET (1 .. n) /\ 1 .. k + 1 # {}
    BY <1>1, <1>6, PlacesWithin
  <2> DEFINE d == 1 .. k + 1
  <2>2. Max(d) = k + 1 /\ d \ {k + 1} = 1 .. k
    BY GreatestPlace
  <2> HIDE DEF d
  <2>3. I[d] = Up(I[d \ {Max(d)}], s[Max(d)])
    BY <1>3, <2>1 DEF d
  <2> QED BY <2>2, <2>3 DEF d
<1> DEFINE Bad == {k \in 0 .. n : I[1 .. k] # J[1 .. k]}
<1>7. Bad = {}
  <2> SUFFICES ASSUME Bad # {} PROVE FALSE
    OBVIOUS
  <2>0. Bad \subseteq Nat
    BY <1>1
  <2>1. PICK b \in Bad : \A k \in Bad : b <= k
    BY <2>0, LeastNat
  <2>2. b \in 0 .. n /\ I[1 .. b] # J[1 .. b]
    BY <2>1
  <2>3. b # 0
    <3>1. {} \in SUBSET (1 .. n) /\ {} \in SUBSET (1 .. n + 1) /\ 1 .. 0 = {}
      OBVIOUS
    <3>2. I[{}] = {} /\ J[{}] = {}
      BY <1>3, <1>4, <3>1
    <3> QED BY <2>2, <3>1, <3>2
  <2>4. b - 1 \in Nat /\ (b - 1) + 1 = b /\ b - 1 \in 0 .. n /\ ~(b <= b - 1) /\ b <= n /\ b <= n + 1 /\ b \in 1 .. n
    BY <1>1, <2>2, <2>3
  <2>5. I[1 .. b - 1] = J[1 .. b - 1]
    BY <2>1, <2>4
  <2>6. I[1 .. (b - 1) + 1] = Up(I[1 .. b - 1], s[(b - 1) + 1])
    BY <1>6, <2>4
  <2>7. J[1 .. (b - 1) + 1] = Up(J[1 .. b - 1], t[(b - 1) + 1])
    BY <1>5, <2>4
  <2>8. t[b] = s[b]
    BY <1>1, <2>4
  <2> HIDE DEF Bad
  <2> QED BY <2>2, <2>4, <2>5, <2>6, <2>7, <2>8
<1>8. I[1 .. n] = J[1 .. n]
  BY <1>1, <1>7
<1>9. J[1 .. n + 1] = Up(J[1 .. n], t[n + 1])
  BY <1>1, <1>5
<1> QED BY <1>1, <1>8, <1>9, FoldIsTable DEF t, I, J

\* Before the first file the database is empty.
LEMMA RebuiltNone == Rebuilt(<<>>) = {}
<1>1. DOMAIN <<>> = 1 .. 0 /\ {} \in SUBSET (1 .. 0) /\ 1 .. 0 = {}
  OBVIOUS
<1> DEFINE e == <<>>
           I == FoldTable(e)
           B == [d \in SUBSET (DOMAIN e) |-> IF d = {} THEN {} ELSE Up(I[d \ {Max(d)}], e[Max(d)])]
<1>2. I = B
  <2>1. 0 \in Nat /\ DOMAIN e = 1 .. 0
    BY <1>1
  <2>2. FoldTable(e) = FoldBody(e, FoldTable(e))
    <3> HIDE DEF e
    <3> QED BY <2>1, FoldTableIs
  <2> QED BY <2>2, Zenon DEF FoldBody
<1>3. B[{}] = {}
  OBVIOUS
<1> HIDE DEF I, B
<1>4. I[{}] = {}
  BY <1>2, <1>3
<1> QED BY <1>1, <1>4, FoldIsTable DEF I

-----------------------------------------------------------------------------
(* Releases and plans *)

\* The files of a release are of the later one, finitely many, named by numbers.
LEMMA Release ==
  ASSUME releases \in Histories, NEW t \in ToSet(releases)
  PROVE  /\ t \subseteq releases[2] /\ releases[2] \in ToSet(releases) /\ t \subseteq UNION ToSet(releases)
         /\ t = releases[1] \/ t = releases[2]
         /\ IsFiniteSet(Listed(t)) /\ Listed(t) \subseteq t /\ \A f \in Listed(t) : f.name \in Nat
<1>1. /\ DOMAIN releases = {1, 2} /\ releases[1] \subseteq releases[2] /\ IsFiniteSet(releases[2])
      /\ \A f \in releases[2] : f.name \in Nat
  BY HistoriesAssumption
<1>2. t = releases[1] \/ t = releases[2]
  BY <1>1 DEF ToSet
<1>3. t \subseteq releases[2] /\ releases[2] \in ToSet(releases)
  BY <1>1, <1>2 DEF ToSet
<1>4. Listed(t) \subseteq t
  BY DEF Listed
<1>5. IsFiniteSet(Listed(t))
  BY <1>1, <1>3, <1>4, FS_Subset
<1> QED BY <1>1, <1>2, <1>3, <1>4, <1>5

\* A plan lists its release, in order.
LEMMA PlanLists ==
  ASSUME releases \in Histories, NEW t \in ToSet(releases), Distinct(t)
  PROVE  /\ InOrder(Listed(t)) \in Seq(Listed(t)) /\ InOrder(Listed(t)) \in Seq(UNION ToSet(releases))
         /\ Ascending(InOrder(Listed(t))) /\ ToSet(InOrder(Listed(t))) = Listed(t)
<1>1. IsFiniteSet(Listed(t)) /\ Listed(t) \subseteq UNION ToSet(releases)
      /\ \A f \in Listed(t) : f.name \in Nat
  BY Release
<1>2. \A f, g \in Listed(t) : f.name = g.name => f = g
  BY DEF Distinct
<1>3. InOrder(Listed(t)) \in Seq(Listed(t)) /\ Ascending(InOrder(Listed(t)))
      /\ ToSet(InOrder(Listed(t))) = Listed(t)
  BY <1>1, <1>2, InOrderLists
<1>4. Seq(Listed(t)) \subseteq Seq(UNION ToSet(releases))
  BY <1>1
<1> QED BY <1>3, <1>4

\* A name is one file's in all the plans there are.
LEMMA OneFileOfName ==
  ASSUME releases \in Histories, NEW t \in ToSet(releases), NEW u \in ToSet(releases),
         Distinct(t), Distinct(u), NEW f \in Listed(t), NEW g \in Listed(u), f.name = g.name
  PROVE  f = g
<1>1. t \subseteq releases[2] /\ u \subseteq releases[2]
  BY Release
<1>2. f \in Listed(releases[2]) /\ g \in Listed(releases[2])
  BY <1>1 DEF Listed
<1>3. t = u \/ t = releases[2] \/ u = releases[2]
  <2>1. (t = releases[1] \/ t = releases[2]) /\ (u = releases[1] \/ u = releases[2])
    BY Release
  <2> QED BY <2>1
<1>4. CASE t = u
  BY <1>4 DEF Distinct
<1>5. CASE t = releases[2]
  BY <1>2, <1>5 DEF Distinct
<1>6. CASE u = releases[2]
  BY <1>2, <1>6 DEF Distinct
<1> QED BY <1>3, <1>4, <1>5, <1>6

\* What the Migrator compares: names that agree are files that agree.
LEMMA PrefixOfPlan ==
  ASSUME MigrationsInv, NEW u \in ToSet(releases), Distinct(u), NEW plan, plan = InOrder(Listed(u)),
         IsPrefix(NamesOf(executed), NamesOf(plan))
  PROVE  PartOf(executed, plan)
<1>1. releases \in Histories /\ executed \in Seq(UNION ToSet(releases)) /\ ExecutedInv
  BY DEF MigrationsInv
<1>2. plan \in Seq(Listed(u))
  BY <1>1, PlanLists
<1> DEFINE n == Len(executed)
           m == Len(plan)
           N == NamesOf(executed)
           M == NamesOf(plan)
<1>3. n \in Nat /\ m \in Nat /\ DOMAIN executed = 1 .. n /\ DOMAIN plan = 1 .. m
  BY <1>1, <1>2
<1>4. N = [i \in 1 .. n |-> executed[i].name] /\ M = [i \in 1 .. m |-> plan[i].name]
  BY <1>3 DEF NamesOf
<1>5. Len(N) = n /\ Len(M) = m
  <2> HIDE DEF N, M, n, m
  <2> QED BY <1>3, <1>4
<1>6. Len(N) <= Len(M) /\ SubSeq(N, 1, Len(N)) = SubSeq(M, 1, Len(N))
  BY DEF IsPrefix
<1>7. n <= m /\ SubSeq(N, 1, n) = SubSeq(M, 1, n)
  BY <1>5, <1>6
<1> HIDE DEF n, m, N, M
<1>8. \A i \in 1 .. n : executed[i].name = plan[i].name
  <2> SUFFICES ASSUME NEW i \in 1 .. n PROVE executed[i].name = plan[i].name
    OBVIOUS
  <2>1. i \in 1 .. m
    BY <1>3, <1>7
  <2>2. SubSeq(N, 1, n)[i] = N[i] /\ SubSeq(M, 1, n)[i] = M[i]
    BY <1>3, <1>4, <1>5, <1>7
  <2>3. N[i] = M[i]
    BY <1>7, <2>2
  <2>4. N[i] = executed[i].name /\ M[i] = plan[i].name
    BY <1>4, <2>1
  <2> QED BY <2>3, <2>4
<1>9. ASSUME NEW i \in 1 .. n PROVE executed[i] = plan[i]
  <2>1. i \in 1 .. m /\ plan[i] \in Listed(u) /\ executed # <<>>
    BY <1>2, <1>3, <1>7 DEF m, n
  <2>2. PICK t \in ToSet(releases) : Distinct(t) /\ PartOf(executed, InOrder(Listed(t)))
    BY <1>1, <2>1 DEF ExecutedInv
  <2>3. executed[i] \in Listed(t)
    <3>1. InOrder(Listed(t)) \in Seq(Listed(t))
      BY <1>1, <2>2, PlanLists
    <3>2. n <= Len(InOrder(Listed(t))) /\ executed[i] = InOrder(Listed(t))[i]
      BY <2>2 DEF PartOf, n
    <3>3. i \in 1 .. Len(InOrder(Listed(t)))
      BY <1>3, <3>1, <3>2
    <3> QED BY <3>1, <3>2, <3>3
  <2> QED BY <1>1, <1>8, <2>1, <2>2, <2>3, OneFileOfName
<1> QED BY <1>7, <1>9 DEF PartOf, n, m

-----------------------------------------------------------------------------
(* The runner keeps its invariant *)

\* Nothing is executed yet and nobody runs.
LEMMA MigrationsInitHolds == MigrationsInit => MigrationsInv
<1> SUFFICES ASSUME MigrationsInit PROVE MigrationsInv
  OBVIOUS
<1>0. /\ releases \in Histories /\ lock = Nobody /\ executed = <<>> /\ database = {}
      /\ run = [r \in Runners |-> Idle] /\ work = [r \in Runners |-> NoWork]
  BY DEF MigrationsInit
<1>1. Nobody \notin Runners /\ Nobody # 0
  BY HistoriesAssumption
<1>2. Idle \in RunRows /\ Idle.at = "idle" /\ Idle.exit = Nobody
  BY DEF Idle, RunRows
<1>3. executed \in Seq(UNION ToSet(releases)) /\ run \in [Runners -> RunRows]
  BY <1>0, <1>2
<1>4. RunsInv
  BY <1>0, <1>1, <1>2 DEF RunsInv
<1>5. WorkInv
  BY <1>0, <1>1, <1>2 DEF WorkInv
<1>6. ExecutedInv
  BY <1>0, RebuiltNone DEF ExecutedInv
<1>7. work = [r \in Runners |-> work[r]]
  BY <1>0
<1> QED BY <1>0, <1>3, <1>4, <1>5, <1>6, <1>7 DEF MigrationsInv

\* What the releases say is the same in every state.
LEMMA SameReleases ==
  ASSUME releases' = releases
  PROVE  RunRows' = RunRows /\ (UNION ToSet(releases))' = UNION ToSet(releases) /\ ToSet(releases)' = ToSet(releases)
BY DEF RunRows

\* A run that ends lets go of what it holds, and is what it was otherwise.
LEMMA EndsMoves ==
  ASSUME MigrationsInv, NEW r \in Runners, NEW code \in {0, 1}, Ends(r, code)
  PROVE  /\ run' \in [Runners -> RunRows] /\ \A q \in Runners \ {r} : run'[q] = run[q] /\ work'[q] = work[q]
         /\ run'[r].at = "ended" /\ run'[r].exit = code
         /\ run'[r].release = run[r].release
         /\ work' = [q \in Runners |-> work'[q]] /\ work'[r] = NoWork
         /\ lock' \in Runners \cup {Nobody} /\ lock' # r
         /\ \A q \in Runners \ {r} : lock' = q <=> lock = q
<1>0. run \in [Runners -> RunRows] /\ work = [q \in Runners |-> work[q]] /\ lock \in Runners \cup {Nobody}
  BY DEF MigrationsInv, WorkInv
<1>1. /\ run' = [run EXCEPT ![r].at = "ended", ![r].exit = code]
      /\ lock' = (IF lock = r THEN Nobody ELSE lock) /\ work' = [work EXCEPT ![r] = NoWork]
  BY DEF Ends
<1>2. run'[r] = [run[r] EXCEPT !.at = "ended", !.exit = code] /\ \A q \in Runners \ {r} : run'[q] = run[q]
  BY <1>0, <1>1
<1>3. run[r] \in RunRows
  BY <1>0
<1>4. [run[r] EXCEPT !.at = "ended", !.exit = code] \in RunRows
  BY <1>3 DEF RunRows
<1>5. run' \in [Runners -> RunRows]
  BY <1>0, <1>1, <1>2, <1>4
<1>6. run'[r].at = "ended" /\ run'[r].exit = code /\ run'[r].release = run[r].release
  BY <1>2, <1>3 DEF RunRows
<1>7. work' = [q \in Runners |-> work'[q]] /\ work'[r] = NoWork /\ \A q \in Runners \ {r} : work'[q] = work[q]
  BY <1>0, <1>1
<1>8. lock' \in Runners \cup {Nobody} /\ lock' # r /\ \A q \in Runners \ {r} : lock' = q <=> lock = q
  BY <1>0, <1>1, HistoriesAssumption
<1> QED BY <1>2, <1>5, <1>6, <1>7, <1>8

\* A run that fails or is killed leaves what is executed as it was.
LEMMA FailureKeeps ==
  ASSUME MigrationsInv, NEW r \in Runners, Ends(r, 1), UNCHANGED <<releases, executed, database>>
  PROVE  MigrationsInv'
<1>1. /\ run' \in [Runners -> RunRows] /\ \A q \in Runners \ {r} : run'[q] = run[q] /\ work'[q] = work[q]
      /\ run'[r].at = "ended" /\ run'[r].exit = 1
      /\ work' = [q \in Runners |-> work'[q]] /\ work'[r] = NoWork
      /\ lock' \in Runners \cup {Nobody} /\ lock' # r
      /\ \A q \in Runners \ {r} : lock' = q <=> lock = q
  BY EndsMoves
<1>2. RunsInv'
  <2> SUFFICES ASSUME NEW q \in Runners
               PROVE  /\ run'[q].at \in {"collected", "migrating"} =>
                           run'[q].release \in ToSet(releases) /\ Distinct(run'[q].release)
                           /\ run'[q].plan = InOrder(Listed(run'[q].release))
                      /\ run'[q].exit = 0 => run'[q].at = "ended" /\ Listed(run'[q].release) \subseteq ToSet(executed)
    BY DEF RunsInv
  <2>1. CASE q = r
    BY <1>1, <2>1
  <2>2. CASE q # r
    BY <1>1, <2>2 DEF MigrationsInv, RunsInv
  <2> QED BY <2>1, <2>2
<1>3. WorkInv'
  <2> SUFFICES ASSUME NEW q \in Runners
               PROVE  /\ run'[q].at = "migrating" <=> lock' = q
                      /\ lock' # q => work'[q] = NoWork
                      /\ lock' = q =>
                           /\ PartOf(executed, work'[q].executed) /\ PartOf(work'[q].executed, run'[q].plan)
                           /\ work'[q].database = Rebuilt(work'[q].executed)
                           /\ work'[q].executed \in Seq(UNION ToSet(releases))
    BY <1>1, SameReleases DEF WorkInv
  <2>1. CASE q = r
    BY <1>1, <2>1
  <2>2. CASE q # r
    BY <1>1, <2>2 DEF MigrationsInv, WorkInv
  <2> QED BY <2>1, <2>2
<1>4. ExecutedInv'
  BY DEF MigrationsInv, ExecutedInv
<1>5. (releases \in Histories /\ executed \in Seq(UNION ToSet(releases)))'
  BY SameReleases DEF MigrationsInv
<1>6. (run \in [Runners -> RunRows])'
  BY <1>1, SameReleases
<1> QED BY <1>1, <1>2, <1>3, <1>4, <1>5, <1>6 DEF MigrationsInv

\* A runner that moves on, the lock and the others being what they were.
LEMMA RunnerMoves ==
  ASSUME MigrationsInv, NEW r \in Runners, UNCHANGED <<releases, executed, database, lock, work>>,
         NEW x \in RunRows, run' = [run EXCEPT ![r] = x],
         run[r].at # "migrating", x.at # "migrating", x.exit # 0,
         x.at = "collected" => x.release \in ToSet(releases) /\ Distinct(x.release)
                               /\ x.plan = InOrder(Listed(x.release))
  PROVE  MigrationsInv'
<1>0. run \in [Runners -> RunRows]
  BY DEF MigrationsInv
<1>1. run' \in [Runners -> RunRows] /\ run'[r] = x /\ \A q \in Runners \ {r} : run'[q] = run[q]
  BY <1>0
<1>2. RunsInv'
  <2> SUFFICES ASSUME NEW q \in Runners
               PROVE  /\ run'[q].at \in {"collected", "migrating"} =>
                           run'[q].release \in ToSet(releases) /\ Distinct(run'[q].release)
                           /\ run'[q].plan = InOrder(Listed(run'[q].release))
                      /\ run'[q].exit = 0 => run'[q].at = "ended" /\ Listed(run'[q].release) \subseteq ToSet(executed)
    BY DEF RunsInv
  <2>1. CASE q = r
    BY <1>1, <2>1
  <2>2. CASE q # r
    BY <1>1, <2>2 DEF MigrationsInv, RunsInv
  <2> QED BY <2>1, <2>2
<1>3. WorkInv'
  <2>1. lock # r
    BY DEF MigrationsInv, WorkInv
  <2>2. \A q \in Runners : (run'[q].at = "migrating" <=> lock = q) /\ (lock = q => run'[q] = run[q])
    BY <1>1, <2>1 DEF MigrationsInv, WorkInv
  <2> QED BY <2>2 DEF MigrationsInv, WorkInv
<1>4. ExecutedInv'
  BY DEF MigrationsInv, ExecutedInv
<1>5. (releases \in Histories /\ executed \in Seq(UNION ToSet(releases)))'
  BY SameReleases DEF MigrationsInv
<1>6. (run \in [Runners -> RunRows])' /\ (work = [q \in Runners |-> work[q]])'
  BY <1>1, SameReleases DEF MigrationsInv
<1> QED BY <1>2, <1>3, <1>4, <1>5, <1>6 DEF MigrationsInv

\* A plan is made of a release that has no two files of one name.
LEMMA CollectKeeps ==
  ASSUME MigrationsInv, NEW r \in Runners, Collect(r)
  PROVE  MigrationsInv'
<1>0. run[r].at = "idle" /\ UNCHANGED <<releases, executed, database>> /\ releases \in Histories
      /\ run \in [Runners -> RunRows]
  BY DEF Collect, MigrationsInv
<1>1. PICK t \in ToSet(releases) :
        IF \E f, g \in Listed(t) : ~f.up \/ (f # g /\ f.name = g.name)
          THEN Ends(r, 1)
          ELSE /\ run' = [run EXCEPT ![r].at = "collected", ![r].plan = InOrder(Listed(t)), ![r].release = t]
               /\ UNCHANGED <<lock, work>>
  BY DEF Collect
<1>2. CASE \E f, g \in Listed(t) : ~f.up \/ (f # g /\ f.name = g.name)
  BY <1>0, <1>1, <1>2, FailureKeeps
<1>3. CASE ~ \E f, g \in Listed(t) : ~f.up \/ (f # g /\ f.name = g.name)
  <2> DEFINE x == [run[r] EXCEPT !.at = "collected", !.plan = InOrder(Listed(t)), !.release = t]
  <2>1. run' = [run EXCEPT ![r] = x] /\ UNCHANGED <<lock, work>>
    <3>1. /\ run' = [run EXCEPT ![r].at = "collected", ![r].plan = InOrder(Listed(t)), ![r].release = t]
          /\ UNCHANGED <<lock, work>>
      BY <1>1, <1>3
    <3>2. [run EXCEPT ![r].at = "collected", ![r].plan = InOrder(Listed(t)), ![r].release = t]
            = [run EXCEPT ![r] = x]
      BY <1>0
    <3> QED BY <3>1, <3>2
  <2>2. Distinct(t)
    BY <1>3 DEF Distinct
  <2>3. InOrder(Listed(t)) \in Seq(UNION ToSet(releases))
    BY <1>0, <2>2, PlanLists
  <2>4. run[r] \in RunRows
    BY <1>0
  <2>5. x \in RunRows /\ x.at = "collected" /\ x.release = t /\ x.plan = InOrder(Listed(t)) /\ x.exit = run[r].exit
    BY <2>3, <2>4 DEF RunRows
  <2>6. x.exit # 0
    BY <1>0, <2>5 DEF MigrationsInv, RunsInv
  <2> HIDE DEF x
  <2> QED BY <1>0, <2>1, <2>2, <2>5, <2>6, RunnerMoves
<1> QED BY <1>2, <1>3

\* A transaction begins where the last that committed has ended.
LEMMA BeginKeeps ==
  ASSUME MigrationsInv, NEW r \in Runners, Begin(r)
  PROVE  MigrationsInv'
<1>0. /\ run[r].at = "collected" /\ lock = Nobody /\ UNCHANGED <<releases, executed, database>>
      /\ run \in [Runners -> RunRows] /\ work = [q \in Runners |-> work[q]]
      /\ RunsInv /\ WorkInv /\ ExecutedInv /\ Nobody \notin Runners
      /\ executed \in Seq(UNION ToSet(releases)) /\ releases \in Histories
  BY HistoriesAssumption DEF Begin, MigrationsInv
<1>1. CASE ~IsPrefix(NamesOf(executed), NamesOf(run[r].plan))
  <2>1. Ends(r, 1)
    BY <1>1 DEF Begin
  <2> QED BY <1>0, <2>1, FailureKeeps
<1>2. CASE IsPrefix(NamesOf(executed), NamesOf(run[r].plan))
  <2>1. /\ lock' = r /\ run' = [run EXCEPT ![r].at = "migrating"]
        /\ work' = [work EXCEPT ![r] = [executed |-> executed, database |-> database]]
    BY <1>2 DEF Begin
  <2>2. run[r] \in RunRows /\ run[r].release \in ToSet(releases) /\ Distinct(run[r].release)
        /\ run[r].plan = InOrder(Listed(run[r].release)) /\ run[r].exit # 0
    BY <1>0 DEF RunsInv
  <2>3. PartOf(executed, run[r].plan)
    BY <1>2, <2>2, PrefixOfPlan
  <2>4. PartOf(executed, executed)
    BY <1>0 DEF PartOf
  <2> DEFINE x == [run[r] EXCEPT !.at = "migrating"]
  <2>5. run' \in [Runners -> RunRows] /\ run'[r] = x /\ \A q \in Runners \ {r} : run'[q] = run[q]
    <3>1. x \in RunRows
      BY <2>2 DEF RunRows
    <3> QED BY <1>0, <2>1, <3>1
  <2>6. x.at = "migrating" /\ x.release = run[r].release /\ x.plan = run[r].plan /\ x.exit = run[r].exit
    BY <2>2 DEF RunRows
  <2>7. /\ work' = [q \in Runners |-> work'[q]] /\ work'[r].executed = executed /\ work'[r].database = database
        /\ \A q \in Runners \ {r} : work'[q] = work[q]
    <3> DEFINE w == [executed |-> executed, database |-> database]
    <3>1. w.executed = executed /\ w.database = database
      OBVIOUS
    <3>2. work' = [work EXCEPT ![r] = w]
      BY <2>1
    <3> HIDE DEF w
    <3> QED BY <1>0, <3>1, <3>2
  <2> HIDE DEF x
  <2>8. RunsInv'
    <3> SUFFICES ASSUME NEW q \in Runners
                 PROVE  /\ run'[q].at \in {"collected", "migrating"} =>
                             run'[q].release \in ToSet(releases) /\ Distinct(run'[q].release)
                             /\ run'[q].plan = InOrder(Listed(run'[q].release))
                        /\ run'[q].exit = 0 => run'[q].at = "ended" /\ Listed(run'[q].release) \subseteq ToSet(executed)
      BY <1>0 DEF RunsInv
    <3>1. CASE q = r
      BY <2>2, <2>5, <2>6, <3>1
    <3>2. CASE q # r
      BY <1>0, <2>5, <3>2 DEF RunsInv
    <3> QED BY <3>1, <3>2
  <2>9. WorkInv'
    <3> SUFFICES ASSUME NEW q \in Runners
                 PROVE  /\ run'[q].at = "migrating" <=> lock' = q
                        /\ lock' # q => work'[q] = NoWork
                        /\ lock' = q =>
                             /\ PartOf(executed, work'[q].executed) /\ PartOf(work'[q].executed, run'[q].plan)
                             /\ work'[q].database = Rebuilt(work'[q].executed)
                             /\ work'[q].executed \in Seq(UNION ToSet(releases))
      BY <1>0, <2>1, SameReleases DEF WorkInv
    <3>1. CASE q = r
      <4>1. database = Rebuilt(executed)
        BY <1>0 DEF ExecutedInv
      <4> QED BY <1>0, <2>1, <2>3, <2>4, <2>5, <2>6, <2>7, <3>1, <4>1
    <3>2. CASE q # r
      <4>1. run[q].at # "migrating" /\ work[q] = NoWork
        BY <1>0 DEF WorkInv
      <4> QED BY <2>1, <2>5, <2>7, <3>2, <4>1
    <3> QED BY <3>1, <3>2
  <2>10. ExecutedInv'
    BY <1>0 DEF ExecutedInv
  <2>11. (releases \in Histories /\ executed \in Seq(UNION ToSet(releases)))' /\ (run \in [Runners -> RunRows])'
    BY <1>0, <2>5, SameReleases
  <2> QED BY <2>7, <2>8, <2>9, <2>10, <2>11 DEF MigrationsInv
<1> QED BY <1>1, <1>2

\* One file more in the transaction: the next of the plan.
LEMMA ApplyKeeps ==
  ASSUME MigrationsInv, NEW r \in Runners, Apply(r)
  PROVE  MigrationsInv'
<1> DEFINE e == work[r].executed
           f == run[r].plan[Len(e) + 1]
           db == Up(work[r].database, f)
<1>0. /\ run[r].at = "migrating" /\ Len(e) < Len(run[r].plan) /\ UNCHANGED <<releases, executed, database>>
      /\ run \in [Runners -> RunRows] /\ work = [q \in Runners |-> work[q]]
      /\ RunsInv /\ WorkInv /\ ExecutedInv
      /\ executed \in Seq(UNION ToSet(releases)) /\ releases \in Histories
  BY DEF Apply, Pending, MigrationsInv
<1>1. CASE db = Nobody
  <2>1. Ends(r, 1)
    BY <1>1 DEF Apply
  <2> QED BY <1>0, <2>1, FailureKeeps
<1>2. CASE db # Nobody
  <2> DEFINE w == [executed |-> Append(e, f), database |-> db]
  <2>1. work' = [work EXCEPT ![r] = w] /\ run' = run /\ lock' = lock
    <3>1. /\ work' = [work EXCEPT ![r] = [executed |-> Append(@.executed, f), database |-> db]]
          /\ run' = run /\ lock' = lock
      BY <1>2 DEF Apply
    <3>2. [work EXCEPT ![r] = [executed |-> Append(@.executed, f), database |-> db]] = [work EXCEPT ![r] = w]
      BY <1>0
    <3> HIDE DEF w
    <3> QED BY <3>1, <3>2
  <2>2. w.executed = Append(e, f) /\ w.database = db
    OBVIOUS
  <2>3. /\ lock = r /\ PartOf(executed, e) /\ PartOf(e, run[r].plan)
        /\ work[r].database = Rebuilt(e) /\ e \in Seq(UNION ToSet(releases))
    BY <1>0 DEF WorkInv
  <2>4. run[r].plan \in Seq(UNION ToSet(releases))
    BY <1>0 DEF RunRows
  <2>5. f \in UNION ToSet(releases) /\ Len(e) \in Nat /\ Len(run[r].plan) \in Nat
    BY <1>0, <2>3, <2>4
  <2> HIDE DEF w, e
  <2>6. db = Rebuilt(Append(e, f))
    <3>1. db = Up(Rebuilt(e), f)
      BY <2>3
    <3> HIDE DEF f, db
    <3> QED BY <2>3, <2>5, <3>1, RebuiltOneMore
  <2>7. /\ Append(e, f) \in Seq(UNION ToSet(releases)) /\ Len(Append(e, f)) = Len(e) + 1
        /\ \A i \in 1 .. Len(e) + 1 : Append(e, f)[i] = IF i = Len(e) + 1 THEN f ELSE e[i]
    <3> HIDE DEF f
    <3> QED BY <2>3, <2>5
  <2>8. PartOf(Append(e, f), run[r].plan)
    <3>1. \A i \in 1 .. Len(e) + 1 : Append(e, f)[i] = run[r].plan[i]
      <4> SUFFICES ASSUME NEW i \in 1 .. Len(e) + 1 PROVE Append(e, f)[i] = run[r].plan[i]
        OBVIOUS
      <4>1. CASE i = Len(e) + 1
        BY <2>5, <2>7, <4>1
      <4>2. CASE i # Len(e) + 1
        <5>1. i \in 1 .. Len(e)
          BY <2>5, <4>2
        <5>2. Append(e, f)[i] = e[i]
          BY <2>7, <4>2
        <5>3. e[i] = run[r].plan[i]
          BY <2>3, <5>1 DEF PartOf
        <5> QED BY <5>2, <5>3
      <4> QED BY <4>1, <4>2
    <3>2. Len(e) + 1 <= Len(run[r].plan)
      BY <1>0, <2>5 DEF e
    <3> HIDE DEF f
    <3> QED BY <2>7, <3>1, <3>2 DEF PartOf
  <2>9. PartOf(executed, Append(e, f))
    <3> HIDE DEF f
    <3>1. Len(executed) \in Nat /\ Len(executed) <= Len(e) /\ \A i \in 1 .. Len(executed) : executed[i] = e[i]
      BY <1>0, <2>3 DEF PartOf
    <3>2. \A i \in 1 .. Len(executed) : i \in 1 .. Len(e) + 1 /\ i # Len(e) + 1
      BY <2>5, <3>1
    <3>3. Len(executed) <= Len(Append(e, f))
      BY <2>5, <2>7, <3>1
    <3> QED BY <2>7, <3>1, <3>2, <3>3 DEF PartOf
  <2> HIDE DEF f, db
  <2>10. work' = [q \in Runners |-> work'[q]] /\ work'[r] = w /\ \A q \in Runners \ {r} : work'[q] = work[q]
    BY <1>0, <2>1
  <2>11. RunsInv'
    BY <1>0, <2>1 DEF RunsInv, Distinct
  <2>12. WorkInv'
    <3> SUFFICES ASSUME NEW q \in Runners
                 PROVE  /\ run[q].at = "migrating" <=> lock = q
                        /\ lock # q => work'[q] = NoWork
                        /\ lock = q =>
                             /\ PartOf(executed, work'[q].executed) /\ PartOf(work'[q].executed, run[q].plan)
                             /\ work'[q].database = Rebuilt(work'[q].executed)
                             /\ work'[q].executed \in Seq(UNION ToSet(releases))
      BY <1>0, <2>1, SameReleases DEF WorkInv
    <3>1. CASE q = r
      BY <1>0, <2>2, <2>3, <2>6, <2>7, <2>8, <2>9, <2>10, <3>1
    <3>2. CASE q # r
      BY <1>0, <2>3, <2>10, <3>2 DEF WorkInv
    <3> QED BY <3>1, <3>2
  <2>13. ExecutedInv'
    BY <1>0 DEF ExecutedInv
  <2>14. (releases \in Histories /\ executed \in Seq(UNION ToSet(releases)))' /\ (run \in [Runners -> RunRows])'
    BY <1>0, <2>1, SameReleases
  <2> QED BY <2>10, <2>11, <2>12, <2>13, <2>14 DEF MigrationsInv
<1> QED BY <1>1, <1>2

\* The transaction commits with all the plan in it, and whoever ended well before it
\* still has all of its own.
LEMMA CommitKeeps ==
  ASSUME MigrationsInv, NEW r \in Runners, CommitAll(r)
  PROVE  MigrationsInv'
<1> DEFINE e == work[r].executed
<1>0. /\ run[r].at = "migrating" /\ ~(Len(e) < Len(run[r].plan))
      /\ executed' = e /\ database' = work[r].database /\ releases' = releases
      /\ run \in [Runners -> RunRows] /\ RunsInv /\ WorkInv
      /\ executed \in Seq(UNION ToSet(releases)) /\ releases \in Histories
  BY DEF CommitAll, Pending, MigrationsInv
<1>1. PICK code \in {0, 1} : Ends(r, code)
  BY DEF CommitAll
<1>2. /\ run' \in [Runners -> RunRows] /\ \A q \in Runners \ {r} : run'[q] = run[q] /\ work'[q] = work[q]
      /\ run'[r].at = "ended" /\ run'[r].exit = code /\ run'[r].release = run[r].release
      /\ work' = [q \in Runners |-> work'[q]] /\ work'[r] = NoWork
      /\ lock' \in Runners \cup {Nobody} /\ lock' # r
      /\ \A q \in Runners \ {r} : lock' = q <=> lock = q
  BY <1>1, EndsMoves
<1>3. /\ lock = r /\ PartOf(executed, e) /\ PartOf(e, run[r].plan)
      /\ work[r].database = Rebuilt(e) /\ e \in Seq(UNION ToSet(releases))
  BY <1>0 DEF WorkInv
<1>4. run[r].release \in ToSet(releases) /\ Distinct(run[r].release)
      /\ run[r].plan = InOrder(Listed(run[r].release))
  BY <1>0 DEF RunsInv
<1>5. run[r].plan \in Seq(UNION ToSet(releases)) /\ ToSet(run[r].plan) = Listed(run[r].release)
  BY <1>0, <1>4, PlanLists
<1> HIDE DEF e
<1>6. Listed(run[r].release) \subseteq ToSet(e)
  <2>1. Len(e) = Len(run[r].plan) /\ \A i \in 1 .. Len(e) : e[i] = run[r].plan[i]
    BY <1>0, <1>3, <1>5 DEF PartOf
  <2>2. DOMAIN e = 1 .. Len(e) /\ DOMAIN run[r].plan = 1 .. Len(e)
    BY <1>3, <1>5, <2>1
  <2>3. ToSet(e) = ToSet(run[r].plan)
    BY <2>1, <2>2 DEF ToSet
  <2> QED BY <1>5, <2>3
<1>7. ToSet(executed) \subseteq ToSet(e)
  <2>1. /\ Len(executed) <= Len(e) /\ \A i \in 1 .. Len(executed) : executed[i] = e[i]
        /\ DOMAIN e = 1 .. Len(e) /\ DOMAIN executed = 1 .. Len(executed)
        /\ Len(e) \in Nat /\ Len(executed) \in Nat
    BY <1>0, <1>3 DEF PartOf
  <2>2. \A i \in 1 .. Len(executed) : i \in 1 .. Len(e)
    BY <2>1
  <2> QED BY <2>1, <2>2 DEF ToSet
<1>8. RunsInv'
  <2> SUFFICES ASSUME NEW q \in Runners
               PROVE  /\ run'[q].at \in {"collected", "migrating"} =>
                           run'[q].release \in ToSet(releases) /\ Distinct(run'[q].release)
                           /\ run'[q].plan = InOrder(Listed(run'[q].release))
                      /\ run'[q].exit = 0 => run'[q].at = "ended" /\ Listed(run'[q].release) \subseteq ToSet(e)
    BY <1>0 DEF RunsInv
  <2>1. CASE q = r
    BY <1>2, <1>6, <2>1
  <2>2. CASE q # r
    BY <1>0, <1>2, <1>7, <2>2 DEF RunsInv
  <2> QED BY <2>1, <2>2
<1>9. WorkInv'
  <2> SUFFICES ASSUME NEW q \in Runners
               PROVE  /\ run'[q].at = "migrating" <=> lock' = q
                      /\ lock' # q => work'[q] = NoWork
                      /\ lock' # q
    BY <1>2 DEF WorkInv
  <2>1. CASE q = r
    BY <1>2, <2>1
  <2>2. CASE q # r
    BY <1>0, <1>2, <1>3, <2>2 DEF WorkInv
  <2> QED BY <2>1, <2>2
<1>10. ExecutedInv'
  <2>1. PartOf(e, InOrder(Listed(run[r].release)))
    BY <1>3, <1>4
  <2> QED BY <1>0, <1>3, <1>4, <2>1 DEF ExecutedInv, Distinct
<1>11. (releases \in Histories /\ executed \in Seq(UNION ToSet(releases)))' /\ (run \in [Runners -> RunRows])'
  BY <1>0, <1>2, <1>3, SameReleases
<1> QED BY <1>2, <1>8, <1>9, <1>10, <1>11 DEF MigrationsInv

\* A runner that has ended may be started again.
LEMMA AgainKeeps ==
  ASSUME MigrationsInv, NEW r \in Runners, Again(r)
  PROVE  MigrationsInv'
<1>0. run[r].at = "ended" /\ run' = [run EXCEPT ![r] = Idle]
      /\ UNCHANGED <<releases, executed, database, lock, work>>
  BY DEF Again
<1>1. Idle \in RunRows /\ Idle.at = "idle" /\ Idle.exit # 0
  BY HistoriesAssumption DEF Idle, RunRows
<1> HIDE DEF Idle
<1> QED BY <1>0, <1>1, RunnerMoves

\* A step of some runner, or none.
LEMMA MigrationsStepKeeps == MigrationsInv /\ [MigrationsNext]_migrationVars => MigrationsInv'
<1> SUFFICES ASSUME MigrationsInv, [MigrationsNext]_migrationVars PROVE MigrationsInv'
  OBVIOUS
<1>1. CASE UNCHANGED migrationVars
  <2>1. UNCHANGED <<releases, run, lock, executed, database, work>>
    BY <1>1 DEF migrationVars
  <2>2. RunsInv' /\ WorkInv' /\ ExecutedInv'
    BY <2>1 DEF MigrationsInv, RunsInv, WorkInv, ExecutedInv
  <2> QED BY <2>1, <2>2, SameReleases DEF MigrationsInv
<1>2. CASE MigrationsNext
  <2>1. PICK r \in Runners : Collect(r) \/ Begin(r) \/ Apply(r) \/ CommitAll(r) \/ Dies(r) \/ Again(r)
    BY <1>2 DEF MigrationsNext
  <2>2. CASE Dies(r)
    BY <2>2, FailureKeeps DEF Dies
  <2> QED BY <2>1, <2>2, CollectKeeps, BeginKeeps, ApplyKeeps, CommitKeeps, AgainKeeps
<1> QED BY <1>1, <1>2

\* The runner's invariant holds of any releases and runners.
LEMMA MigrationsInductive == MigrationsSpec => []MigrationsInv
<1> QED BY MigrationsInitHolds, MigrationsStepKeeps, PTL DEF MigrationsSpec

\* AppliedOnceInOrder for any releases and runners: each migration takes effect once and
\* whole, in the order of the names (migrate.ts:20-27, collect-migrations.ts:21-29).
THEOREM MigrationsOnceInOrder == MigrationsSpec => []AppliedOnceInOrder
<1>1. MigrationsInv => AppliedOnceInOrder
  <2> SUFFICES ASSUME MigrationsInv PROVE AppliedOnceInOrder
    OBVIOUS
  <2>1. RunsInv /\ ExecutedInv /\ releases \in Histories /\ executed \in Seq(UNION ToSet(releases))
    BY DEF MigrationsInv
  <2>2. Ascending(executed)
    <3>1. CASE executed = <<>>
      BY <3>1 DEF Ascending
    <3>2. CASE executed # <<>>
      <4>1. PICK t \in ToSet(releases) : Distinct(t) /\ PartOf(executed, InOrder(Listed(t)))
        BY <2>1, <3>2 DEF ExecutedInv
      <4> DEFINE p == InOrder(Listed(t))
      <4>2. p \in Seq(Listed(t)) /\ Ascending(p)
        BY <2>1, <4>1, PlanLists
      <4> HIDE DEF p
      <4>3. /\ DOMAIN executed = 1 .. Len(executed) /\ DOMAIN p = 1 .. Len(p) /\ Len(executed) \in Nat
            /\ Len(p) \in Nat /\ Len(executed) <= Len(p) /\ \A i \in 1 .. Len(executed) : executed[i] = p[i]
        BY <2>1, <4>1, <4>2 DEF PartOf, p
      <4>4. \A i \in 1 .. Len(executed) : i \in 1 .. Len(p)
        BY <4>3
      <4> QED BY <4>2, <4>3, <4>4 DEF Ascending
    <3> QED BY <3>1, <3>2
  <2> QED BY <2>1, <2>2 DEF AppliedOnceInOrder, RunsInv, ExecutedInv, Rebuilt
<1> QED BY <1>1, MigrationsInductive, PTL

\* MigrationsTypeOK for any releases and runners: only who holds the lock has a
\* transaction open (migrate.ts:42-60).
THEOREM MigrationsTypes == MigrationsSpec => []MigrationsTypeOK
<1>1. MigrationsInv => MigrationsTypeOK
  <2> SUFFICES ASSUME MigrationsInv PROVE MigrationsTypeOK
    OBVIOUS
  <2>1. ToSet(executed) \subseteq UNION ToSet(releases)
    BY DEF MigrationsInv, ToSet
  <2> QED BY <2>1 DEF MigrationsTypeOK, MigrationsInv, WorkInv, RunRows
<1> QED BY <1>1, MigrationsInductive, PTL
=============================================================================
