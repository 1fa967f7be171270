-------------------------- MODULE ReviewWritesProofs --------------------------
(***************************************************************************)
(* ReviewWrites for any requests, authors, contents and tokens: IInv is    *)
(* inductive; each author has one review whoever writes, each request is   *)
(* one step of AtomicReviews while every writer takes the lock, and no     *)
(* request waits anywhere but at that lock.                                *)
(***************************************************************************)
EXTENDS ReviewWrites, TLAPS

\* Past its pre-read; and in its transaction, with the author's lock.
Decided == {"lock", "locked", "insert", "violated", "emit", "commit"}
Holding == {"locked", "insert", "emit", "commit"}

\* A request is there once called and answered once ended; only a submit inserts.
RequestInv == \A q \in Requests :
  /\ pc[q] = "idle" <=> req[q] = None
  /\ pc[q] = "end" <=> answer[q] # None
  /\ pc[q] \in {"insert", "violated"} => req[q].op = "submit"

\* A transaction holds the lock of the author it read, who is its caller unless
\* it moderates.
LockInv == \A q \in Requests :
  /\ pc[q] \in Decided => key[q] \in Authors
  /\ pc[q] \in Decided /\ req[q].op # "moderate" => key[q] = req[q].by
  /\ pc[q] \in Holding => holder[key[q]] = q

\* Rows that are, or that a transaction is about to commit.
Known == table \cup UNION {change[q].in : q \in Requests}

\* A token was minted once, for one author.
TokenInv ==
  /\ \A x \in Known : x.token \in minted
  /\ \A x, y \in Known : x.token = y.token => x.author = y.author

\* Past its pre-read a request knows the author of the review it names, and a
\* moderation a state that it must change.
TargetInv == \A q \in Requests :
  /\ pc[q] \in Decided /\ req[q].op = "moderate" => before[q] \in States \ {req[q].target}
  /\ pc[q] \in Decided /\ req[q].op # "submit" =>
       /\ req[q].token \in minted
       /\ \A x \in Known : x.token = req[q].token => x.author = key[q]

\* What the transaction of q may have written: a new row, or one it replaces.
Replaces(q, x, r) ==
  /\ x.token = r.token /\ change[q].out = {x}
  /\ \/ r.op = "update" /\ x.author = r.by /\ change[q].in = {[x EXCEPT !.content = r.content]}
     \/ r.op = "remove" /\ x.author = r.by /\ change[q].in = {}
     \/ r.op = "moderate" /\ x.st # r.target /\ change[q].in = {[x EXCEPT !.st = r.target]}

Inserts(q, r) ==
  /\ r.op = "submit" /\ change[q].out = {}
  /\ \E t \in Tokens :
       change[q].in = {[author |-> r.by, token |-> t, content |-> r.content, st |-> "published"]}

\* An open change is the whole effect of its request, on rows of its author.
ChangeInv == \A q \in Requests :
  /\ pc[q] \notin {"emit", "commit"} => change[q] = NoChange
  /\ pc[q] \in {"emit", "commit"} =>
       Inserts(q, req[q]) \/ \E x \in table : Replaces(q, x, req[q])
  /\ \A x \in change[q].out \cup change[q].in : x.author = key[q]

\* While every writer takes the lock, no insert meets a row of its author.
InsideInv == ~outside => \A q \in Requests :
  pc[q] # "violated" /\ (pc[q] = "insert" => RowOf(req[q].by) = {})

IInv == TypeOK /\ RequestInv /\ LockInv /\ TokenInv /\ TargetInv /\ ChangeInv
          /\ OneReviewEach /\ InsideInv

-----------------------------------------------------------------------------
\* What each request names.
LEMMA OpTypes ==
  ASSUME NEW r \in Ops
  PROVE  /\ r.op \in {"submit", "update", "remove", "moderate"}
         /\ r.op # "moderate" => r.by \in Authors
         /\ r.op # "submit" => r.token \in Tokens
         /\ r.op \in {"submit", "update"} => r.content \in Contents
         /\ r.op = "moderate" => r.target \in States
BY DEF Ops

\* An update replaces a row's content or state and nothing else of it.
LEMMA RowUpdates ==
  ASSUME NEW x \in Rows
  PROVE  /\ \A c \in Contents : /\ [x EXCEPT !.content = c] \in Rows
                                /\ [x EXCEPT !.content = c].author = x.author
                                /\ [x EXCEPT !.content = c].token = x.token
         /\ \A s \in States : /\ [x EXCEPT !.st = s] \in Rows
                              /\ [x EXCEPT !.st = s].author = x.author
                              /\ [x EXCEPT !.st = s].token = x.token
BY DEF Rows

\* Rows that descend from known ones keep each token with its author.
LEMMA TokensKept ==
  ASSUME TokenInv, minted \subseteq minted',
         \A x \in Known' : \E y \in Known : y.token = x.token /\ y.author = x.author
  PROVE  TokenInv'
BY DEF TokenInv

\* So does a row with a fresh token.
LEMMA TokenMinted ==
  ASSUME TokenInv, NEW t, t \notin minted, minted' = minted \cup {t}, NEW a,
         \A x \in Known' : x \in Known \/ (x.token = t /\ x.author = a)
  PROVE  TokenInv'
BY DEF TokenInv

\* Transactions that hold their locks at once are of different authors.
LEMMA HoldersDiffer ==
  ASSUME IInv, NEW q \in Requests, NEW s \in Requests, q # s,
         pc[q] \in Holding, pc[s] \in Holding
  PROVE  key[q] # key[s]
BY DEF IInv, LockInv

\* A request that has not written yet disturbs no open change.
LEMMA ChangeKept ==
  ASSUME IInv, UNCHANGED <<change, table>>,
         NEW q \in Requests, {pc[q], pc'[q]} \cap {"emit", "commit"} = {},
         \A s \in Requests \ {q} : pc'[s] = pc[s] /\ req'[s] = req[s] /\ key'[s] = key[s]
  PROVE  ChangeInv'
<1>1. change[q] = NoChange
  BY DEF IInv, ChangeInv
<1>2. ASSUME NEW s \in Requests \ {q}
      PROVE  /\ Inserts(s, req[s])' <=> Inserts(s, req[s])
             /\ \A x \in table : Replaces(s, x, req[s])' <=> Replaces(s, x, req[s])
  BY DEF Inserts, Replaces
<1>3. \A x \in change'[q].out \cup change'[q].in : x.author = key'[q]
  BY <1>1 DEF NoChange
<1> QED BY <1>1, <1>2, <1>3 DEF IInv, ChangeInv, NoChange

-----------------------------------------------------------------------------
\* Rows seeded one to an author, each with a token of its own, and no request.
LEMMA InitInv == Init => IInv
<1> SUFFICES ASSUME Init PROVE IInv
  OBVIOUS
<1> USE NoneAssumption DEF Init
<1>0. PICK own \in SUBSET Authors :
             \E tok \in [own -> Tokens], con \in [own -> Contents], st \in [own -> States] :
        /\ \A a, b \in own : tok[a] = tok[b] => a = b
        /\ table = {[author |-> a, token |-> tok[a], content |-> con[a], st |-> st[a]] :
                      a \in own}
        /\ minted = {tok[a] : a \in own}
  BY DEF Init
<1>1. PICK tok \in [own -> Tokens], con \in [own -> Contents], st \in [own -> States] :
        /\ \A a, b \in own : tok[a] = tok[b] => a = b
        /\ table = {[author |-> a, token |-> tok[a], content |-> con[a], st |-> st[a]] :
                      a \in own}
        /\ minted = {tok[a] : a \in own}
  BY <1>0
<1>2. /\ table \subseteq Rows /\ minted \subseteq Tokens
      /\ \A x \in table : x.author \in own /\ x.token = tok[x.author]
                            /\ x.content = con[x.author] /\ x.st = st[x.author]
      /\ \A x \in table : x.token \in minted
  BY <1>1 DEF Rows
<1>3. \A q \in Requests : change[q].in = {} /\ change[q].out = {}
  BY DEF NoChange
<1>4. Known = table
  BY <1>3 DEF Known
<1>5. TypeOK
  BY <1>2 DEF TypeOK, NoChange
<1>6. \A x, y \in table : x.author = y.author \/ x.token = y.token => x = y
  BY <1>1, <1>2 DEF Rows
<1>7. OneReviewEach
  BY <1>3, <1>6 DEF OneReviewEach
<1>8. TokenInv
  BY <1>2, <1>4, <1>6 DEF TokenInv
<1>9. RequestInv /\ LockInv /\ TargetInv /\ ChangeInv /\ InsideInv
  BY <1>3 DEF RequestInv, LockInv, TargetInv, ChangeInv, InsideInv, Decided, Holding
<1> QED BY <1>5, <1>7, <1>8, <1>9 DEF IInv

-----------------------------------------------------------------------------
\* Ending a request leaves the rest as it was: whatever its answer, its change
\* is dropped and no other request holds the lock it frees.
LEMMA EndKeeps ==
  ASSUME IInv, NEW q \in Requests, NEW a \in Answers, pc[q] \notin {"idle", "end"}, End(q, a),
         UNCHANGED <<outside, table, events, req, minted, key, before>>
  PROVE  IInv'
<1> USE NoneAssumption DEF IInv
<1>1. TypeOK'
  BY DEF TypeOK, End, NoChange
<1>2. \A s \in Requests \ {q} : change'[s] = change[s] /\ pc'[s] = pc[s] /\ answer'[s] = answer[s]
  BY DEF TypeOK, End
<1>3. pc'[q] = "end" /\ answer'[q] = a /\ change'[q] = NoChange
  BY DEF TypeOK, End
<1>4. Known' \subseteq Known
  BY <1>2, <1>3 DEF Known, NoChange
<1>5. TokenInv'
  BY <1>4, TokensKept
<1>6. RequestInv' /\ InsideInv'
  BY <1>2, <1>3 DEF RequestInv, InsideInv, RowOf
<1>7. LockInv'
  BY <1>1, <1>2, <1>3 DEF LockInv, Decided, Holding, End, TypeOK
<1>8. TargetInv'
  BY <1>2, <1>3, <1>4 DEF TargetInv, Decided
<1>9. ChangeInv'
  BY <1>2, <1>3 DEF ChangeInv, Inserts, Replaces, NoChange
<1>10. OneReviewEach'
  BY <1>2, <1>3 DEF OneReviewEach, NoChange
<1> QED BY <1>1, <1>5, <1>6, <1>7, <1>8, <1>9, <1>10

\* A transaction that replaces a row of its author keeps the table one review
\* an author, now and once it commits.
LEMMA ReplaceKeeps ==
  ASSUME IInv, NEW q \in Requests, pc[q] = "locked", NEW x \in table, NEW new,
         Written(q, {x}, new), Replaces(q, x, req[q])',
         req[q].op = "moderate" => x.author = key[q],
         UNCHANGED <<outside, table, events, req, minted, key, before>>
  PROVE  IInv'
<1> USE NoneAssumption DEF IInv
<1>0. /\ req[q] \in Ops /\ x \in Rows /\ change'[q] = [out |-> {x}, in |-> new]
      /\ pc'[q] = "emit" /\ UNCHANGED <<answer, holder>>
  BY DEF TypeOK, Written, RequestInv
<1>1. /\ x.author = key[q]
      /\ \A y \in new : y \in Rows /\ y.author = x.author /\ y.token = x.token
  <2>1. \/ req[q].op = "update" /\ x.author = req[q].by
                                /\ new = {[x EXCEPT !.content = req[q].content]}
        \/ req[q].op = "remove" /\ x.author = req[q].by /\ new = {}
        \/ req[q].op = "moderate" /\ new = {[x EXCEPT !.st = req[q].target]}
    BY <1>0 DEF Replaces
  <2>2. x.author = key[q]
    BY <2>1 DEF LockInv, Decided
  <2>3. /\ req[q].op = "update" => req[q].content \in Contents
        /\ req[q].op = "moderate" => req[q].target \in States
    BY <1>0, OpTypes
  <2>4. ASSUME NEW y \in new
        PROVE  y \in Rows /\ y.author = x.author /\ y.token = x.token
    <3>1. CASE req[q].op = "update"
      <4>1. y = [x EXCEPT !.content = req[q].content] /\ req[q].content \in Contents
        BY <2>1, <2>3, <3>1
      <4> QED BY <1>0, <4>1, RowUpdates
    <3>2. CASE req[q].op = "moderate"
      <4>1. y = [x EXCEPT !.st = req[q].target] /\ req[q].target \in States
        BY <2>1, <2>3, <3>2
      <4> QED BY <1>0, <4>1, RowUpdates
    <3> QED BY <2>1, <3>1, <3>2
  <2> QED BY <2>2, <2>4
<1>2. \A s \in Requests \ {q} : change'[s] = change[s] /\ pc'[s] = pc[s]
  BY DEF TypeOK, Written
<1>3. TypeOK'
  BY <1>0, <1>1 DEF TypeOK, Written
<1>4. \A y \in Known' : \E z \in Known : z.token = y.token /\ z.author = y.author
  BY <1>0, <1>1, <1>2 DEF Known
<1>5. TokenInv'
  BY <1>4, TokensKept
<1>6. RequestInv' /\ InsideInv'
  BY <1>0, <1>2 DEF RequestInv, InsideInv, RowOf
<1>7. LockInv'
  BY <1>0, <1>2 DEF LockInv, Decided, Holding
<1>8. TargetInv'
  BY <1>0, <1>2, <1>4 DEF TargetInv, Decided
<1>9. ChangeInv'
  BY <1>0, <1>1, <1>2 DEF ChangeInv, Inserts, Replaces, NoChange
<1>10. OneReviewEach'
  <2>1. \A y \in new, z \in table \ {x} : y.author # z.author
    BY <1>1 DEF OneReviewEach
  <2> QED BY <1>0, <1>2, <2>1 DEF OneReviewEach
<1> QED BY <1>3, <1>5, <1>6, <1>7, <1>8, <1>9, <1>10

-----------------------------------------------------------------------------
\* Every action preserves the invariant.
LEMMA NextInv == IInv /\ [Next]_vars => IInv'
<1> SUFFICES ASSUME IInv, [Next]_vars PROVE IInv'
  OBVIOUS
<1> USE NoneAssumption DEF IInv
<1>1. ASSUME NEW q \in Requests, NEW r \in Ops, Call(q, r) PROVE IInv'
  <2>1. TypeOK'
    BY <1>1 DEF Call, TypeOK
  <2>2. Known' = Known
    BY <1>1 DEF Call, Known
  <2>3. RequestInv' /\ InsideInv'
    BY <1>1 DEF Call, TypeOK, RequestInv, InsideInv, RowOf
  <2>4. LockInv'
    BY <1>1, <2>1 DEF Call, TypeOK, LockInv, Decided, Holding
  <2>5. TokenInv' /\ TargetInv'
    BY <1>1, <2>2 DEF Call, TypeOK, TokenInv, TargetInv, Decided
  <2>6. ChangeInv'
    BY <1>1, ChangeKept DEF Call, TypeOK
  <2>7. OneReviewEach'
    BY <1>1 DEF Call, OneReviewEach
  <2> QED BY <2>1, <2>3, <2>4, <2>5, <2>6, <2>7
\* The pre-read knows the author, and of a moderation the state it is to leave.
<1>2. ASSUME NEW q \in Requests, NEW a \in Authors, pc[q] = "read", Proceed(q, a),
             UNCHANGED <<outside, table, events, req, minted>>,
             \/ req[q].op = "submit" /\ a = req[q].by /\ before' = before
             \/ /\ req[q].op \in {"update", "remove"} /\ a = req[q].by /\ before' = before
                /\ \E x \in RowAt(req[q].token) : x.author = a
             \/ /\ req[q].op = "moderate"
                /\ \E x \in RowAt(req[q].token) :
                     /\ x.author = a /\ x.st # req[q].target
                     /\ before' = [before EXCEPT ![q] = x.st]
      PROVE  IInv'
  <2>1. TypeOK'
    BY <1>2 DEF Proceed, TypeOK, RowAt, Rows
  <2>2. Known' = Known
    BY <1>2 DEF Proceed, Known
  <2>3. RequestInv' /\ InsideInv'
    BY <1>2 DEF Proceed, TypeOK, RequestInv, InsideInv, RowOf
  <2>4. LockInv'
    BY <1>2, <2>1 DEF Proceed, TypeOK, LockInv, Decided, Holding
  <2>5. TokenInv'
    BY <1>2, <2>2 DEF Proceed, TokenInv
  <2>6. TargetInv'
    BY <1>2, <2>2 DEF Proceed, TypeOK, TokenInv, Known, TargetInv, Decided, RowAt, Rows
  <2>7. ChangeInv'
    BY <1>2, ChangeKept DEF Proceed, TypeOK
  <2>8. OneReviewEach'
    BY <1>2 DEF Proceed, OneReviewEach
  <2> QED BY <2>1, <2>3, <2>4, <2>5, <2>6, <2>7, <2>8
<1>3. ASSUME NEW q \in Requests, Lock(q) PROVE IInv'
  <2>1. TypeOK'
    BY <1>3 DEF Lock, TypeOK, LockInv, Decided
  <2>2. Known' = Known
    BY <1>3 DEF Lock, Known
  <2>3. RequestInv' /\ InsideInv'
    BY <1>3 DEF Lock, TypeOK, RequestInv, InsideInv, RowOf
  <2>4. LockInv'
    BY <1>3, <2>1 DEF Lock, TypeOK, LockInv, Decided, Holding
  <2>5. TokenInv' /\ TargetInv'
    BY <1>3, <2>2 DEF Lock, TypeOK, TokenInv, TargetInv, Decided
  <2>6. ChangeInv'
    BY <1>3, ChangeKept DEF Lock, TypeOK
  <2>7. OneReviewEach'
    BY <1>3 DEF Lock, OneReviewEach
  <2> QED BY <2>1, <2>3, <2>4, <2>5, <2>6, <2>7
\* A request goes on under its lock, or out of a violated insert.
<1>4. ASSUME NEW q \in Requests, NEW p \in {"insert", "violated", "commit"},
             pc' = [pc EXCEPT ![q] = p],
             \/ p = "insert" /\ pc[q] = "locked" /\ req[q].op = "submit"
                  /\ RowOf(req[q].by) = {} /\ holder' = holder
             \/ p = "commit" /\ pc[q] = "emit" /\ holder' = holder
             \/ p = "violated" /\ pc[q] = "insert" /\ RowOf(req[q].by) # {}
                  /\ holder' = [b \in Authors |-> IF holder[b] = q THEN None ELSE holder[b]],
             UNCHANGED <<outside, table, events, req, answer, minted, key, before, change>>
      PROVE  IInv'
  <2>1. TypeOK'
    BY <1>4 DEF TypeOK
  <2>2. Known' = Known
    BY <1>4 DEF Known
  <2>3. RequestInv' /\ InsideInv'
    BY <1>4 DEF TypeOK, RequestInv, InsideInv, RowOf
  <2>4. LockInv'
    BY <1>4, <2>1 DEF TypeOK, LockInv, Decided, Holding
  <2>5. TokenInv' /\ TargetInv'
    BY <1>4, <2>2 DEF TypeOK, TokenInv, TargetInv, Decided
  <2>6. ChangeInv'
    BY <1>4 DEF TypeOK, ChangeInv, Inserts, Replaces, NoChange
  <2>7. OneReviewEach'
    BY <1>4 DEF OneReviewEach
  <2> QED BY <2>1, <2>3, <2>4, <2>5, <2>6, <2>7
\* The constraint lets the row in when its author has none, committed or not.
<1>5. ASSUME NEW q \in Requests, Insert(q), RowOf(req[q].by) = {} PROVE IInv'
  <2> DEFINE row(t) == [author |-> req[q].by, token |-> t, content |-> req[q].content,
                        st |-> "published"]
  <2>1. PICK t \in Tokens \ minted : Written(q, {}, {row(t)}) /\ minted' = minted \cup {t}
    BY <1>5 DEF Insert
  <2>2. /\ pc[q] = "insert" /\ req[q].op = "submit" /\ key[q] = req[q].by
        /\ UNCHANGED <<outside, table, events, req, key, before>>
    BY <1>5 DEF Insert, RequestInv, LockInv, Decided
  <2>3. row(t) \in Rows /\ row(t).token = t /\ row(t).author = key[q]
    BY <2>2, OpTypes DEF TypeOK, RequestInv, Rows, States
  <2>4. /\ change'[q] = [out |-> {}, in |-> {row(t)}] /\ pc'[q] = "emit"
        /\ \A s \in Requests \ {q} : change'[s] = change[s] /\ pc'[s] = pc[s]
        /\ UNCHANGED <<answer, holder>>
    BY <2>1 DEF Written, TypeOK
  <2>5. TypeOK'
    BY <2>1, <2>2, <2>3 DEF TypeOK, Written
  <2>6. \A x \in Known' : x \in Known \/ (x.token = t /\ x.author = key[q])
    BY <2>2, <2>3, <2>4 DEF Known
  <2>7. TokenInv'
    BY <2>1, <2>6, TokenMinted
  <2>8. RequestInv' /\ InsideInv'
    BY <2>2, <2>4 DEF RequestInv, InsideInv, RowOf
  <2>9. LockInv'
    BY <2>2, <2>4 DEF LockInv, Decided, Holding
  <2>10. TargetInv'
    BY <2>1, <2>2, <2>4, <2>6 DEF TargetInv, Decided
  <2>11. ChangeInv'
    BY <2>1, <2>2, <2>3, <2>4 DEF ChangeInv, Inserts, Replaces, NoChange
  <2>12. OneReviewEach'
    BY <1>5, <2>2, <2>3, <2>4 DEF OneReviewEach, RowOf
  <2> QED BY <2>5, <2>7, <2>8, <2>9, <2>10, <2>11, <2>12
\* COMMIT: no other open transaction touches a row of this author.
<1>6. ASSUME NEW q \in Requests, NEW a \in Answers, pc[q] = "commit", End(q, a),
             table' = (table \ change[q].out) \cup change[q].in,
             UNCHANGED <<outside, req, minted, key, before>>, events' = events + 1
      PROVE  IInv'
  <2>1. /\ pc'[q] = "end" /\ answer'[q] = a /\ change'[q] = NoChange
        /\ \A s \in Requests \ {q} :
             change'[s] = change[s] /\ pc'[s] = pc[s] /\ answer'[s] = answer[s]
    BY <1>6 DEF TypeOK, End
  <2>2. /\ \A x \in change[q].out \cup change[q].in : x.author = key[q]
        /\ change[q].out \subseteq table
        /\ \A x, y \in change[q].in : x = y
        /\ \A x \in change[q].in, y \in table \ change[q].out : x.author # y.author
    BY <1>6 DEF ChangeInv, OneReviewEach, Inserts, Replaces
  <2>3. \A s \in Requests \ {q} : pc[s] \in Holding => key[s] # key[q]
    BY <1>6, HoldersDiffer DEF Holding
  <2>4. TypeOK'
    BY <1>6 DEF TypeOK, End, NoChange
  <2>5. Known' \subseteq Known
    BY <1>6, <2>1 DEF Known, NoChange
  <2>6. TokenInv'
    BY <1>6, <2>5, TokensKept
  <2>7. RequestInv'
    BY <1>6, <2>1 DEF RequestInv
  <2>8. LockInv'
    BY <1>6, <2>1, <2>4 DEF LockInv, Decided, Holding, End, TypeOK
  <2>9. TargetInv'
    BY <1>6, <2>1, <2>5 DEF TargetInv, Decided
  <2>10. ChangeInv'
    <3> SUFFICES ASSUME NEW s \in Requests, s # q,
                        pc[s] \in {"emit", "commit"}, NEW x \in table, Replaces(s, x, req[s])
                 PROVE  x \in table'
      BY <1>6, <2>1 DEF ChangeInv, Inserts, Replaces, NoChange
    <3>1. x \in change[s].out /\ x.author = key[s]
      BY DEF Replaces, ChangeInv
    <3>2. x \notin change[q].out
      BY <2>2, <2>3, <3>1 DEF Holding
    <3> QED BY <1>6, <3>2
  <2>11. OneReviewEach'
    <3>1. \A x, y \in table' : x.author = y.author => x = y
      BY <1>6, <2>2 DEF OneReviewEach
    <3>2. \A x, y \in table' : x.token = y.token => x.author = y.author
      BY <2>6 DEF TokenInv, Known
    <3>3. ASSUME NEW s \in Requests, s # q, pc[s] \in {"emit", "commit"}
          PROVE  /\ change[s].out \subseteq table'
                 /\ \A x \in change[s].in, y \in table' \ change[s].out : x.author # y.author
      <4>1. \A x \in change[s].out \cup change[s].in : x.author = key[s]
        BY DEF ChangeInv
      <4> QED BY <1>6, <2>2, <2>3, <3>3, <4>1 DEF OneReviewEach, Holding
    <3> QED BY <2>1, <3>1, <3>2, <3>3 DEF OneReviewEach, NoChange, ChangeInv
  <2>12. InsideInv'
    <3> SUFFICES ASSUME NEW s \in Requests, s # q, ~outside, pc[s] = "insert",
                        NEW x \in table', x.author = req[s].by
                 PROVE  FALSE
      BY <1>6, <2>1 DEF InsideInv, RowOf
    <3>1. key[s] = req[s].by
      BY DEF RequestInv, LockInv, Decided
    <3>2. x \in change[q].in
      BY <1>6 DEF InsideInv, RowOf
    <3> QED BY <2>2, <2>3, <3>1, <3>2 DEF Holding
  <2> QED BY <2>4, <2>6, <2>7, <2>8, <2>9, <2>10, <2>11, <2>12
\* Another client's row meets no row of its author, committed or not.
<1>7. ASSUME NEW a \in Authors, NEW t \in Tokens, NEW c \in Contents, OutsideInsert(a, t, c)
      PROVE  IInv'
  <2> DEFINE row == [author |-> a, token |-> t, content |-> c, st |-> "published"]
  <2>1. /\ t \notin minted /\ table' = table \cup {row} /\ minted' = minted \cup {t}
        /\ UNCHANGED <<outside, events, req, answer, pc, key, before, holder, change>>
        /\ outside /\ RowOf(a) = {}
    BY <1>7 DEF OutsideInsert
  <2>2. \A s \in Requests : \A x \in change[s].in : x.author # a
    BY <1>7 DEF OutsideInsert, Unsettled
  <2>3. TypeOK'
    BY <2>1 DEF TypeOK, Rows, States
  <2>4. \A x \in Known' : x \in Known \/ (x.token = t /\ x.author = a)
    BY <2>1 DEF Known
  <2>5. TokenInv'
    BY <2>1, <2>4, TokenMinted
  <2>6. RequestInv' /\ LockInv' /\ InsideInv'
    BY <2>1 DEF RequestInv, LockInv, InsideInv
  <2>7. TargetInv'
    BY <2>1, <2>4 DEF TargetInv
  <2>8. ChangeInv'
    BY <2>1 DEF ChangeInv, Inserts, Replaces
  <2>9. OneReviewEach'
    <3>1. \A x, y \in table' : x.author = y.author => x = y
      BY <2>1 DEF OneReviewEach, RowOf
    <3>2. \A x, y \in table' : x.token = y.token => x.author = y.author
      BY <2>5 DEF TokenInv, Known
    <3> QED BY <2>1, <2>2, <3>1, <3>2 DEF OneReviewEach
  <2> QED BY <2>3, <2>5, <2>6, <2>7, <2>8, <2>9
<1>8. CASE UNCHANGED vars
  <2>1. Known' = Known
    BY <1>8 DEF vars, Known
  <2>2. TypeOK' /\ RequestInv' /\ LockInv' /\ TokenInv' /\ TargetInv'
    BY <1>8, <2>1 DEF vars, TypeOK, RequestInv, LockInv, TokenInv, TargetInv
  <2>3. ChangeInv' /\ OneReviewEach' /\ InsideInv'
    BY <1>8 DEF vars, ChangeInv, Inserts, Replaces, OneReviewEach, InsideInv, RowOf
  <2> QED BY <2>2, <2>3
<1>9. \A r, rows : Duplicate(rows, r) \in Answers
  BY DEF Duplicate, Answers
\* Each statement is one of these.
<1>10. ASSUME NEW q \in Requests, Step(q) PROVE IInv'
  <2> SUFFICES ASSUME ~ \E a \in Answers :
                          /\ pc[q] \notin {"idle", "end"} /\ End(q, a)
                          /\ UNCHANGED <<outside, table, events, req, minted, key, before>>
               PROVE  IInv'
    BY EndKeeps
  <2>0. {"conflict", "replayed", "forbidden", "notfound", "noop", "created", "done",
         "error"} \subseteq Answers
    BY DEF Answers
  <2>1. CASE ReadForSubmit(q)
    BY <1>2, <1>9, <2>1, OpTypes DEF ReadForSubmit, TypeOK, RequestInv
  <2>2. CASE ReadForOwner(q)
    BY <1>2, <2>0, <2>2, OpTypes DEF ReadForOwner, TypeOK, RequestInv
  <2>3. CASE ReadForModeration(q)
    <3>1. PICK x \in RowAt(req[q].token) :
            /\ x.st # req[q].target /\ Proceed(q, x.author)
            /\ before' = [before EXCEPT ![q] = x.st]
      BY <2>0, <2>3 DEF ReadForModeration
    <3>2. x.author \in Authors
      BY DEF RowAt, TypeOK, Rows
    <3> QED BY <1>2, <2>3, <3>1, <3>2 DEF ReadForModeration
  <2>4. CASE Lock(q)
    BY <1>3, <2>4
  <2>5. CASE RereadForSubmit(q)
    BY <1>4, <1>9, <2>5 DEF RereadForSubmit
  <2>6. CASE Insert(q)
    BY <1>4, <1>5, <2>6 DEF Insert
  <2>7. CASE ReadAfterViolation(q)
    BY <1>9, <2>7 DEF ReadAfterViolation
  <2>8. CASE WriteForOwner(q)
    <3> DEFINE mine == {x \in RowAt(req[q].token) : x.author = req[q].by}
               new(x) == IF req[q].op = "remove" THEN {}
                         ELSE {[x EXCEPT !.content = req[q].content]}
    <3>1. /\ mine # {} /\ pc[q] = "locked" /\ req[q].op \in {"update", "remove"}
          /\ Written(q, mine, IF req[q].op = "remove" THEN {}
                              ELSE {[x EXCEPT !.content = req[q].content] : x \in mine})
          /\ UNCHANGED <<outside, table, events, req, minted, key, before>>
      BY <2>0, <2>8 DEF WriteForOwner
    <3>2. PICK x \in table : x.token = req[q].token /\ x.author = req[q].by /\ mine = {x}
      BY <3>1 DEF RowAt, OneReviewEach
    <3>3. Written(q, {x}, new(x))
      BY <3>1, <3>2
    <3>4. Replaces(q, x, req[q])'
      BY <3>1, <3>2, <3>3 DEF Written, Replaces, TypeOK
    <3> QED BY <3>1, <3>3, <3>4, ReplaceKeeps
  <2>9. CASE WriteForModeration(q)
    <3> DEFINE rows == {x \in RowAt(req[q].token) : x.st = before[q]}
               new(x) == {[x EXCEPT !.st = req[q].target]}
    <3>1. /\ rows # {} /\ pc[q] = "locked" /\ req[q].op = "moderate"
          /\ Written(q, rows, {[x EXCEPT !.st = req[q].target] : x \in rows})
          /\ UNCHANGED <<outside, table, events, req, minted, key, before>>
      BY <2>0, <2>9 DEF WriteForModeration
    <3>2. PICK x \in table : x.token = req[q].token /\ x.st = before[q] /\ rows = {x}
      BY <3>1 DEF RowAt, OneReviewEach
    <3>3. Written(q, {x}, new(x))
      BY <3>1, <3>2
    <3>4. x.author = key[q] /\ x.st # req[q].target
      BY <3>1, <3>2 DEF TargetInv, Decided, Known
    <3>5. Replaces(q, x, req[q])'
      BY <3>1, <3>2, <3>3, <3>4 DEF Written, Replaces, TypeOK
    <3> QED BY <3>1, <3>3, <3>4, <3>5, ReplaceKeeps
  <2>10. CASE Emit(q)
    BY <1>4, <2>10 DEF Emit
  <2>11. CASE Commit(q)
    BY <1>6, <2>0, <2>11 DEF Commit
  <2> QED BY <1>10, <2>1, <2>2, <2>3, <2>4, <2>5, <2>6, <2>7, <2>8, <2>9, <2>10, <2>11
        DEF Step
<1>11. ASSUME NEW q \in Requests, Fail(q) PROVE IInv'
  BY <1>11, EndKeeps DEF Fail, Answers
<1> QED BY <1>1, <1>7, <1>8, <1>10, <1>11 DEF Next

LEMMA Inductive == Spec => []IInv
BY InitInv, NextInv, PTL DEF Spec

-----------------------------------------------------------------------------
(* Each request is one step of AtomicReviews. *)

\* A request decided without a write answers as the atomic one does now.
LEMMA Decides ==
  ASSUME IInv, NEW q \in Requests, req[q] \in Ops
  PROVE  LET r == req[q]
             Now(a) == <<table, a>> \in Atomic!Outcomes(r)
         IN  /\ r.op = "submit" /\ RowOf(r.by) # {} => Now(Duplicate(RowOf(r.by), r))
             /\ (/\ r.op \in {"update", "remove"}
                 /\ ~ \E x \in RowAt(r.token) : x.author = r.by) => Now("forbidden")
             /\ r.op = "moderate" /\ RowAt(r.token) = {} => Now("notfound")
             /\ (/\ r.op = "moderate"
                 /\ \E x \in RowAt(r.token) : x.st = r.target) => Now("noop")
<1> DEFINE r == req[q]
<1>1. CASE r.op = "submit" /\ RowOf(r.by) # {}
  <2>1. PICK x \in table : x.author = r.by
    BY <1>1 DEF RowOf
  <2>2. RowOf(r.by) = {x}
    BY <2>1 DEF RowOf, IInv, OneReviewEach
  <2>3. Duplicate(RowOf(r.by), r) = Atomic!Duplicate(x, r)
    BY <2>2 DEF Duplicate, Atomic!Duplicate
  <2> QED BY <1>1, <2>1, <2>3 DEF Atomic!Outcomes, Atomic!RowOf
<1>2. CASE r.op \in {"update", "remove"} /\ ~ \E x \in RowAt(r.token) : x.author = r.by
  BY <1>2 DEF Atomic!Outcomes, Atomic!RowAt, RowAt
<1>3. CASE r.op = "moderate" /\ RowAt(r.token) = {}
  BY <1>3 DEF Atomic!Outcomes, Atomic!RowAt, RowAt
<1>4. CASE r.op = "moderate" /\ \E x \in RowAt(r.token) : x.st = r.target
  BY <1>4 DEF Atomic!Outcomes, Atomic!RowAt, RowAt
<1> QED BY <1>1, <1>2, <1>3, <1>4

\* What a transaction commits is what the atomic request would do at COMMIT.
LEMMA Commits ==
  ASSUME IInv, NEW q \in Requests, pc[q] = "commit"
  PROVE  <<(table \ change[q].out) \cup change[q].in,
           IF req[q].op = "submit" THEN "created" ELSE "done">> \in Atomic!Outcomes(req[q])
<1> DEFINE r == req[q]
<1>1. CASE Inserts(q, r)
  <2> DEFINE row(t) == [author |-> r.by, token |-> t, content |-> r.content, st |-> "published"]
  <2>1. PICK t \in Tokens : change[q].in = {row(t)}
    BY <1>1 DEF Inserts
  <2> DEFINE x == row(t)
  <2>0. x \in change[q].in /\ x.author = r.by /\ x.token = t
    BY <2>1
  <2>2. \A y \in table : y.author # r.by
    <3> HIDE DEF x
    <3> QED BY <1>1, <2>0 DEF Inserts, IInv, OneReviewEach
  <2>3. \A y \in table : y.token # t
    <3> HIDE DEF x
    <3> QED BY <2>0, <2>2 DEF IInv, TokenInv, Known
  <2> QED BY <1>1, <2>1, <2>2, <2>3 DEF Inserts, Atomic!Outcomes, Atomic!RowOf, Atomic!RowAt
<1>2. CASE \E x \in table : Replaces(q, x, r)
  <2>1. PICK x \in table : Replaces(q, x, r)
    BY <1>2
  <2>2. x \in Atomic!RowAt(r.token)
    BY <2>1 DEF Replaces, Atomic!RowAt
  <2> QED BY <2>1, <2>2 DEF Replaces, Atomic!Outcomes
<1> QED BY <1>1, <1>2 DEF IInv, ChangeInv

LEMMA StepRefines ==
  ASSUME IInv, ~outside, Next
  PROVE  Atomic!ANext \/ UNCHANGED Atomic!avars
<1> USE NoneAssumption DEF IInv
<1>1. ASSUME NEW q \in Requests, NEW r \in Ops, Call(q, r) PROVE Atomic!ANext
  BY <1>1 DEF Call, TypeOK, RequestInv, Atomic!ANext, Atomic!Call
\* A request in flight was called and is unanswered.
<1>2. ASSUME NEW q \in Requests, pc[q] \notin {"idle", "end"}
      PROVE  req[q] \in Ops /\ req[q] # None /\ answer[q] = None
  BY <1>2 DEF TypeOK, RequestInv
\* One that ends without a commit is performed where it is decided.
<1>3. ASSUME NEW q \in Requests, pc[q] \notin {"idle", "end"}, NEW a, End(q, a),
             a \notin {"created", "done"}, <<table, a>> \in Atomic!Outcomes(req[q]),
             UNCHANGED <<table, events, req>>
      PROVE  Atomic!ANext
  BY <1>2, <1>3 DEF End, Atomic!ANext, Atomic!Perform
<1>4. ASSUME NEW q \in Requests, Step(q) PROVE Atomic!ANext \/ UNCHANGED Atomic!avars
  <2> USE DEF Atomic!avars
  <2>1. CASE ReadForSubmit(q) \/ RereadForSubmit(q)
    BY <1>2, <1>3, <2>1, Decides
       DEF ReadForSubmit, RereadForSubmit, Proceed, Duplicate
  <2>2. CASE ReadForOwner(q)
    BY <1>2, <1>3, <2>2, Decides DEF ReadForOwner, Proceed
  <2>3. CASE ReadForModeration(q)
    BY <1>2, <1>3, <2>3, Decides DEF ReadForModeration, Proceed
  <2>4. CASE Lock(q) \/ Emit(q)
    BY <2>4 DEF Lock, Emit
  <2>5. CASE Insert(q)
    BY <2>5 DEF Insert, Written, InsideInv
  <2>6. CASE ReadAfterViolation(q)
    BY <2>6 DEF ReadAfterViolation, InsideInv
  <2>7. CASE WriteForOwner(q)
    BY <1>2, <1>3, <2>7, Decides DEF WriteForOwner, Written
  <2>8. CASE WriteForModeration(q)
    <3>1. CASE UNCHANGED <<table, events, req, answer>>
      BY <3>1
    <3>2. CASE ~ UNCHANGED <<table, events, req, answer>>
      <4>1. /\ {x \in RowAt(req[q].token) : x.st = before[q]} = {}
            /\ pc[q] = "locked" /\ req[q].op = "moderate"
            /\ End(q, IF RowAt(req[q].token) = {} THEN "notfound" ELSE "noop")
            /\ UNCHANGED <<table, events, req>>
        BY <2>8, <3>2 DEF WriteForModeration, Written
      <4>2. before[q] \in States \ {req[q].target} /\ req[q].target \in States
        BY <1>2, <4>1, OpTypes DEF TargetInv, Decided
      <4>3. \A x \in RowAt(req[q].token) : x.st = req[q].target
        BY <4>1, <4>2 DEF RowAt, TypeOK, Rows, States
      <4> QED BY <1>2, <1>3, <4>1, <4>3, Decides
    <3> QED BY <3>1, <3>2
  <2>9. CASE Commit(q)
    <3> DEFINE done == IF req[q].op = "submit" THEN "created" ELSE "done"
               o == <<(table \ change[q].out) \cup change[q].in, done>>
    <3>1. PICK a \in {done, "error"} : End(q, a)
      BY <2>9 DEF Commit
    <3>2. /\ o \in Atomic!Outcomes(req[q]) /\ table' = o[1] /\ o[2] = done
          /\ done \in {"created", "done"} /\ events' = events + 1 /\ req' = req
          /\ req[q] # None /\ answer[q] = None
      BY <1>2, <2>9, Commits DEF Commit
    <3>3. answer' = [answer EXCEPT ![q] = a]
      BY <3>1 DEF End
    <3>4. CASE a = done
      <4> HIDE DEF o, done
      <4>1. Atomic!Perform(q)
        BY <3>2, <3>3, <3>4 DEF Atomic!Perform
      <4> QED BY <4>1 DEF Atomic!ANext
    <3>5. CASE a = "error"
      <4> HIDE DEF o, done
      <4>1. Atomic!PerformUnanswered(q)
        BY <3>2, <3>3, <3>5 DEF Atomic!PerformUnanswered
      <4> QED BY <4>1 DEF Atomic!ANext
    <3> QED BY <3>1, <3>4, <3>5
  <2> QED BY <1>4, <2>1, <2>2, <2>3, <2>4, <2>5, <2>6, <2>7, <2>8, <2>9 DEF Step
<1>5. ASSUME NEW q \in Requests, Fail(q) PROVE Atomic!ANext
  BY <1>2, <1>5 DEF Fail, End, Atomic!ANext, Atomic!Fail
<1>6. ASSUME NEW a \in Authors, NEW t \in Tokens, NEW c \in Contents, OutsideInsert(a, t, c)
      PROVE  FALSE
  BY <1>6 DEF OutsideInsert
<1> QED BY <1>1, <1>4, <1>5, <1>6 DEF Next

-----------------------------------------------------------------------------
\* Every variable holds a value of its column or set.
THEOREM TypeCorrect == Spec => []TypeOK
<1>1. IInv => TypeOK
  BY DEF IInv
<1> QED BY <1>1, Inductive, PTL

\* SPEC-0001 rule 2: one review per author and per token, whoever writes, and no
\* open transaction that would undo what another committed.
THEOREM OneReviewKept == Spec => []OneReviewEach
<1>1. IInv => OneReviewEach
  BY DEF IInv
<1> QED BY <1>1, Inductive, PTL

\* submitReview, updateReview, removeReview and setReviewModerationState each take
\* effect in one step between call and answer, with one event for each change,
\* while every writer takes the author's lock.
THEOREM RequestsAreAtomic == Spec => ImplementsAtomicReviews
<1>1. IInv /\ [Next]_vars => [outside \/ Atomic!ANext]_(Atomic!avars)
  <2> SUFFICES ASSUME IInv, [Next]_vars
               PROVE  outside \/ Atomic!ANext \/ UNCHANGED Atomic!avars
    OBVIOUS
  <2>1. CASE UNCHANGED vars
    BY <2>1 DEF vars, Atomic!avars
  <2> QED BY <2>1, StepRefines
<1> QED BY <1>1, Inductive, PTL DEF Spec, ImplementsAtomicReviews

-----------------------------------------------------------------------------
\* A request waits: for the author's lock, or at a statement for a row that another
\* transaction has written and not committed.
WaitsForLock(q) == pc[q] = "lock" /\ holder[key[q]] # None
WaitsForRow(q) ==
  \/ pc[q] = "insert" /\ \E x \in Unsettled(q) : x.author = req[q].by
  \/ pc[q] = "locked" /\ req[q].op # "submit" /\ \E x \in Unsettled(q) : x.token = req[q].token

\* advisory-lock.ts:3-14, reviews.ts:154-173, moderation.ts:166-182: the lock is the one
\* place where a request waits, and it waits there for a request that is unanswered
\* and does not wait itself: a moderation, which knows its author from a read outside
\* the transaction, included.
OnlyLockWaits ==
  /\ \A q \in Requests : ~WaitsForRow(q)
  /\ \A q \in Requests : WaitsForLock(q) =>
       LET s == holder[key[q]] IN s # q /\ pc[s] \notin {"idle", "lock", "end"}

\* A lock that is held is held by a transaction of its author, which is open.
HolderInv == \A a \in Authors : holder[a] # None =>
  holder[a] \in Requests /\ pc[holder[a]] \in Holding /\ key[holder[a]] = a

\* A step of q that leaves the locks alone and q, if in its transaction, there.
LEMMA HolderKept ==
  ASSUME HolderInv, NEW q \in Requests, holder' = holder,
         \A s \in Requests \ {q} : pc'[s] = pc[s] /\ key'[s] = key[s],
         pc[q] \in Holding => pc'[q] \in Holding /\ key'[q] = key[q]
  PROVE  HolderInv'
BY DEF HolderInv

\* One that gives up the locks of q.
LEMMA HolderReleased ==
  ASSUME HolderInv, NEW q \in Requests,
         holder' = [b \in Authors |-> IF holder[b] = q THEN None ELSE holder[b]],
         \A s \in Requests \ {q} : pc'[s] = pc[s] /\ key'[s] = key[s]
  PROVE  HolderInv'
BY DEF HolderInv

LEMMA HolderStep == IInv /\ HolderInv /\ [Next]_vars => HolderInv'
<1> SUFFICES ASSUME IInv, HolderInv, [Next]_vars PROVE HolderInv'
  OBVIOUS
<1> USE DEF Holding
<1>0. TypeOK
  BY DEF IInv
<1>1. ASSUME NEW q \in Requests, \E a : End(q, a),
             \A s \in Requests \ {q} : key'[s] = key[s]
      PROVE  HolderInv'
  <2>1. \A s \in Requests \ {q} : pc'[s] = pc[s]
    BY <1>0, <1>1 DEF End, TypeOK
  <2> QED BY <1>1, <2>1, HolderReleased DEF End
<1>2. ASSUME NEW q \in Requests, NEW a, Proceed(q, a), pc[q] = "read" PROVE HolderInv'
  BY <1>0, <1>2, HolderKept DEF Proceed, TypeOK
<1>3. ASSUME NEW q \in Requests, NEW r \in Ops, Call(q, r) PROVE HolderInv'
  BY <1>0, <1>3, HolderKept DEF Call, TypeOK
<1>4. ASSUME NEW q \in Requests, Step(q) PROVE HolderInv'
  <2>1. CASE ReadForSubmit(q)
    BY <1>1, <1>2, <2>1 DEF ReadForSubmit
  <2>2. CASE ReadForOwner(q)
    BY <1>1, <1>2, <2>2 DEF ReadForOwner
  <2>3. CASE ReadForModeration(q)
    BY <1>1, <1>2, <2>3 DEF ReadForModeration
  <2>4. CASE Lock(q)
    <3>1. key[q] \in Authors
      BY <2>4 DEF Lock, IInv, LockInv, Decided
    <3>2. \A a \in Authors : holder'[a] = IF a = key[q] THEN q ELSE holder[a]
      BY <1>0, <2>4 DEF Lock, TypeOK
    <3>3. /\ pc'[q] = "locked" /\ key' = key
          /\ \A s \in Requests \ {q} : pc'[s] = pc[s]
      BY <1>0, <2>4 DEF Lock, TypeOK
    <3>4. pc[q] = "lock"
      BY <2>4 DEF Lock
    <3> QED BY <3>1, <3>2, <3>3, <3>4 DEF HolderInv
  <2>5. CASE RereadForSubmit(q)
    <3>1. CASE pc' = [pc EXCEPT ![q] = "insert"] /\ UNCHANGED holder
      BY <1>0, <2>5, <3>1, HolderKept DEF RereadForSubmit, TypeOK
    <3> QED BY <1>1, <2>5, <3>1 DEF RereadForSubmit
  <2>6. ASSUME NEW gone, NEW new, Written(q, gone, new), UNCHANGED key PROVE HolderInv'
    BY <1>0, <2>6, HolderKept DEF Written, TypeOK
  <2>7. CASE Insert(q)
    <3>1. CASE RowOf(req[q].by) = {}
      BY <2>6, <2>7, <3>1 DEF Insert
    <3>2. CASE RowOf(req[q].by) # {}
      <4>1. \A s \in Requests \ {q} : pc'[s] = pc[s] /\ key'[s] = key[s]
        BY <1>0, <2>7, <3>2 DEF Insert, TypeOK
      <4> QED BY <2>7, <3>2, <4>1, HolderReleased DEF Insert
    <3> QED BY <3>1, <3>2
  <2>8. CASE ReadAfterViolation(q)
    BY <1>1, <2>8 DEF ReadAfterViolation
  <2>9. CASE WriteForOwner(q)
    BY <1>1, <2>6, <2>9 DEF WriteForOwner
  <2>10. CASE WriteForModeration(q)
    BY <1>1, <2>6, <2>10 DEF WriteForModeration
  <2>11. CASE Emit(q)
    BY <1>0, <2>11, HolderKept DEF Emit, TypeOK
  <2>12. CASE Commit(q)
    BY <1>1, <2>12 DEF Commit
  <2> QED BY <1>4, <2>1, <2>2, <2>3, <2>4, <2>5, <2>7, <2>8, <2>9, <2>10, <2>11, <2>12 DEF Step
<1>5. ASSUME NEW q \in Requests, Fail(q) PROVE HolderInv'
  BY <1>1, <1>5 DEF Fail
<1>6. ASSUME NEW a \in Authors, NEW t \in Tokens, NEW c \in Contents, OutsideInsert(a, t, c)
      PROVE  HolderInv'
  BY <1>6 DEF OutsideInsert, HolderInv
<1>7. CASE UNCHANGED vars
  BY <1>7 DEF vars, HolderInv
<1> QED BY <1>3, <1>4, <1>5, <1>6, <1>7 DEF Next

\* The rows of an open transaction are of the author whose lock it holds, so the
\* statements of another transaction never meet them.
LEMMA NoRowWaits ==
  ASSUME IInv, NEW q \in Requests
  PROVE  ~WaitsForRow(q)
<1> SUFFICES ASSUME WaitsForRow(q) PROVE FALSE
  OBVIOUS
<1>1. pc[q] \in {"insert", "locked"} /\ pc[q] \in Holding /\ pc[q] \in Decided
  BY DEF WaitsForRow, Holding, Decided
<1>2. ASSUME NEW x \in Unsettled(q)
      PROVE  x \in Known /\ x.author # key[q]
  <2>1. PICK s \in Requests \ {q} : x \in change[s].out \cup change[s].in
    BY DEF Unsettled
  <2>2. pc[s] \in {"emit", "commit"}
    BY <2>1 DEF IInv, ChangeInv, NoChange
  <2>3. x.author = key[s] /\ key[s] # key[q]
    BY <1>1, <2>1, <2>2, HoldersDiffer DEF IInv, ChangeInv, Holding
  <2>4. x \in Known
    <3>1. change[s].out \subseteq table
      BY DEF IInv, OneReviewEach
    <3> QED BY <2>1, <3>1 DEF Known
  <2> QED BY <2>3, <2>4
<1>3. CASE pc[q] = "insert"
  <2>1. req[q].op = "submit" /\ key[q] = req[q].by
    BY <1>1, <1>3 DEF IInv, RequestInv, LockInv
  <2> QED BY <1>2, <1>3, <2>1 DEF WaitsForRow
<1>4. CASE pc[q] = "locked" /\ req[q].op # "submit"
  <2>1. PICK x \in Unsettled(q) : x.token = req[q].token
    BY <1>4 DEF WaitsForRow
  <2> QED BY <1>1, <1>2, <1>4, <2>1 DEF IInv, TargetInv
<1> QED BY <1>3, <1>4 DEF WaitsForRow

\* advisory-lock.ts:3-14, reviews.ts:154-173, moderation.ts:166-182: requests of any
\* number and kind wait only at the author's lock, and there only for one that has all
\* it needs, so that no wait is circular.
THEOREM WaitsAreForTheLock == Spec => []OnlyLockWaits
<1>1. Init => HolderInv
  BY DEF Init, HolderInv
<1>2. Spec => []HolderInv
  BY <1>1, Inductive, HolderStep, PTL DEF Spec
<1>3. IInv /\ HolderInv => OnlyLockWaits
  <2> SUFFICES ASSUME IInv, HolderInv, NEW q \in Requests, WaitsForLock(q)
               PROVE  holder[key[q]] # q /\ pc[holder[key[q]]] \notin {"idle", "lock", "end"}
    BY NoRowWaits DEF OnlyLockWaits
  <2>1. pc[q] = "lock" /\ key[q] \in Authors /\ holder[key[q]] # None
    BY DEF WaitsForLock, IInv, LockInv, Decided
  <2>2. pc[holder[key[q]]] \in Holding
    BY <2>1 DEF HolderInv
  <2> QED BY <2>1, <2>2 DEF Holding
<1> QED BY <1>2, <1>3, Inductive, PTL
=============================================================================
