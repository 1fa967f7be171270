-------------------------- MODULE RatingOutboxProofs --------------------------
(***************************************************************************)
(* RatingOutbox for any number of products, workers, connections, rows,    *)
(* kills and rebuilds: the invariant IInv is inductive, the safety         *)
(* properties follow from it, and the steps refine AtLeastOnce.            *)
(***************************************************************************)
EXTENDS RatingOutbox, TLAPS

\* The initial state satisfies the invariant: nothing written, nothing claimed.
LEMMA InitInv == Init => IInv
<1> SUFFICES ASSUME Init PROVE IInv
  OBVIOUS
<1> USE NoneAssumption, BoundsAssumption DEF Init
<1>1. TypeOK
  BY DEF TypeOK, Rows, Statuses
<1>2. ClaimInv
  BY DEF ClaimInv, ClaimsExclusive, Held
<1>3. EventInv /\ AttemptInv
  BY DEF EventInv, AttemptInv, ParkedAtCeiling, Committed, Rows
<1>4. StatementInv
  BY DEF StatementInv, Rows
<1>5. AppliedInv /\ LetterInv
  BY DEF AppliedInv, AppliedAtLeastOnce, LetterInv, Rows
<1>6. FreshInv
  BY DEF FreshInv
<1> QED BY <1>1, <1>2, <1>3, <1>4, <1>5, <1>6 DEF IInv

-----------------------------------------------------------------------------
\* An action of the system keeps every variable in its type.
LEMMA TypeStep == IInv /\ [Next]_vars => TypeOK'
<1> SUFFICES ASSUME IInv, [Next]_vars PROVE TypeOK'
  OBVIOUS
<1> USE NoneAssumption, BoundsAssumption DEF IInv, TypeOK, Rows, Statuses,
        rowVars, relayVars, letterVars, stmtVars
<1>1. ASSUME NEW p \in Products, InsertEvent(p) PROVE TypeOK'
  <2>1. nextRow \in Rows /\ nextRow' \in 1..(MaxRows + 1)
    BY <1>1 DEF InsertEvent
  <2>2. status' \in [Rows -> Statuses] /\ aggregate' \in [Rows -> Products \cup {None}]
    BY <1>1, <2>1 DEF InsertEvent
  <2>3. \A i \in Rows : status'[i] # "free" => aggregate'[i] \in Products
    BY <1>1, <2>1 DEF InsertEvent
  <2> QED BY <1>1, <2>1, <2>2, <2>3 DEF InsertEvent
<1>2. ASSUME NEW p \in Products, PurgeLetter(p) PROVE TypeOK'
  BY <1>2 DEF PurgeLetter
<1>3. ASSUME NEW i \in Rows, CommitWrite(i) PROVE TypeOK'
  <2>1. aggregate[i] \in Products
    BY <1>3 DEF CommitWrite
  <2>2. ver' \in [Products -> Nat]
    BY <1>3, <2>1 DEF CommitWrite
  <2>3. covers' \in [Rows -> Nat]
    BY <1>3, <2>1 DEF CommitWrite
  <2> QED BY <1>3, <2>2, <2>3 DEF CommitWrite
<1>4. ASSUME NEW i \in Rows, RollbackWrite(i) PROVE TypeOK'
  BY <1>4 DEF RollbackWrite
<1>5. ASSUME NEW r \in Relays, Claim(r) PROVE TypeOK'
  BY <1>5 DEF Claim, Lowest, Claimable
<1>6. ASSUME NEW r \in Relays, LoseAnswer(r) PROVE TypeOK'
  <2>1. todo' \in [Relays -> SUBSET Rows] /\ bad' \in [Relays -> SUBSET Rows]
    BY <1>6 DEF LoseAnswer, MarkIn
  <2>2. await' \in [Relays -> Conns \cup {None}]
    BY <1>6 DEF LoseAnswer
  <2> QED BY <1>6, <2>1, <2>2 DEF LoseAnswer
<1>7. ASSUME NEW r \in Relays, CommitPass(r) PROVE TypeOK'
  <2>1. \A i \in ok[r] \cup bad[r] : aggregate[i] \in Products
    BY DEF ClaimInv, ClaimsExclusive, Held
  <2>2. status' \in [Rows -> Statuses] /\ attempts' \in [Rows -> Nat]
    BY <1>7 DEF CommitPass
  <2>3. letters' \subseteq Products
    BY <1>7 DEF CommitPass
  <2>4. \A i \in Rows : status'[i] # "free" => aggregate[i] \in Products
    BY <1>7, <2>1 DEF CommitPass
  <2>5. /\ ok' \in [Relays -> SUBSET Rows] /\ bad' \in [Relays -> SUBSET Rows]
        /\ filed' \in [Relays -> SUBSET Rows] /\ drafts' \in [Relays -> SUBSET Products]
        /\ purged' \in [Relays -> SUBSET Products]
    BY <1>7 DEF CommitPass, EndPass
  <2> QED BY <1>7, <2>2, <2>3, <2>4, <2>5 DEF CommitPass
<1>8. ASSUME NEW r \in Relays, Kill(r) PROVE TypeOK'
  BY <1>8 DEF Kill, EndPass
<1>9. ASSUME NEW c \in Conns, Land(c) PROVE TypeOK'
  <2>1. target[c] \in Products
    BY <1>9 DEF Land
  <2>2. /\ rating' \in [Products -> Nat] /\ best' \in [Products -> Nat]
        /\ target' \in [Conns -> Products \cup {None}]
    BY <1>9, <2>1 DEF Land
  <2>3. /\ todo' \in [Relays -> SUBSET Rows] /\ ok' \in [Relays -> SUBSET Rows]
        /\ await' \in [Relays -> Conns \cup {None}]
    <3>1. CASE \A r \in Relays : await[r] # c
      BY <1>9, <3>1 DEF Land, Answer
    <3>2. ASSUME NEW r \in Relays, NEW i \in todo[r],
                 todo' = [todo EXCEPT ![r] = @ \ {i}],
                 ok' = [ok EXCEPT ![r] = @ \cup {i}],
                 await' = [await EXCEPT ![r] = None]
          PROVE  /\ todo' \in [Relays -> SUBSET Rows] /\ ok' \in [Relays -> SUBSET Rows]
                 /\ await' \in [Relays -> Conns \cup {None}]
      BY <3>2
    <3> QED BY <1>9, <3>1, <3>2 DEF Land, Answer, MarkIn
  <2> QED BY <1>9, <2>2, <2>3 DEF Land
<1>10. ASSUME NEW c \in Conns, Abort(c) PROVE TypeOK'
  <2>1. target' \in [Conns -> Products \cup {None}]
    BY <1>10 DEF Abort
  <2>2. /\ todo' \in [Relays -> SUBSET Rows] /\ bad' \in [Relays -> SUBSET Rows]
        /\ await' \in [Relays -> Conns \cup {None}]
    <3>1. CASE \A r \in Relays : await[r] # c
      BY <1>10, <3>1 DEF Abort, Answer
    <3>2. ASSUME NEW r \in Relays, NEW i \in todo[r],
                 todo' = [todo EXCEPT ![r] = @ \ {i}],
                 bad' = [bad EXCEPT ![r] = @ \cup {i}],
                 await' = [await EXCEPT ![r] = None]
          PROVE  /\ todo' \in [Relays -> SUBSET Rows] /\ bad' \in [Relays -> SUBSET Rows]
                 /\ await' \in [Relays -> Conns \cup {None}]
      BY <3>2
    <3> QED BY <1>10, <3>1, <3>2 DEF Abort, Answer, MarkIn
  <2> QED BY <1>10, <2>1, <2>2 DEF Abort
<1>11. ASSUME NEW r \in Relays, NEW c \in Conns, BeginApply(r, c) PROVE TypeOK'
  <2>1. PICK i \in todo[r] : BeginStatement(aggregate[i], c)
    BY <1>11 DEF BeginApply
  <2>2. i \in Rows /\ aggregate[i] \in Products
    BY DEF ClaimInv, ClaimsExclusive, Held
  <2>3. /\ target' \in [Conns -> Products \cup {None}] /\ snap' \in [Conns -> Nat]
        /\ overlapped' \subseteq Products
    BY <2>1, <2>2 DEF BeginStatement
  <2> QED BY <1>11, <2>3 DEF BeginApply
<1>12. ASSUME NEW p \in Products, NEW c \in Conns, Rebuild(p, c) PROVE TypeOK'
  <2>1. /\ target' \in [Conns -> Products \cup {None}] /\ snap' \in [Conns -> Nat]
        /\ overlapped' \subseteq Products
    BY <1>12 DEF Rebuild, BeginStatement
  <2>2. rebuilds' \in 0..MaxRebuilds
    BY <1>12 DEF Rebuild
  <2> QED BY <1>12, <2>1, <2>2 DEF Rebuild
<1>13. CASE UNCHANGED vars
  BY <1>13 DEF vars
<1>14. ASSUME NEW r \in Relays, WriteLetter(r) PROVE TypeOK'
  <2>1. PICK i \in Unfiled(r) : /\ drafts' = [drafts EXCEPT ![r] = @ \cup ({aggregate[i]} \ letters)]
                                /\ filed' = [filed EXCEPT ![r] = @ \cup {i}]
    BY <1>14 DEF WriteLetter
  <2>2. i \in Rows /\ aggregate[i] \in Products
    BY <2>1 DEF Unfiled, ClaimInv, ClaimsExclusive, Held
  <2>3. filed' \in [Relays -> SUBSET Rows] /\ drafts' \in [Relays -> SUBSET Products]
    BY <2>1, <2>2
  <2> QED BY <1>14, <2>3 DEF WriteLetter
<1> QED
  BY <1>1, <1>2, <1>3, <1>4, <1>5, <1>6, <1>7, <1>8, <1>9, <1>10, <1>11, <1>12, <1>13, <1>14
  DEF Next
-----------------------------------------------------------------------------
\* Rows claimed by passes stay pending, in one pass and in one part of it:
\* SKIP LOCKED keeps a claim off rows other passes hold, and only the pass
\* that holds a row commits its outcome.
LEMMA ClaimStep == IInv /\ [Next]_vars => ClaimInv'
<1> SUFFICES ASSUME IInv, [Next]_vars PROVE ClaimInv'
  OBVIOUS
<1> DEFINE Frame == UNCHANGED <<status, todo, ok, bad>>
<1> USE DEF ClaimInv, ClaimsExclusive, Held
<1>0. /\ ClaimInv
      /\ todo \in [Relays -> SUBSET Rows] /\ ok \in [Relays -> SUBSET Rows]
      /\ bad \in [Relays -> SUBSET Rows] /\ status \in [Rows -> Statuses]
  BY DEF IInv, TypeOK
<1>1. CASE Frame
  BY <1>0, <1>1
<1>2. ASSUME NEW p \in Products, InsertEvent(p) PROVE ClaimInv'
  <2>1. nextRow \in Rows => status[nextRow] = "free"
    BY DEF IInv, EventInv, TypeOK, Rows
  <2> QED BY <1>0, <1>2, <2>1 DEF InsertEvent, relayVars, Rows
<1>3. ASSUME NEW i \in Rows, CommitWrite(i) \/ RollbackWrite(i) PROVE ClaimInv'
  BY <1>0, <1>3 DEF CommitWrite, RollbackWrite, relayVars
<1>4. ASSUME NEW r \in Relays, Claim(r) PROVE ClaimInv'
  <2>1. Lowest(Claimable, BatchSize) \subseteq Claimable
    BY DEF Lowest
  <2>2. /\ UNCHANGED <<status, ok, bad>>
        /\ todo' = [todo EXCEPT ![r] = Lowest(Claimable, BatchSize)]
    BY <1>4 DEF Claim, rowVars
  <2>3. \A i \in Lowest(Claimable, BatchSize) :
           status[i] = "pending" /\ \A s \in Relays : i \notin Held(s)
    BY <2>1 DEF Claimable
  <2> QED BY <1>0, <2>2, <2>3
<1>5. ASSUME NEW r \in Relays, LoseAnswer(r) PROVE ClaimInv'
  <2>1. PICK i \in todo[r] : /\ todo' = [todo EXCEPT ![r] = @ \ {i}]
                             /\ bad' = [bad EXCEPT ![r] = @ \cup {i}]
    BY <1>5 DEF LoseAnswer, MarkIn
  <2>2. UNCHANGED <<status, ok>>
    BY <1>5 DEF LoseAnswer, rowVars
  <2>3. \A s \in Relays : Held(s)' = Held(s)
    BY <1>0, <2>1, <2>2
  <2>4. ClaimsExclusive'
    <3> HIDE DEF Held
    <3> QED BY <1>0, <2>2, <2>3
  <2> QED BY <1>0, <2>1, <2>2, <2>4
<1>6. ASSUME NEW r \in Relays, CommitPass(r) PROVE ClaimInv'
  <2>1. Held(r)' = {} /\ \A s \in Relays \ {r} : Held(s)' = Held(s)
    BY <1>0, <1>6 DEF CommitPass, EndPass
  <2>2. \A i \in Rows : i \notin Held(r) => status'[i] = status[i]
    BY <1>6 DEF CommitPass
  <2>3. \A s \in Relays : Held(s) \subseteq Rows
    BY <1>0
  <2>4. ClaimsExclusive'
    <3> HIDE DEF Held
    <3> QED BY <1>0, <2>1, <2>2, <2>3
  <2> QED BY <1>0, <1>6, <2>4 DEF CommitPass, EndPass
<1>7. ASSUME NEW r \in Relays, Kill(r) PROVE ClaimInv'
  BY <1>0, <1>7 DEF Kill, EndPass, rowVars
<1>8. ASSUME NEW c \in Conns, Land(c) PROVE ClaimInv'
  <2>1. CASE \A r \in Relays : await[r] # c
    BY <1>0, <1>8, <2>1 DEF Land, Answer, rowVars
  <2>2. ASSUME NEW r \in Relays, NEW i \in todo[r],
               todo' = [todo EXCEPT ![r] = @ \ {i}], ok' = [ok EXCEPT ![r] = @ \cup {i}]
        PROVE  ClaimInv'
    <3>1. UNCHANGED <<status, bad>>
      BY <1>8 DEF Land, rowVars
    <3>2. \A s \in Relays : Held(s)' = Held(s)
      BY <1>0, <2>2, <3>1
    <3>3. ClaimsExclusive'
      <4> HIDE DEF Held
      <4> QED BY <1>0, <3>1, <3>2
    <3> QED BY <1>0, <2>2, <3>1, <3>3
  <2> QED BY <1>8, <2>1, <2>2 DEF Land, Answer, MarkIn
<1>9. ASSUME NEW c \in Conns, Abort(c) PROVE ClaimInv'
  <2>1. CASE \A r \in Relays : await[r] # c
    BY <1>0, <1>9, <2>1 DEF Abort, Answer, rowVars
  <2>2. ASSUME NEW r \in Relays, NEW i \in todo[r],
               todo' = [todo EXCEPT ![r] = @ \ {i}], bad' = [bad EXCEPT ![r] = @ \cup {i}]
        PROVE  ClaimInv'
    <3>1. UNCHANGED <<status, ok>>
      BY <1>9 DEF Abort, rowVars
    <3>2. \A s \in Relays : Held(s)' = Held(s)
      BY <1>0, <2>2, <3>1
    <3>3. ClaimsExclusive'
      <4> HIDE DEF Held
      <4> QED BY <1>0, <3>1, <3>2
    <3> QED BY <1>0, <2>2, <3>1, <3>3
  <2> QED BY <1>9, <2>1, <2>2 DEF Abort, Answer, MarkIn
<1>10. ASSUME NEW p \in Products, PurgeLetter(p) PROVE Frame
  BY <1>10 DEF PurgeLetter, rowVars, relayVars
<1>11. ASSUME NEW r \in Relays, NEW c \in Conns, BeginApply(r, c) PROVE Frame
  BY <1>11 DEF BeginApply, rowVars
<1>12. ASSUME NEW p \in Products, NEW c \in Conns, Rebuild(p, c) PROVE Frame
  BY <1>12 DEF Rebuild, rowVars, relayVars
<1>13. ASSUME UNCHANGED vars PROVE Frame
  BY <1>13 DEF vars, rowVars, relayVars
<1>14. ASSUME NEW r \in Relays, WriteLetter(r) PROVE Frame
  BY <1>14 DEF WriteLetter, rowVars
<1> QED
  <2> HIDE DEF ClaimInv
  <2> QED BY <1>1, <1>2, <1>3, <1>4, <1>5, <1>6, <1>7, <1>8, <1>9, <1>10, <1>11, <1>12, <1>13,
             <1>14 DEF Next
-----------------------------------------------------------------------------
\* Every write of a product keeps an event of its own, numbered by the write:
\* the event is visible in the commit that makes the write visible.
LEMMA EventStep == IInv /\ [Next]_vars => EventInv'
<1> SUFFICES ASSUME IInv, [Next]_vars PROVE EventInv'
  OBVIOUS
<1> DEFINE Frame == UNCHANGED <<nextRow, status, aggregate, covers, ver>>
<1>0. /\ EventInv
      /\ ver \in [Products -> Nat] /\ nextRow \in Nat \ {0} /\ nextRow <= MaxRows + 1
      /\ status \in [Rows -> Statuses] /\ covers \in [Rows -> Nat]
      /\ aggregate \in [Rows -> Products \cup {None}]
      /\ \A i \in Rows : status[i] # "free" => aggregate[i] \in Products
      /\ Rows \subseteq Nat
  BY DEF IInv, TypeOK, Rows
<1>1. CASE Frame
  BY <1>0, <1>1 DEF EventInv, Committed
<1>2. ASSUME NEW p \in Products, InsertEvent(p) PROVE EventInv'
  <2>1. /\ nextRow \in Rows /\ status[nextRow] = "free" /\ nextRow' = nextRow + 1
        /\ status' = [status EXCEPT ![nextRow] = "open"]
        /\ aggregate' = [aggregate EXCEPT ![nextRow] = p]
        /\ UNCHANGED <<covers, ver>>
    BY <1>0, <1>2 DEF InsertEvent, EventInv, Rows
  <2>2. \A i \in Rows : i >= nextRow' => status'[i] = "free"
    BY <1>0, <2>1 DEF EventInv
  <2>3. \A i \in Rows : /\ Committed(i)' <=> Committed(i)
                        /\ Committed(i) => aggregate'[i] = aggregate[i]
    BY <1>0, <2>1 DEF Committed
  <2> HIDE DEF Committed
  <2>4. \A i \in Rows : Committed(i)' => covers'[i] <= ver'[aggregate'[i]]
    BY <1>0, <2>1, <2>3 DEF EventInv
  <2>5. \A q \in Products : ver'[q] > 0 =>
          \E i \in Rows : Committed(i)' /\ aggregate'[i] = q /\ covers'[i] = ver'[q]
    BY <1>0, <2>1, <2>3 DEF EventInv
  <2> QED BY <1>0, <2>1, <2>2, <2>3, <2>4, <2>5 DEF EventInv
<1>3. ASSUME NEW i \in Rows, CommitWrite(i) PROVE EventInv'
  <2> DEFINE p == aggregate[i]
  <2>1. /\ p \in Products /\ ~Committed(i) /\ status[i] # "free"
        /\ status' = [status EXCEPT ![i] = "pending"]
        /\ ver' = [ver EXCEPT ![p] = ver[p] + 1]
        /\ covers' = [covers EXCEPT ![i] = ver[p] + 1]
        /\ UNCHANGED <<nextRow, aggregate>>
    BY <1>0, <1>3 DEF CommitWrite, Committed
  <2>2. \A j \in Rows : Committed(j)' <=> (j = i \/ Committed(j))
    BY <1>0, <2>1 DEF Committed
  <2>3. \A j \in Rows : Committed(j) => aggregate[j] \in Products /\ j # i
    BY <1>0, <2>1 DEF Committed
  <2> HIDE DEF Committed
  <2>4. \A j \in Rows : j >= nextRow' => status'[j] = "free"
    BY <1>0, <2>1 DEF EventInv
  <2>5. \A j \in Rows : Committed(j)' => covers'[j] <= ver'[aggregate'[j]]
    BY <1>0, <2>1, <2>2, <2>3 DEF EventInv
  <2>6. \A j, k \in Rows : Committed(j)' /\ Committed(k)' /\ aggregate'[j] = aggregate'[k]
                             /\ covers'[j] = covers'[k] => j = k
    BY <1>0, <2>1, <2>2, <2>3 DEF EventInv
  <2>7. \A q \in Products : ver'[q] > 0 =>
          \E j \in Rows : Committed(j)' /\ aggregate'[j] = q /\ covers'[j] = ver'[q]
    <3> SUFFICES ASSUME NEW q \in Products, ver'[q] > 0
                 PROVE \E j \in Rows : Committed(j)' /\ aggregate'[j] = q /\ covers'[j] = ver'[q]
      OBVIOUS
    <3>1. CASE q = p
      BY <1>0, <2>1, <2>2, <3>1
    <3>2. CASE q # p
      BY <1>0, <2>1, <2>2, <2>3, <3>2 DEF EventInv
    <3> QED BY <3>1, <3>2
  <2> QED BY <2>4, <2>5, <2>6, <2>7 DEF EventInv
<1>4. ASSUME NEW i \in Rows, RollbackWrite(i) PROVE EventInv'
  <2>1. /\ status[i] = "open" /\ status' = [status EXCEPT ![i] = "aborted"]
        /\ UNCHANGED <<nextRow, aggregate, covers, ver>>
    BY <1>4 DEF RollbackWrite
  <2>2. \A j \in Rows : Committed(j)' <=> Committed(j)
    BY <1>0, <2>1 DEF Committed
  <2>3. \A j \in Rows : j >= nextRow' => status'[j] = "free"
    BY <1>0, <2>1 DEF EventInv
  <2> HIDE DEF Committed
  <2> QED BY <1>0, <2>1, <2>2, <2>3 DEF EventInv
<1>5. ASSUME NEW r \in Relays, CommitPass(r) PROVE EventInv'
  <2>1. UNCHANGED <<nextRow, aggregate, covers, ver>>
    BY <1>5 DEF CommitPass
  <2>2. \A j \in ok[r] \cup bad[r] : Committed(j)
    BY DEF IInv, ClaimInv, ClaimsExclusive, Held, Committed
  <2>3. \A j \in Rows : (Committed(j)' <=> Committed(j))
                        /\ (status[j] = "free" => status'[j] = "free")
    BY <1>5, <2>2 DEF CommitPass, Committed
  <2> HIDE DEF Committed
  <2> QED BY <1>0, <2>1, <2>3 DEF EventInv
<1>6. ASSUME NEW p \in Products, PurgeLetter(p) PROVE Frame
  BY <1>6 DEF PurgeLetter, rowVars
<1>7. ASSUME NEW r \in Relays, Claim(r) \/ LoseAnswer(r) \/ WriteLetter(r) \/ Kill(r) PROVE Frame
  BY <1>7 DEF Claim, LoseAnswer, WriteLetter, Kill, rowVars
<1>8. ASSUME NEW c \in Conns, Land(c) \/ Abort(c) PROVE Frame
  BY <1>8 DEF Land, Abort, rowVars
<1>9. ASSUME NEW r \in Relays, NEW c \in Conns, BeginApply(r, c) PROVE Frame
  BY <1>9 DEF BeginApply, rowVars
<1>10. ASSUME NEW p \in Products, NEW c \in Conns, Rebuild(p, c) PROVE Frame
  BY <1>10 DEF Rebuild, rowVars
<1>11. ASSUME UNCHANGED vars PROVE Frame
  BY <1>11 DEF vars, rowVars
<1> QED
  BY <1>1, <1>2, <1>3, <1>4, <1>5, <1>6, <1>7, <1>8, <1>9, <1>10, <1>11 DEF Next
-----------------------------------------------------------------------------
\* What an answered statement does to the pass that awaited it, if any: its
\* current row goes to the marked rows, and its snapshot had seen that row.
LEMMA AnswerOk ==
  ASSUME IInv, NEW c \in Conns, Land(c)
  PROVE  /\ target[c] \in Products
         /\ target' = [target EXCEPT ![c] = None] /\ UNCHANGED <<snap, ver, covers, aggregate>>
         /\ \/ (\A r \in Relays : await[r] # c) /\ UNCHANGED <<todo, ok, await>>
            \/ \E r \in Relays : \E i \in todo[r] :
                 /\ await[r] = c /\ target[c] = aggregate[i] /\ snap[c] >= covers[i]
                 /\ \A s \in Relays \ {r} : await[s] # c
                 /\ todo' = [todo EXCEPT ![r] = @ \ {i}]
                 /\ ok' = [ok EXCEPT ![r] = @ \cup {i}]
                 /\ await' = [await EXCEPT ![r] = None]
<1>1. target[c] \in Products /\ UNCHANGED <<snap, ver, covers, aggregate>>
  BY DEF IInv, TypeOK, Land, rowVars
<1>2. target' = [target EXCEPT ![c] = None]
  BY DEF Land
<1>3. CASE \A r \in Relays : await[r] # c
  BY <1>1, <1>2, <1>3 DEF Land, Answer
<1>4. ASSUME NEW r \in Relays, await[r] = c, MarkIn(ok, r), await' = [await EXCEPT ![r] = None]
      PROVE  \E i \in todo[r] :
                 /\ await[r] = c /\ target[c] = aggregate[i] /\ snap[c] >= covers[i]
                 /\ \A s \in Relays \ {r} : await[s] # c
                 /\ todo' = [todo EXCEPT ![r] = @ \ {i}]
                 /\ ok' = [ok EXCEPT ![r] = @ \cup {i}]
                 /\ await' = [await EXCEPT ![r] = None]
  <2>1. PICK i \in todo[r] : /\ Current(r, i)
                             /\ todo' = [todo EXCEPT ![r] = @ \ {i}]
                             /\ ok' = [ok EXCEPT ![r] = @ \cup {i}]
    BY <1>4 DEF MarkIn
  <2>2. PICK j \in todo[r] : /\ Current(r, j) /\ target[c] = aggregate[j]
                             /\ snap[c] >= covers[j]
    BY <1>4, NoneAssumption DEF IInv, StatementInv
  <2>3. i = j
    BY <2>1, <2>2 DEF Current, IInv, TypeOK, Rows
  <2>4. \A s \in Relays \ {r} : await[s] # c
    BY <1>4, NoneAssumption DEF IInv, StatementInv
  <2> QED BY <1>4, <2>1, <2>2, <2>3, <2>4
<1> QED BY <1>1, <1>2, <1>3, <1>4 DEF Land, Answer

\* The same for a statement that failed.
LEMMA AnswerBad ==
  ASSUME IInv, NEW c \in Conns, Abort(c)
  PROVE  /\ target' = [target EXCEPT ![c] = None] /\ UNCHANGED <<snap, ver, covers, aggregate>>
         /\ \/ (\A r \in Relays : await[r] # c) /\ UNCHANGED <<todo, bad, await>>
            \/ \E r \in Relays : \E i \in todo[r] :
                 /\ \A s \in Relays \ {r} : await[s] # c
                 /\ todo' = [todo EXCEPT ![r] = @ \ {i}]
                 /\ bad' = [bad EXCEPT ![r] = @ \cup {i}]
                 /\ await' = [await EXCEPT ![r] = None]
<1>1. target' = [target EXCEPT ![c] = None] /\ UNCHANGED <<snap, ver, covers, aggregate>>
  BY DEF Abort, rowVars
<1>2. CASE \A r \in Relays : await[r] # c
  BY <1>1, <1>2 DEF Abort, Answer
<1>3. ASSUME NEW r \in Relays, await[r] = c, MarkIn(bad, r), await' = [await EXCEPT ![r] = None]
      PROVE  \E i \in todo[r] :
                 /\ \A s \in Relays \ {r} : await[s] # c
                 /\ todo' = [todo EXCEPT ![r] = @ \ {i}]
                 /\ bad' = [bad EXCEPT ![r] = @ \cup {i}]
                 /\ await' = [await EXCEPT ![r] = None]
  <2>1. \A s \in Relays \ {r} : await[s] # c
    BY <1>3, NoneAssumption DEF IInv, StatementInv
  <2> QED BY <1>3, <2>1 DEF MarkIn
<1> QED BY <1>1, <1>2, <1>3 DEF Abort, Answer
-----------------------------------------------------------------------------
\* A pass awaits a statement begun after its row's write committed: the row was
\* claimed first, so the statement's snapshot holds that write.
LEMMA StatementStep == IInv /\ [Next]_vars => StatementInv'
<1> SUFFICES ASSUME IInv, [Next]_vars PROVE StatementInv'
  OBVIOUS
<1> DEFINE Frame == UNCHANGED <<best, ver, target, snap, await, todo, aggregate, covers>>
<1>0. /\ StatementInv /\ None \notin Conns /\ None \notin Products
      /\ ver \in [Products -> Nat] /\ best \in [Products -> Nat]
      /\ covers \in [Rows -> Nat] /\ aggregate \in [Rows -> Products \cup {None}]
      /\ todo \in [Relays -> SUBSET Rows] /\ await \in [Relays -> Conns \cup {None}]
      /\ target \in [Conns -> Products \cup {None}] /\ snap \in [Conns -> Nat]
      /\ Rows \subseteq Nat
  BY NoneAssumption DEF IInv, TypeOK, Rows
<1>01. \A r \in Relays : \A i \in todo[r] : status[i] = "pending" /\ aggregate[i] \in Products
  BY DEF IInv, TypeOK, ClaimInv, ClaimsExclusive, Held
<1>02. \A r \in Relays : \A i \in todo[r] : covers[i] <= ver[aggregate[i]]
  BY <1>0, <1>01 DEF IInv, EventInv, Committed
<1>1. CASE Frame
  BY <1>0, <1>1 DEF StatementInv, Current
<1>2. ASSUME NEW p \in Products, InsertEvent(p) PROVE StatementInv'
  <2>1. /\ aggregate' = [aggregate EXCEPT ![nextRow] = p]
        /\ UNCHANGED <<best, ver, target, snap, await, todo, covers>>
    BY <1>2 DEF InsertEvent, relayVars, stmtVars
  <2>2. \A r \in Relays : \A i \in todo[r] : aggregate'[i] = aggregate[i]
    BY <1>0, <1>01, <2>1 DEF IInv, EventInv, TypeOK
  <2> QED BY <1>0, <2>1, <2>2 DEF StatementInv, Current
<1>3. ASSUME NEW i \in Rows, CommitWrite(i) \/ RollbackWrite(i) PROVE StatementInv'
  <2>1. UNCHANGED <<best, target, snap, await, todo, aggregate>>
    BY <1>3 DEF CommitWrite, RollbackWrite, relayVars, stmtVars
  <2>2. \A r \in Relays : \A j \in todo[r] : covers'[j] = covers[j]
    BY <1>0, <1>01, <1>3 DEF CommitWrite, RollbackWrite
  <2>3. ver' \in [Products -> Nat] /\ \A p \in Products : ver'[p] >= ver[p]
    BY <1>0, <1>3 DEF CommitWrite, RollbackWrite
  <2>4. \A p \in Products : best'[p] <= ver'[p]
    BY <1>0, <2>1, <2>3 DEF StatementInv
  <2>5. \A c \in Conns : target'[c] # None => snap'[c] <= ver'[target'[c]]
    BY <1>0, <2>1, <2>3 DEF StatementInv
  <2> QED BY <1>0, <2>1, <2>2, <2>4, <2>5 DEF StatementInv, Current
<1>4. ASSUME NEW r \in Relays, Claim(r) PROVE StatementInv'
  <2>1. /\ UNCHANGED <<best, ver, target, snap, await, aggregate, covers>>
        /\ \A s \in Relays \ {r} : todo'[s] = todo[s]
    BY <1>0, <1>4 DEF Claim, rowVars, stmtVars
  <2>2. await[r] = None
    BY <1>0, <1>4 DEF Claim, Held, StatementInv
  <2> QED BY <1>0, <2>1, <2>2 DEF StatementInv, Current
<1>5. ASSUME NEW r \in Relays, LoseAnswer(r) \/ Kill(r) PROVE StatementInv'
  <2>1. /\ UNCHANGED <<best, ver, target, snap, aggregate, covers>>
        /\ await' = [await EXCEPT ![r] = None]
        /\ \A s \in Relays \ {r} : todo'[s] = todo[s]
    BY <1>0, <1>5 DEF LoseAnswer, MarkIn, Kill, rowVars, stmtVars
  <2> QED BY <1>0, <2>1 DEF StatementInv, Current
<1>6. ASSUME NEW c \in Conns, Land(c) PROVE StatementInv'
  <2>1. /\ best' = [best EXCEPT ![target[c]] = IF snap[c] > @ THEN snap[c] ELSE @]
        /\ target[c] # None
    BY <1>6 DEF Land
  <2>2. target[c] \in Products /\ target' = [target EXCEPT ![c] = None]
        /\ UNCHANGED <<snap, ver, covers, aggregate>>
    BY <1>6, AnswerOk
  <2>3. \A p \in Products : best'[p] <= ver'[p]
    BY <1>0, <2>1, <2>2 DEF StatementInv
  <2>4. \A d \in Conns : target'[d] # None => snap'[d] <= ver'[target'[d]]
    BY <1>0, <2>2 DEF StatementInv
  <2>5. CASE (\A r \in Relays : await[r] # c) /\ UNCHANGED <<todo, await>>
    BY <1>0, <2>2, <2>3, <2>4, <2>5 DEF StatementInv, Current
  <2>6. ASSUME NEW r \in Relays, \A s \in Relays \ {r} : await[s] # c,
               \A s \in Relays \ {r} : todo'[s] = todo[s],
               await' = [await EXCEPT ![r] = None]
        PROVE  StatementInv'
    <3>1. ASSUME NEW s \in Relays, await'[s] # None
          PROVE  /\ target'[await'[s]] # None
                 /\ \E j \in todo'[s] : /\ Current(s, j)' /\ target'[await'[s]] = aggregate'[j]
                                        /\ snap'[await'[s]] >= covers'[j]
      <4>1. /\ s # r /\ await[s] # c /\ todo'[s] = todo[s]
            /\ await'[s] = await[s] /\ await[s] \in Conns
        BY <1>0, <3>1, <2>6
      <4>2. target'[await[s]] = target[await[s]] /\ UNCHANGED <<snap, aggregate, covers>>
        BY <1>0, <4>1, <2>2
      <4>3. target[await[s]] # None
        BY <1>0, <3>1, <4>1 DEF StatementInv
      <4>4. PICK j \in todo[s] : /\ Current(s, j) /\ target[await[s]] = aggregate[j]
                                 /\ snap[await[s]] >= covers[j]
        BY <1>0, <3>1, <4>1 DEF StatementInv
      <4>5. /\ j \in todo'[s] /\ Current(s, j)' /\ target'[await'[s]] = aggregate'[j]
            /\ snap'[await'[s]] >= covers'[j]
        BY <1>0, <4>1, <4>2, <4>4 DEF Current
      <4> QED BY <4>1, <4>2, <4>3, <4>5
    <3>2. \A s, t \in Relays : await'[s] # None /\ await'[s] = await'[t] => s = t
      BY <1>0, <2>6 DEF StatementInv
    <3> QED BY <2>3, <2>4, <3>1, <3>2 DEF StatementInv
  <2> QED BY <1>0, <1>6, <2>5, <2>6, AnswerOk
<1>7. ASSUME NEW c \in Conns, Abort(c) PROVE StatementInv'
  <2>1. UNCHANGED <<best, snap, ver, covers, aggregate>>
        /\ target' = [target EXCEPT ![c] = None]
    BY <1>7, AnswerBad DEF Abort
  <2>2. \A d \in Conns : target'[d] # None => snap'[d] <= ver'[target'[d]]
    BY <1>0, <2>1 DEF StatementInv
  <2>3. CASE (\A r \in Relays : await[r] # c) /\ UNCHANGED <<todo, await>>
    BY <1>0, <2>1, <2>2, <2>3 DEF StatementInv, Current
  <2>4. ASSUME NEW r \in Relays, \A s \in Relays \ {r} : await[s] # c,
               \A s \in Relays \ {r} : todo'[s] = todo[s],
               await' = [await EXCEPT ![r] = None]
        PROVE  StatementInv'
    <3>1. ASSUME NEW s \in Relays, await'[s] # None
          PROVE  /\ target'[await'[s]] # None
                 /\ \E j \in todo'[s] : /\ Current(s, j)' /\ target'[await'[s]] = aggregate'[j]
                                        /\ snap'[await'[s]] >= covers'[j]
      <4>1. /\ s # r /\ await[s] # c /\ todo'[s] = todo[s]
            /\ await'[s] = await[s] /\ await[s] \in Conns
        BY <1>0, <3>1, <2>4
      <4>2. target'[await[s]] = target[await[s]] /\ UNCHANGED <<snap, aggregate, covers>>
        BY <1>0, <4>1, <2>1
      <4>3. target[await[s]] # None
        BY <1>0, <3>1, <4>1 DEF StatementInv
      <4>4. PICK j \in todo[s] : /\ Current(s, j) /\ target[await[s]] = aggregate[j]
                                 /\ snap[await[s]] >= covers[j]
        BY <1>0, <3>1, <4>1 DEF StatementInv
      <4>5. /\ j \in todo'[s] /\ Current(s, j)' /\ target'[await'[s]] = aggregate'[j]
            /\ snap'[await'[s]] >= covers'[j]
        BY <1>0, <4>1, <4>2, <4>4 DEF Current
      <4> QED BY <4>1, <4>2, <4>3, <4>5
    <3>2. \A s, t \in Relays : await'[s] # None /\ await'[s] = await'[t] => s = t
      BY <1>0, <2>4 DEF StatementInv
    <3>3. \A p \in Products : best'[p] <= ver'[p]
      BY <1>0, <2>1 DEF StatementInv
    <3> QED BY <2>2, <3>1, <3>2, <3>3 DEF StatementInv
  <2> QED BY <1>0, <1>7, <2>3, <2>4, AnswerBad
<1>8. ASSUME NEW p \in Products, NEW c \in Conns, BeginStatement(p, c),
             UNCHANGED <<best, ver, covers, aggregate, todo>>
      PROVE  /\ target' = [target EXCEPT ![c] = p] /\ snap' = [snap EXCEPT ![c] = ver[p]]
             /\ \A r \in Relays : await[r] # c
             /\ \A d \in Conns : target'[d] # None => snap'[d] <= ver'[target'[d]]
  <2>1. target' = [target EXCEPT ![c] = p] /\ snap' = [snap EXCEPT ![c] = ver[p]]
    BY <1>8 DEF BeginStatement
  <2>2. \A r \in Relays : await[r] # c
    BY <1>0, <1>8 DEF BeginStatement, StatementInv
  <2>3. \A d \in Conns : target'[d] # None => snap'[d] <= ver'[target'[d]]
    BY <1>0, <1>8, <2>1 DEF StatementInv
  <2> QED BY <2>1, <2>2, <2>3
<1>9. ASSUME NEW r \in Relays, NEW c \in Conns, BeginApply(r, c) PROVE StatementInv'
  <2>1. PICK i \in todo[r] : Current(r, i) /\ BeginStatement(aggregate[i], c)
    BY <1>9 DEF BeginApply
  <2>2. /\ await' = [await EXCEPT ![r] = c] /\ await[r] = None
        /\ UNCHANGED <<best, ver, covers, aggregate, todo>>
    BY <1>9 DEF BeginApply, rowVars
  <2>3. /\ target' = [target EXCEPT ![c] = aggregate[i]]
        /\ snap' = [snap EXCEPT ![c] = ver[aggregate[i]]]
        /\ \A s \in Relays : await[s] # c
        /\ \A d \in Conns : target'[d] # None => snap'[d] <= ver'[target'[d]]
    BY <1>01, <1>8, <2>1, <2>2
  <2>4. aggregate[i] \in Products /\ snap'[c] >= covers[i]
    BY <1>0, <1>01, <1>02, <2>3
  <2>5. \A s \in Relays : await'[s] # None =>
          /\ target'[await'[s]] # None
          /\ \E j \in todo'[s] : /\ Current(s, j)' /\ target'[await'[s]] = aggregate'[j]
                                 /\ snap'[await'[s]] >= covers'[j]
    BY <1>0, <2>1, <2>2, <2>3, <2>4 DEF StatementInv, Current
  <2>6. \A s, t \in Relays : await'[s] # None /\ await'[s] = await'[t] => s = t
    BY <1>0, <2>2, <2>3 DEF StatementInv
  <2> QED BY <1>0, <2>2, <2>3, <2>5, <2>6 DEF StatementInv
<1>10. ASSUME NEW p \in Products, NEW c \in Conns, Rebuild(p, c) PROVE StatementInv'
  <2>1. UNCHANGED <<best, ver, covers, aggregate, todo, await>> /\ BeginStatement(p, c)
    BY <1>10 DEF Rebuild, rowVars, relayVars
  <2>2. /\ target' = [target EXCEPT ![c] = p] /\ snap' = [snap EXCEPT ![c] = ver[p]]
        /\ \A r \in Relays : await[r] # c
        /\ \A d \in Conns : target'[d] # None => snap'[d] <= ver'[target'[d]]
    BY <1>8, <2>1
  <2> QED BY <1>0, <2>1, <2>2 DEF StatementInv, Current
<1>11. ASSUME NEW p \in Products, PurgeLetter(p) PROVE Frame
  BY <1>11 DEF PurgeLetter, rowVars, relayVars, stmtVars
<1>12. ASSUME NEW r \in Relays, WriteLetter(r) \/ CommitPass(r) PROVE Frame
  BY <1>12 DEF WriteLetter, CommitPass, rowVars, stmtVars
<1>13. ASSUME UNCHANGED vars PROVE Frame
  BY <1>13 DEF vars, rowVars, relayVars, stmtVars
<1> QED
  BY <1>1, <1>2, <1>3, <1>4, <1>5, <1>6, <1>7, <1>9, <1>10, <1>11, <1>12, <1>13 DEF Next
-----------------------------------------------------------------------------
\* A row is marked only by the answer of its own statement, which had seen its
\* write; a kill drops the marks, so nothing is marked without an application.
LEMMA AppliedStep == IInv /\ [Next]_vars => AppliedInv'
<1> SUFFICES ASSUME IInv, [Next]_vars PROVE AppliedInv'
  OBVIOUS
<1> USE DEF AppliedInv, AppliedAtLeastOnce
<1> DEFINE Frame == UNCHANGED <<status, aggregate, covers, best, ok>>
<1>0. /\ AppliedInv
      /\ best \in [Products -> Nat] /\ covers \in [Rows -> Nat]
      /\ aggregate \in [Rows -> Products \cup {None}] /\ status \in [Rows -> Statuses]
      /\ ok \in [Relays -> SUBSET Rows] /\ todo \in [Relays -> SUBSET Rows]
      /\ \A i \in Rows : status[i] # "free" => aggregate[i] \in Products
  BY DEF IInv, TypeOK
<1>01. \A r \in Relays : \A i \in ok[r] \cup todo[r] \cup bad[r] : status[i] = "pending"
  BY DEF IInv, ClaimInv, ClaimsExclusive, Held
<1>1. CASE Frame
  BY <1>0, <1>1
<1>2. ASSUME NEW p \in Products, InsertEvent(p) PROVE AppliedInv'
  <2>1. /\ aggregate' = [aggregate EXCEPT ![nextRow] = p]
        /\ status' = [status EXCEPT ![nextRow] = "open"]
        /\ UNCHANGED <<covers, best, ok>>
    BY <1>2 DEF InsertEvent, relayVars
  <2>2. nextRow \in Rows => status[nextRow] = "free"
    BY DEF IInv, EventInv, TypeOK, Rows
  <2> QED BY <1>0, <1>01, <2>1, <2>2
<1>3. ASSUME NEW i \in Rows, CommitWrite(i) \/ RollbackWrite(i) PROVE AppliedInv'
  <2>1. /\ status[i] = "open" /\ UNCHANGED <<aggregate, best, ok>>
        /\ status'[i] # "processed"
        /\ \A j \in Rows \ {i} : status'[j] = status[j] /\ covers'[j] = covers[j]
    BY <1>0, <1>3 DEF CommitWrite, RollbackWrite, relayVars
  <2> QED BY <1>0, <1>01, <2>1
<1>4. ASSUME NEW r \in Relays, CommitPass(r) PROVE AppliedInv'
  <2>1. /\ UNCHANGED <<aggregate, covers, best>>
        /\ ok' = [ok EXCEPT ![r] = {}]
        /\ \A i \in Rows : status'[i] = "processed" => i \in ok[r] \/ status[i] = "processed"
    BY <1>4 DEF CommitPass, EndPass
  <2> QED BY <1>0, <2>1
<1>5. ASSUME NEW r \in Relays, Kill(r) PROVE AppliedInv'
  <2>1. UNCHANGED <<status, aggregate, covers, best>> /\ ok' = [ok EXCEPT ![r] = {}]
    BY <1>5 DEF Kill, EndPass, rowVars
  <2> QED BY <1>0, <2>1
<1>6. ASSUME NEW c \in Conns, Land(c) PROVE AppliedInv'
  <2>1. /\ best' = [best EXCEPT ![target[c]] = IF snap[c] > @ THEN snap[c] ELSE @]
        /\ target[c] \in Products /\ snap[c] \in Nat /\ UNCHANGED <<status, aggregate, covers>>
    BY <1>6, AnswerOk DEF Land, rowVars, IInv, TypeOK
  <2>2. /\ \A p \in Products : best'[p] >= best[p]
        /\ best'[target[c]] >= snap[c] /\ best' \in [Products -> Nat]
    BY <1>0, <2>1
  <2>3. AppliedAtLeastOnce'
    BY <1>0, <2>1, <2>2
  <2>4. \A r \in Relays : \A i \in ok[r] : best'[aggregate[i]] >= covers[i]
    BY <1>0, <1>01, <2>2
  <2>5. CASE ok' = ok
    BY <2>1, <2>3, <2>4, <2>5
  <2>6. ASSUME NEW r \in Relays, NEW i \in todo[r],
               target[c] = aggregate[i], snap[c] >= covers[i],
               ok' = [ok EXCEPT ![r] = @ \cup {i}]
        PROVE  AppliedInv'
    <3>1. best'[aggregate[i]] >= covers[i]
      BY <1>0, <2>1, <2>2, <2>6
    <3> QED BY <1>0, <2>1, <2>3, <2>4, <2>6, <3>1
  <2> QED BY <1>6, <2>5, <2>6, AnswerOk
<1>7. ASSUME NEW r \in Relays, Claim(r) \/ LoseAnswer(r) \/ WriteLetter(r) PROVE Frame
  BY <1>7 DEF Claim, LoseAnswer, WriteLetter, rowVars
<1>8. ASSUME NEW c \in Conns, Abort(c) PROVE Frame
  BY <1>8 DEF Abort, rowVars
<1>9. ASSUME NEW r \in Relays, NEW c \in Conns, BeginApply(r, c) PROVE Frame
  BY <1>9 DEF BeginApply, rowVars
<1>10. ASSUME NEW p \in Products, NEW c \in Conns, Rebuild(p, c) PROVE Frame
  BY <1>10 DEF Rebuild, rowVars, relayVars
<1>11. ASSUME NEW p \in Products, PurgeLetter(p) PROVE Frame
  BY <1>11 DEF PurgeLetter, rowVars, relayVars
<1>12. ASSUME UNCHANGED vars PROVE Frame
  BY <1>12 DEF vars, rowVars, relayVars
<1> QED
  <2> HIDE DEF AppliedInv
  <2> QED BY <1>1, <1>2, <1>3, <1>4, <1>5, <1>6, <1>7, <1>8, <1>9, <1>10, <1>11, <1>12 DEF Next

\* Without overlap the statement in flight for a product began after the last
\* one landed, so landing it moves the projection forward.
LEMMA FreshStep == IInv /\ [Next]_vars => FreshInv'
<1> SUFFICES ASSUME IInv, [Next]_vars PROVE FreshInv'
  OBVIOUS
<1> DEFINE Frame == UNCHANGED <<best, rating, target, snap, overlapped>>
<1>0. /\ FreshInv /\ None \notin Products
      /\ ver \in [Products -> Nat] /\ best \in [Products -> Nat] /\ rating \in [Products -> Nat]
      /\ target \in [Conns -> Products \cup {None}] /\ snap \in [Conns -> Nat]
      /\ \A p \in Products : best[p] <= ver[p]
  BY NoneAssumption DEF IInv, TypeOK, StatementInv
<1>1. CASE Frame
  BY <1>0, <1>1 DEF FreshInv
<1>2. ASSUME NEW c \in Conns, Land(c) PROVE FreshInv'
  <2>1. /\ best' = [best EXCEPT ![target[c]] = IF snap[c] > @ THEN snap[c] ELSE @]
        /\ rating' = [rating EXCEPT ![target[c]] = snap[c]]
        /\ target' = [target EXCEPT ![c] = None] /\ target[c] \in Products
        /\ UNCHANGED <<overlapped, snap>>
    BY <1>2, AnswerOk DEF Land
  <2>2. ASSUME NEW p \in Products \ overlapped, p # target[c]
        PROVE  /\ best'[p] = rating'[p]
               /\ \A d \in Conns : target'[d] = p => snap'[d] >= best'[p]
               /\ \A d, e \in Conns : target'[d] = p /\ target'[e] = p => d = e
    BY <1>0, <2>1, <2>2 DEF FreshInv
  <2>3. ASSUME NEW p \in Products \ overlapped, p = target[c]
        PROVE  /\ best'[p] = rating'[p]
               /\ \A d \in Conns : target'[d] # p
    BY <1>0, <2>1, <2>3 DEF FreshInv
  <2> QED BY <2>1, <2>2, <2>3 DEF FreshInv
<1>3. ASSUME NEW c \in Conns, Abort(c) PROVE FreshInv'
  <2>1. /\ target' = [target EXCEPT ![c] = None]
        /\ UNCHANGED <<best, rating, snap, overlapped>>
    BY <1>3 DEF Abort
  <2> QED BY <1>0, <2>1 DEF FreshInv
<1>4. ASSUME NEW p \in Products, NEW c \in Conns, BeginStatement(p, c),
             UNCHANGED <<best, rating>>
      PROVE  FreshInv'
  <2>1. /\ target' = [target EXCEPT ![c] = p] /\ snap' = [snap EXCEPT ![c] = ver[p]]
        /\ target[c] = None
        /\ overlapped' = overlapped \cup {q \in {p} : \E d \in Conns : target[d] = p}
    BY <1>4 DEF BeginStatement
  <2>2. ASSUME NEW q \in Products \ overlapped', q # p
        PROVE  /\ best'[q] = rating'[q]
               /\ \A d \in Conns : target'[d] = q => snap'[d] >= best'[q]
               /\ \A d, e \in Conns : target'[d] = q /\ target'[e] = q => d = e
    BY <1>0, <1>4, <2>1, <2>2 DEF FreshInv
  <2>3. ASSUME NEW q \in Products \ overlapped', q = p
        PROVE  /\ best'[q] = rating'[q]
               /\ \A d \in Conns : target'[d] = q => snap'[d] >= best'[q]
               /\ \A d, e \in Conns : target'[d] = q /\ target'[e] = q => d = e
    <3>1. q \notin overlapped /\ \A d \in Conns : target[d] # p
      BY <2>1, <2>3
    <3> QED BY <1>0, <1>4, <2>1, <2>3, <3>1 DEF FreshInv
  <2> QED BY <2>2, <2>3 DEF FreshInv
<1>5. ASSUME NEW r \in Relays, NEW c \in Conns, BeginApply(r, c) PROVE FreshInv'
  <2>1. PICK i \in todo[r] : BeginStatement(aggregate[i], c)
    BY <1>5 DEF BeginApply
  <2>2. aggregate[i] \in Products
    BY DEF IInv, TypeOK, ClaimInv, ClaimsExclusive, Held
  <2> QED BY <1>4, <1>5, <2>1, <2>2 DEF BeginApply
<1>6. ASSUME NEW p \in Products, NEW c \in Conns, Rebuild(p, c) PROVE FreshInv'
  BY <1>4, <1>6 DEF Rebuild
<1>7. ASSUME NEW p \in Products, InsertEvent(p) \/ PurgeLetter(p) PROVE Frame
  BY <1>7 DEF InsertEvent, PurgeLetter, stmtVars
<1>8. ASSUME NEW i \in Rows, CommitWrite(i) \/ RollbackWrite(i) PROVE Frame
  BY <1>8 DEF CommitWrite, RollbackWrite, stmtVars
<1>9. ASSUME NEW r \in Relays,
             Claim(r) \/ LoseAnswer(r) \/ WriteLetter(r) \/ CommitPass(r) \/ Kill(r)
      PROVE  Frame
  BY <1>9 DEF Claim, LoseAnswer, WriteLetter, CommitPass, Kill, stmtVars
<1>10. ASSUME UNCHANGED vars PROVE Frame
  BY <1>10 DEF vars, stmtVars
<1> QED
  BY <1>1, <1>2, <1>3, <1>5, <1>6, <1>7, <1>8, <1>9, <1>10 DEF Next

\* Attempts rise by one in the pass that failed the row, and the row is parked
\* by the rise that reaches the ceiling.
LEMMA AttemptStep == IInv /\ [Next]_vars => AttemptInv'
<1> SUFFICES ASSUME IInv, [Next]_vars PROVE AttemptInv'
  OBVIOUS
<1> DEFINE Frame == UNCHANGED <<status, attempts>>
<1>0. /\ AttemptInv /\ attempts \in [Rows -> Nat] /\ status \in [Rows -> Statuses]
      /\ MaxAttempts \in Nat \ {0}
  BY BoundsAssumption DEF IInv, TypeOK
<1>1. CASE Frame
  BY <1>0, <1>1 DEF AttemptInv, ParkedAtCeiling, Committed
<1>2. ASSUME NEW p \in Products, InsertEvent(p) PROVE AttemptInv'
  <2>1. status' = [status EXCEPT ![nextRow] = "open"] /\ UNCHANGED attempts
    BY <1>2 DEF InsertEvent
  <2>2. nextRow \in Rows => status[nextRow] = "free"
    BY DEF IInv, EventInv, TypeOK, Rows
  <2> QED BY <1>0, <2>1, <2>2 DEF AttemptInv, ParkedAtCeiling, Committed
<1>3. ASSUME NEW i \in Rows, CommitWrite(i) \/ RollbackWrite(i) PROVE AttemptInv'
  <2>1. /\ status[i] = "open" /\ UNCHANGED attempts /\ status'[i] # "dead"
        /\ \A j \in Rows \ {i} : status'[j] = status[j]
    BY <1>0, <1>3 DEF CommitWrite, RollbackWrite
  <2> QED BY <1>0, <2>1 DEF AttemptInv, ParkedAtCeiling, Committed
<1>4. ASSUME NEW r \in Relays, CommitPass(r) PROVE AttemptInv'
  <2>1. /\ ok[r] \cap bad[r] = {}
        /\ \A i \in ok[r] \cup bad[r] : i \in Rows /\ status[i] = "pending"
    BY DEF IInv, TypeOK, ClaimInv, ClaimsExclusive, Held
  <2>2. ASSUME NEW i \in Rows, i \in bad[r]
        PROVE  /\ attempts'[i] = attempts[i] + 1 /\ attempts[i] < MaxAttempts
               /\ status'[i] = IF Exhausted(i) THEN "dead" ELSE "pending"
    BY <1>0, <1>4, <2>1, <2>2 DEF CommitPass, AttemptInv, ParkedAtCeiling
  <2>3. ASSUME NEW i \in Rows, i \notin bad[r]
        PROVE  /\ attempts'[i] = attempts[i]
               /\ status'[i] = IF i \in ok[r] THEN "processed" ELSE status[i]
    BY <1>4, <2>3 DEF CommitPass
  <2>4. ASSUME NEW i \in Rows
        PROVE  /\ attempts'[i] <= MaxAttempts
               /\ status'[i] = "dead" <=> attempts'[i] = MaxAttempts
               /\ ~Committed(i)' => attempts'[i] = 0
    <3>1. CASE i \in bad[r]
      BY <1>0, <2>2, <3>1 DEF Exhausted, Committed
    <3>2. CASE i \notin bad[r]
      BY <1>0, <2>1, <2>3, <3>2 DEF AttemptInv, ParkedAtCeiling, Committed
    <3> QED BY <3>1, <3>2
  <2> QED BY <2>4 DEF AttemptInv, ParkedAtCeiling
<1>5. ASSUME NEW p \in Products, PurgeLetter(p) PROVE Frame
  BY <1>5 DEF PurgeLetter, rowVars
<1>6. ASSUME NEW r \in Relays, Claim(r) \/ LoseAnswer(r) \/ WriteLetter(r) \/ Kill(r) PROVE Frame
  BY <1>6 DEF Claim, LoseAnswer, WriteLetter, Kill, rowVars
<1>7. ASSUME NEW c \in Conns, Land(c) \/ Abort(c) PROVE Frame
  BY <1>7 DEF Land, Abort, rowVars
<1>8. ASSUME NEW r \in Relays, NEW c \in Conns, BeginApply(r, c) PROVE Frame
  BY <1>8 DEF BeginApply, rowVars
<1>9. ASSUME NEW p \in Products, NEW c \in Conns, Rebuild(p, c) PROVE Frame
  BY <1>9 DEF Rebuild, rowVars
<1>10. ASSUME UNCHANGED vars PROVE Frame
  BY <1>10 DEF vars, rowVars
<1> QED
  BY <1>1, <1>2, <1>3, <1>4, <1>5, <1>6, <1>7, <1>8, <1>9, <1>10 DEF Next
-----------------------------------------------------------------------------
\* A letter found or inserted by a pass stays until the pass ends, but for a purge.
LEMMA LetterStep == IInv /\ [Next]_vars => LetterInv'
<1> SUFFICES ASSUME IInv, [Next]_vars PROVE LetterInv'
  OBVIOUS
<1> DEFINE Frame == UNCHANGED <<aggregate, letters, filed, drafts, purged>>
<1>0. /\ LetterInv /\ status \in [Rows -> Statuses] /\ aggregate \in [Rows -> Products \cup {None}]
      /\ bad \in [Relays -> SUBSET Rows] /\ filed \in [Relays -> SUBSET Rows]
      /\ drafts \in [Relays -> SUBSET Products] /\ purged \in [Relays -> SUBSET Products]
      /\ \A r \in Relays : \A i \in bad[r] : status[i] = "pending"
  BY DEF IInv, TypeOK, ClaimInv, ClaimsExclusive, Held
<1>1. ASSUME Frame, \A r \in Relays : bad[r] \subseteq bad'[r] PROVE LetterInv'
  BY <1>0, <1>1 DEF LetterInv
<1>2. ASSUME NEW p \in Products, InsertEvent(p) PROVE LetterInv'
  <2>1. /\ aggregate' = [aggregate EXCEPT ![nextRow] = p]
        /\ UNCHANGED <<letters, bad, filed, drafts, purged>>
    BY <1>2 DEF InsertEvent, relayVars, letterVars
  <2>2. nextRow \in Rows => status[nextRow] = "free"
    BY DEF IInv, EventInv, TypeOK, Rows
  <2>3. \A r \in Relays : \A i \in filed[r] : aggregate'[i] = aggregate[i]
    BY <1>0, <2>1, <2>2 DEF LetterInv
  <2> QED BY <1>0, <2>1, <2>3 DEF LetterInv
<1>3. ASSUME NEW p \in Products, PurgeLetter(p) PROVE LetterInv'
  <2>1. /\ letters' = letters \ {p} /\ UNCHANGED <<aggregate, bad, filed, drafts>>
        /\ purged' = [r \in Relays |-> purged[r] \cup ({p} \cap {aggregate[i] : i \in filed[r]})]
    BY <1>3 DEF PurgeLetter, rowVars
  <2>2. ASSUME NEW r \in Relays, NEW i \in filed[r]
        PROVE  aggregate[i] \in drafts[r] \cup letters' \cup purged'[r]
    <3>1. aggregate[i] \in drafts[r] \cup letters \cup purged[r]
      BY <1>0 DEF LetterInv
    <3> QED BY <2>1, <3>1
  <2> QED BY <1>0, <2>1, <2>2 DEF LetterInv
<1>4. ASSUME NEW r \in Relays, WriteLetter(r) PROVE LetterInv'
  <2>1. PICK i \in Unfiled(r) : /\ drafts' = [drafts EXCEPT ![r] = @ \cup ({aggregate[i]} \ letters)]
                                /\ filed' = [filed EXCEPT ![r] = @ \cup {i}]
    BY <1>4 DEF WriteLetter
  <2>2. UNCHANGED <<aggregate, letters, bad, purged>> /\ i \in bad[r]
    BY <1>4, <2>1 DEF WriteLetter, Unfiled, rowVars
  <2> QED BY <1>0, <2>1, <2>2 DEF LetterInv
<1>5. ASSUME NEW r \in Relays, CommitPass(r) \/ Kill(r) PROVE LetterInv'
  <2>1. /\ EndPass(r) /\ UNCHANGED aggregate /\ letters \subseteq letters'
    BY <1>5 DEF CommitPass, Kill, rowVars
  <2> QED BY <1>0, <2>1 DEF EndPass, LetterInv
<1>6. ASSUME NEW i \in Rows, CommitWrite(i) \/ RollbackWrite(i) PROVE Frame /\ UNCHANGED bad
  BY <1>6 DEF CommitWrite, RollbackWrite, relayVars, letterVars
<1>7. ASSUME NEW r \in Relays, Claim(r) PROVE Frame /\ UNCHANGED bad
  BY <1>7 DEF Claim, rowVars, letterVars
<1>8. ASSUME NEW r \in Relays, NEW c \in Conns, BeginApply(r, c) PROVE Frame /\ UNCHANGED bad
  BY <1>8 DEF BeginApply, rowVars, letterVars
<1>9. ASSUME NEW p \in Products, NEW c \in Conns, Rebuild(p, c) PROVE Frame /\ UNCHANGED bad
  BY <1>9 DEF Rebuild, rowVars, relayVars, letterVars
<1>10. ASSUME UNCHANGED vars PROVE Frame /\ UNCHANGED bad
  BY <1>10 DEF vars, rowVars, relayVars, letterVars
<1>11. ASSUME NEW c \in Conns, Land(c) PROVE Frame /\ UNCHANGED bad
  BY <1>11 DEF Land, rowVars, letterVars
<1>12. ASSUME NEW c \in Conns, Abort(c) PROVE Frame /\ \A r \in Relays : bad[r] \subseteq bad'[r]
  <2>1. Frame
    BY <1>12 DEF Abort, rowVars, letterVars
  <2>2. bad' = bad \/ \E r \in Relays, i \in Rows : bad' = [bad EXCEPT ![r] = @ \cup {i}]
    BY <1>12 DEF Abort, Answer, MarkIn, IInv, TypeOK
  <2> QED BY <1>0, <2>1, <2>2
<1>13. ASSUME NEW r \in Relays, LoseAnswer(r)
       PROVE  Frame /\ \A s \in Relays : bad[s] \subseteq bad'[s]
  <2>1. Frame
    BY <1>13 DEF LoseAnswer, rowVars, letterVars
  <2>2. \E i \in Rows : bad' = [bad EXCEPT ![r] = @ \cup {i}]
    BY <1>13 DEF LoseAnswer, MarkIn, IInv, TypeOK
  <2> QED BY <1>0, <2>1, <2>2
<1> QED
  <2> HIDE DEF Frame
  <2> QED BY <1>1, <1>2, <1>3, <1>4, <1>5, <1>6, <1>7, <1>8, <1>9, <1>10, <1>11, <1>12, <1>13
      DEF Next
-----------------------------------------------------------------------------
\* The invariant holds in every reachable state, whatever the constants.
LEMMA Invariant == Spec => []IInv
<1>1. IInv /\ [Next]_vars => IInv'
  <2> SUFFICES ASSUME IInv, [Next]_vars PROVE IInv'
    OBVIOUS
  <2>1. TypeOK' /\ ClaimInv' /\ EventInv' /\ StatementInv'
    BY TypeStep, ClaimStep, EventStep, StatementStep
  <2>2. AppliedInv' /\ FreshInv' /\ AttemptInv' /\ LetterInv'
    BY AppliedStep, FreshStep, AttemptStep, LetterStep
  <2> QED BY <2>1, <2>2 DEF IInv
<1> QED BY InitInv, <1>1, PTL DEF Spec

\* Every column and every set of the relay keeps its type.
THEOREM TypeCorrect == Spec => []TypeOK
<1>1. IInv => TypeOK
  BY DEF IInv
<1> QED BY Invariant, <1>1, PTL

\* relayOutboxBatch: SKIP LOCKED keeps concurrent passes off each other's rows.
THEOREM Exclusion == Spec => []ClaimsExclusive
<1>1. IInv => ClaimsExclusive
  BY DEF IInv, ClaimInv
<1> QED BY Invariant, <1>1, PTL

\* A row is marked Processed only after a recompute that saw its write landed.
THEOREM AtLeastOnceApplied == Spec => []AppliedAtLeastOnce
<1>1. IInv => AppliedAtLeastOnce
  BY DEF IInv, AppliedInv
<1> QED BY Invariant, <1>1, PTL

\* A row is parked exactly when its attempts reach the ceiling.
THEOREM ParkingExact == Spec => []ParkedAtCeiling
<1>1. IInv => ParkedAtCeiling
  BY DEF IInv, AttemptInv
<1> QED BY Invariant, <1>1, PTL

\* The event of the last write is applied if no event of the product is left.
LEMMA SettledSeen ==
  ASSUME IInv, NEW p \in Products, Settled(p)
  PROVE  best[p] = ver[p]
<1>1. best[p] \in Nat /\ ver[p] \in Nat /\ best[p] <= ver[p]
  BY DEF IInv, TypeOK, StatementInv
<1>2. CASE ver[p] = 0
  BY <1>1, <1>2
<1>3. CASE ver[p] > 0
  <2>1. PICK i \in Rows : Committed(i) /\ aggregate[i] = p /\ covers[i] = ver[p]
    BY <1>3 DEF IInv, EventInv
  <2>2. status[i] = "processed"
    BY <2>1 DEF Settled, Committed
  <2>3. best[p] >= ver[p]
    BY <2>1, <2>2 DEF IInv, AppliedInv, AppliedAtLeastOnce
  <2> QED BY <1>1, <2>3
<1> QED BY <1>1, <1>2, <1>3

\* No committed write of a settled product was missed by every recompute.
THEOREM NothingLost == Spec => []NoWriteUnseen
<1>1. IInv => NoWriteUnseen
  BY SettledSeen DEF NoWriteUnseen
<1> QED BY Invariant, <1>1, PTL

\* A settled product whose recomputes never overlapped shows its aggregate.
THEOREM Convergence == Spec => []SettledIsFresh
<1>1. IInv => SettledIsFresh
  BY SettledSeen DEF SettledIsFresh, IInv, FreshInv
<1> QED BY Invariant, <1>1, PTL

\* Without overlap no recompute takes a projection back to an older version.
THEOREM Monotone == Spec => NeverRegresses
<1>1. ASSUME IInv, [Next]_vars
      PROVE  [\A p \in Products \ overlapped' : rating'[p] >= rating[p]]_vars
  <2> SUFFICES ASSUME NEW p \in Products \ overlapped' PROVE rating'[p] >= rating[p]
    OBVIOUS
  <2>0. /\ rating \in [Products -> Nat] /\ overlapped \subseteq overlapped'
        /\ snap \in [Conns -> Nat]
    <3>1. rating \in [Products -> Nat] /\ snap \in [Conns -> Nat]
      BY <1>1 DEF IInv, TypeOK
    <3>2. \A q, c : BeginStatement(q, c) => overlapped \subseteq overlapped'
      BY DEF BeginStatement
    <3>3. overlapped \subseteq overlapped'
      BY <1>1, <3>2 DEF Next, InsertEvent, PurgeLetter, CommitWrite, RollbackWrite, Claim,
        LoseAnswer, WriteLetter, CommitPass, Kill, Land, Abort, BeginApply, Rebuild, vars
    <3> QED BY <3>1, <3>3
  <2>1. CASE rating' = rating
    BY <2>0, <2>1
  <2>2. ASSUME NEW c \in Conns, Land(c) PROVE rating'[p] >= rating[p]
    <3>1. /\ rating' = [rating EXCEPT ![target[c]] = snap[c]] /\ target[c] \in Products
      BY <1>1, <2>2, AnswerOk DEF Land
    <3>2. CASE p = target[c]
      <4>1. snap[c] >= rating[p]
        BY <1>1, <2>0, <3>2 DEF IInv, FreshInv
      <4> QED BY <2>0, <3>1, <3>2, <4>1
    <3>3. CASE p # target[c]
      BY <2>0, <3>1, <3>3
    <3> QED BY <3>2, <3>3
  <2>3. (\E c \in Conns : Land(c)) \/ rating' = rating
    BY <1>1 DEF Next, InsertEvent, PurgeLetter, CommitWrite, RollbackWrite, Claim,
      LoseAnswer, WriteLetter, CommitPass, Kill, Abort, BeginApply, Rebuild, vars
  <2> QED BY <2>1, <2>2, <2>3
<1> QED BY Invariant, <1>1, PTL DEF Spec, NeverRegresses

\* relayOutboxBatch, writeOutboxDeadLetter: a row is parked with a triage record of its
\* aggregate, its own pass's or one already there, unless a purge deleted the latter
\* between the INSERT that did nothing and the commit.
THEOREM ParkingTriaged == Spec => ParkingLeavesLetter
<1> DEFINE Kept(i) == \/ aggregate[i] \in letters'
                      \/ \E r \in Relays : i \in bad[r] /\ aggregate[i] \in purged[r]
<1>1. ASSUME IInv, [Next]_vars
      PROVE  [\A i \in Rows : status[i] # "dead" /\ status'[i] = "dead" => Kept(i)]_vars
  <2> SUFFICES ASSUME NEW i \in Rows, status[i] # "dead", status'[i] = "dead"
               PROVE  Kept(i)
    OBVIOUS
  <2>0. status \in [Rows -> Statuses]
    BY <1>1 DEF IInv, TypeOK
  <2>1. ASSUME NEW r \in Relays, CommitPass(r) PROVE Kept(i)
    <3>1. i \in bad[r] /\ i \in filed[r]
      BY <2>1 DEF CommitPass, Unfiled
    <3>2. aggregate[i] \in drafts[r] \cup letters \cup purged[r]
      BY <1>1, <3>1 DEF IInv, LetterInv
    <3> QED BY <2>1, <3>1, <3>2 DEF CommitPass
  <2>2. CASE status' = status
    BY <2>2
  <2>3. ASSUME NEW p \in Products, InsertEvent(p) PROVE FALSE
    BY <2>0, <2>3 DEF InsertEvent
  <2>4. ASSUME NEW j \in Rows, CommitWrite(j) \/ RollbackWrite(j) PROVE FALSE
    BY <2>0, <2>4 DEF CommitWrite, RollbackWrite
  <2>5. \/ status' = status
        \/ \E r \in Relays : CommitPass(r)
        \/ \E p \in Products : InsertEvent(p)
        \/ \E j \in Rows : CommitWrite(j) \/ RollbackWrite(j)
    BY <1>1 DEF Next, PurgeLetter, Claim, LoseAnswer, WriteLetter, Kill, Land, Abort, BeginApply, Rebuild,
      vars, rowVars
  <2> QED BY <2>1, <2>2, <2>3, <2>4, <2>5
<1> QED BY Invariant, <1>1, PTL DEF Spec, ParkingLeavesLetter

-----------------------------------------------------------------------------
\* A commit of a pass discharges the events of the rows it marks Processed,
\* each already seen by an application, and parks those of the rows it parks.
LEMMA PassDischarges ==
  ASSUME IInv, NEW r \in Relays, CommitPass(r)
  PROVE  \E done, givenUp \in SUBSET EventsIn("pending") : Ledger!Discharge(done, givenUp)
<1> DEFINE parks == {i \in bad[r] : Exhausted(i)}
           done == {<<aggregate[i], covers[i]>> : i \in ok[r]}
           givenUp == {<<aggregate[i], covers[i]>> : i \in parks}
<1>0. /\ status \in [Rows -> Statuses] /\ ok[r] \subseteq Rows /\ bad[r] \subseteq Rows
      /\ \A i \in ok[r] \cup bad[r] : status[i] = "pending"
      /\ ok[r] \cap bad[r] = {}
  BY DEF IInv, TypeOK, ClaimInv, ClaimsExclusive, Held
<1>1. UNCHANGED <<aggregate, covers, ver, best>>
  BY DEF CommitPass
<1>2. \A i \in Rows : status'[i] = IF i \in ok[r] THEN "processed"
                                   ELSE IF i \in parks THEN "dead" ELSE status[i]
  <2> SUFFICES ASSUME NEW i \in Rows
               PROVE  status'[i] = IF i \in ok[r] THEN "processed"
                                   ELSE IF i \in parks THEN "dead" ELSE status[i]
    OBVIOUS
  <2>1. CASE i \in ok[r]
    BY <1>0, <2>1 DEF CommitPass
  <2>2. CASE i \in parks
    BY <1>0, <2>2 DEF CommitPass
  <2>3. CASE i \notin ok[r] /\ i \notin parks
    BY <1>0, <2>3 DEF CommitPass
  <2> QED BY <2>1, <2>2, <2>3
<1>3. done \subseteq EventsIn("pending") /\ givenUp \subseteq EventsIn("pending")
  BY <1>0 DEF EventsIn
<1>4. \A i, j \in Rows : status[i] = "pending" /\ status[j] = "pending"
                         /\ aggregate[i] = aggregate[j] /\ covers[i] = covers[j] => i = j
  BY DEF IInv, EventInv, Committed
<1>5. EventsIn("pending")' = EventsIn("pending") \ (done \cup givenUp)
  <2>1. ASSUME NEW e \in EventsIn("pending")' PROVE e \in EventsIn("pending") \ (done \cup givenUp)
    <3>1. PICK i \in Rows : status'[i] = "pending" /\ e = <<aggregate[i], covers[i]>>
      BY <1>1, <2>1 DEF EventsIn
    <3>2. status[i] = "pending" /\ i \notin ok[r] /\ i \notin parks
      BY <1>0, <1>2, <3>1
    <3> QED BY <1>0, <1>4, <3>1, <3>2 DEF EventsIn
  <2>2. ASSUME NEW e \in EventsIn("pending") \ (done \cup givenUp) PROVE e \in EventsIn("pending")'
    <3>1. PICK i \in Rows : status[i] = "pending" /\ e = <<aggregate[i], covers[i]>>
      BY <2>2 DEF EventsIn
    <3>2. i \notin ok[r] /\ i \notin parks
      BY <2>2, <3>1
    <3> QED BY <1>1, <1>2, <3>1, <3>2 DEF EventsIn
  <2> QED BY <2>1, <2>2
<1>6. EventsIn("dead")' = EventsIn("dead") \cup givenUp
  <2>1. \A i \in Rows : status'[i] = "dead" <=> status[i] = "dead" \/ i \in parks
    BY <1>0, <1>2
  <2>2. parks \subseteq Rows
    BY <1>0
  <2> QED BY <1>1, <2>1, <2>2 DEF EventsIn
<1>7. \A e \in done : best[e[1]] >= e[2]
  BY DEF IInv, AppliedInv
<1>8. Ledger!Discharge(done, givenUp)
  BY <1>1, <1>5, <1>6, <1>7 DEF Ledger!Discharge
<1> QED
  <2> HIDE DEF done, givenUp
  <2> QED BY <1>3, <1>8

\* RatingOutbox implements AtLeastOnce: each step is a write that owes its
\* application, an application, a discharge, or changes nothing of the ledger.
THEOREM Refinement == Spec => ImplementsAtLeastOnce
<1>1. Init => Ledger!AInit
  BY DEF Init, Ledger!AInit, EventsIn
<1>2. ASSUME IInv, [Next]_vars PROVE [Ledger!ANext]_(Ledger!avars)
  <2> DEFINE Frame == UNCHANGED <<ver, best, EventsIn("pending"), EventsIn("dead")>>
  <2>0. /\ ver \in [Products -> Nat] /\ best \in [Products -> Nat] /\ snap \in [Conns -> Nat]
        /\ status \in [Rows -> Statuses] /\ covers \in [Rows -> Nat]
        /\ aggregate \in [Rows -> Products \cup {None}]
        /\ \A i \in Rows : status[i] # "free" => aggregate[i] \in Products
    BY <1>2 DEF IInv, TypeOK
  <2>1. CASE Frame
    BY <2>1 DEF Ledger!avars
  <2>2. ASSUME NEW i \in Rows, CommitWrite(i) PROVE Ledger!Write(aggregate[i])
    <3>1. /\ status[i] = "open" /\ status' = [status EXCEPT ![i] = "pending"]
          /\ covers' = [covers EXCEPT ![i] = ver[aggregate[i]] + 1]
          /\ ver' = [ver EXCEPT ![aggregate[i]] = @ + 1] /\ UNCHANGED <<best, aggregate>>
      BY <2>2 DEF CommitWrite
    <3>2. EventsIn("pending")' = EventsIn("pending") \cup {<<aggregate[i], ver[aggregate[i]] + 1>>}
      BY <2>0, <3>1 DEF EventsIn
    <3>3. EventsIn("dead")' = EventsIn("dead")
      BY <2>0, <3>1 DEF EventsIn
    <3> QED BY <3>1, <3>2, <3>3 DEF Ledger!Write
  <2>3. ASSUME NEW c \in Conns, Land(c) PROVE Ledger!Apply(target[c])
    <3>1. /\ best' = [best EXCEPT ![target[c]] = IF snap[c] > @ THEN snap[c] ELSE @]
          /\ target[c] \in Products /\ UNCHANGED <<ver, status, aggregate, covers>>
      BY <1>2, <2>3, AnswerOk DEF Land, rowVars
    <3>2. best[target[c]] <= ver[target[c]] /\ snap[c] <= ver[target[c]]
      BY <1>2, <3>1, NoneAssumption DEF IInv, StatementInv
    <3>3. \E v \in best[target[c]]..ver[target[c]] : best' = [best EXCEPT ![target[c]] = v]
      <4> DEFINE p == target[c]
                 v == IF snap[c] > best[p] THEN snap[c] ELSE best[p]
      <4>1. best[p] \in Nat /\ snap[c] \in Nat /\ ver[p] \in Nat
        BY <2>0, <3>1
      <4>2. v \in best[p]..ver[p]
        BY <3>2, <4>1
      <4>3. best' = [best EXCEPT ![p] = v]
        BY <3>1
      <4> QED BY <4>2, <4>3
    <3>4. EventsIn("pending")' = EventsIn("pending") /\ EventsIn("dead")' = EventsIn("dead")
      BY <3>1 DEF EventsIn
    <3> QED BY <3>1, <3>3, <3>4 DEF Ledger!Apply
  <2>4. ASSUME NEW r \in Relays, CommitPass(r) PROVE Ledger!ANext
    BY <1>2, <2>4, PassDischarges DEF Ledger!ANext
  <2>5. ASSUME NEW p \in Products, InsertEvent(p) PROVE Frame
    <3>1. /\ status' = [status EXCEPT ![nextRow] = "open"]
          /\ aggregate' = [aggregate EXCEPT ![nextRow] = p] /\ UNCHANGED <<ver, best, covers>>
      BY <2>5 DEF InsertEvent
    <3>2. nextRow \in Rows => status[nextRow] = "free"
      BY <1>2 DEF IInv, EventInv, TypeOK, Rows
    <3>3. \A i \in Rows : status'[i] \in {"pending", "dead"} \/ status[i] \in {"pending", "dead"}
            => status'[i] = status[i] /\ aggregate'[i] = aggregate[i]
      BY <2>0, <3>1, <3>2
    <3> QED BY <3>1, <3>3 DEF EventsIn
  <2>6. ASSUME NEW i \in Rows, RollbackWrite(i) PROVE Frame
    BY <2>0, <2>6 DEF RollbackWrite, EventsIn
  <2>7. ASSUME NEW r \in Relays, Claim(r) \/ LoseAnswer(r) \/ WriteLetter(r) \/ Kill(r) PROVE Frame
    BY <2>7 DEF Claim, LoseAnswer, WriteLetter, Kill, EventsIn, rowVars
  <2>8. ASSUME NEW c \in Conns, Abort(c) PROVE Frame
    BY <2>8 DEF Abort, EventsIn, rowVars
  <2>9. ASSUME NEW r \in Relays, NEW c \in Conns, BeginApply(r, c) PROVE Frame
    BY <2>9 DEF BeginApply, EventsIn, rowVars
  <2>10. ASSUME NEW p \in Products, NEW c \in Conns, Rebuild(p, c) PROVE Frame
    BY <2>10 DEF Rebuild, EventsIn, rowVars
  <2>11. ASSUME NEW p \in Products, PurgeLetter(p) PROVE Frame
    BY <2>11 DEF PurgeLetter, EventsIn, rowVars
  <2>12. ASSUME UNCHANGED vars PROVE Frame
    BY <2>12 DEF vars, EventsIn, rowVars
  <2>13. \A i \in Rows : CommitWrite(i) => aggregate[i] \in Products
    BY <2>0 DEF CommitWrite
  <2>14. \A c \in Conns : Land(c) => target[c] \in Products
    BY <1>2, AnswerOk
  <2> QED
    <3> HIDE DEF Frame
    <3> QED BY <1>2, <2>1, <2>2, <2>3, <2>4, <2>5, <2>6, <2>7, <2>8, <2>9, <2>10, <2>11, <2>12,
             <2>13, <2>14 DEF Next, Ledger!ANext
<1> QED BY Invariant, <1>1, <1>2, PTL DEF Spec, ImplementsAtLeastOnce, Ledger!ASpec
=============================================================================
