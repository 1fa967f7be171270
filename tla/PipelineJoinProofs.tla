-------------------------- MODULE PipelineJoinProofs --------------------------
(***************************************************************************)
(* PipelineJoin for any branches of either kind, any workers, ceiling and  *)
(* number of crashes: IInv is inductive, and the join is decided once, for *)
(* branches that have all completed.                                       *)
(***************************************************************************)
EXTENDS PipelineJoin, TLAPS

\* Before the fan-out there is no row, no worker at work and nothing to join.
LEMMA InitInv == Init => IInv
<1> SUFFICES ASSUME Init PROVE IInv
  OBVIOUS
<1> USE BranchAssumption, WorkerAssumption DEF Init, Branches
<1>1. TypeOK
  <2>1. /\ lock \in Workers \cup {None}
        /\ \A w \in Workers : lock = w <=> pc[w] = "completing"
    OBVIOUS
  <2>2. faults \in 0..MaxFaults /\ attempts \in [Branches -> 0..Ceiling + 2]
    OBVIOUS
  <2> QED BY <2>1, <2>2 DEF TypeOK
<1>2. Registered = {} /\ Pending = {}
  BY DEF Registered, Pending
<1>3. RegisterInv /\ AttemptInv /\ FailTogether
  BY <1>2 DEF RegisterInv, AttemptInv, FailTogether
<1>4. JoinInv
  BY DEF JoinInv, JoinOnce, JoinMeansAll, At
<1>5. WorkInv /\ CompletedWasApplied
  BY DEF WorkInv, CompletedWasApplied, At
<1> QED BY <1>1, <1>3, <1>4, <1>5 DEF IInv

\* A step that writes no branch row disturbs nothing said of the rows alone.
LEMMA SameBranches ==
  ASSUME IInv, UNCHANGED <<status, attempts>>
  PROVE  RegisterInv' /\ AttemptInv' /\ FailTogether'
BY DEF IInv, RegisterInv, Registered, AttemptInv, FailTogether, Pending

-----------------------------------------------------------------------------
\* Every action preserves the invariant.
LEMMA NextInv == IInv /\ [Next]_vars => IInv'
<1> SUFFICES ASSUME IInv, [Next]_vars PROVE IInv'
  OBVIOUS
<1> USE BranchAssumption, WorkerAssumption DEF IInv, TypeOK, Branches, rows
\* Registration makes all the rows or, replayed, none.
<1>1. ASSUME RegisterBranches PROVE IInv'
  <2>1. TypeOK'
    BY <1>1 DEF RegisterBranches
  <2>2. RegisterInv'
    <3>1. \A c \in Branches : status'[c] # "none"
      BY <1>1 DEF RegisterBranches
    <3>2. Registered' = Branches
      BY <3>1 DEF Registered
    <3> QED BY <3>2 DEF RegisterInv
  <2>3. AttemptInv'
    BY <1>1, <2>1 DEF RegisterBranches, AttemptInv
  <2>4. FailTogether'
    BY <1>1, <2>1 DEF RegisterBranches, Registered, RegisterInv, FailTogether, Pending
  <2>5. JoinInv'
    BY <1>1, <2>1 DEF RegisterBranches, At, JoinInv, JoinOnce, JoinMeansAll,
         AllCompleted
  <2>6. WorkInv' /\ CompletedWasApplied'
    BY <1>1, <2>1 DEF RegisterBranches, WorkInv, At, CompletedWasApplied
  <2> QED BY <2>1, <2>2, <2>3, <2>4, <2>5, <2>6
\* A claim counts an attempt of a pending branch, or closes every open one.
<1>2. ASSUME NEW w \in Workers, NEW b \in Branches, ClaimBranch(w, b) PROVE IInv'
  <2>1. TypeOK'
    BY <1>2 DEF ClaimBranch, At, GoTo, HasAttemptsRemaining, DeadLetter, Pending,
         AttemptInv
  <2>2. RegisterInv' /\ AttemptInv'
    BY <1>2, <2>1 DEF ClaimBranch, HasAttemptsRemaining, DeadLetter, Pending,
         RegisterInv, Registered, AttemptInv
  <2>3. FailTogether'
    BY <1>2, <2>1 DEF ClaimBranch, DeadLetter, FailTogether, Pending
  <2>4. JoinInv'
    BY <1>2, <2>1 DEF ClaimBranch, At, GoTo, DeadLetter, Pending, JoinInv, JoinOnce,
         JoinMeansAll, AllCompleted
  <2>5. WorkInv' /\ CompletedWasApplied'
    BY <1>2, <2>1 DEF ClaimBranch, GoTo, DeadLetter, WorkInv, At, CompletedWasApplied
  <2> QED BY <2>1, <2>2, <2>3, <2>4, <2>5
<1>3. ASSUME NEW w \in Workers, ReadStored(w) PROVE IInv'
  <2>1. TypeOK'
    BY <1>3 DEF ReadStored, At, GoTo
  <2>2. RegisterInv' /\ AttemptInv' /\ FailTogether'
    BY <1>3, SameBranches DEF ReadStored
  <2>3. JoinInv'
    BY <1>3, <2>1 DEF ReadStored, At, GoTo, JoinInv, JoinOnce, JoinMeansAll,
         AllCompleted
  <2>4. WorkInv'
    BY <1>3, <2>1 DEF ReadStored, GoTo, WorkInv, At
  <2>5. CompletedWasApplied'
    BY <1>3, <2>1 DEF ReadStored, CompletedWasApplied
  <2> QED BY <2>1, <2>2, <2>3, <2>4, <2>5
<1>4. ASSUME NEW w \in Workers, Answer(w) PROVE IInv'
  <2>1. TypeOK'
    BY <1>4 DEF Answer, At, GoTo
  <2>2. RegisterInv' /\ AttemptInv' /\ FailTogether'
    BY <1>4, SameBranches DEF Answer
  <2>3. JoinInv'
    BY <1>4, <2>1 DEF Answer, At, GoTo, JoinInv, JoinOnce, JoinMeansAll, AllCompleted
  <2>4. WorkInv'
    BY <1>4, <2>1 DEF Answer, GoTo, WorkInv, At
  <2>5. CompletedWasApplied'
    BY <1>4, <2>1 DEF Answer, CompletedWasApplied
  <2> QED BY <2>1, <2>2, <2>3, <2>4, <2>5
\* A terminal error's letter leaves nothing pending.
<1>5. ASSUME NEW w \in Workers, RouteTerminal(w) PROVE IInv'
  <2>1. TypeOK'
    BY <1>5 DEF RouteTerminal, At, GoTo, DeadLetter, WorkInv
  <2>2. RegisterInv' /\ AttemptInv' /\ FailTogether'
    BY <1>5, <2>1 DEF RouteTerminal, DeadLetter, RegisterInv, Registered, AttemptInv,
         FailTogether, Pending
  <2>3. JoinInv'
    BY <1>5, <2>1 DEF RouteTerminal, At, GoTo, DeadLetter, JoinInv, JoinOnce,
         JoinMeansAll, AllCompleted
  <2>4. WorkInv' /\ CompletedWasApplied'
    BY <1>5, <2>1 DEF RouteTerminal, GoTo, DeadLetter, WorkInv, At, CompletedWasApplied
  <2> QED BY <2>1, <2>2, <2>3, <2>4
<1>6. ASSUME NEW w \in Workers, WriteResult(w) PROVE IInv'
  <2>1. TypeOK'
    BY <1>6 DEF WriteResult, At, GoTo, WorkInv
  <2>2. RegisterInv' /\ AttemptInv' /\ FailTogether'
    BY <1>6, SameBranches DEF WriteResult
  <2>3. JoinInv'
    BY <1>6, <2>1 DEF WriteResult, At, GoTo, JoinInv, JoinOnce, JoinMeansAll,
         AllCompleted
  <2>4. WorkInv' /\ CompletedWasApplied'
    BY <1>6, <2>1 DEF WriteResult, GoTo, WorkInv, At, CompletedWasApplied
  <2> QED BY <2>1, <2>2, <2>3, <2>4
<1>7. ASSUME NEW w \in Workers, ReadComplete(w) PROVE IInv'
  <2>1. TypeOK'
    BY <1>7 DEF ReadComplete, At, GoTo
  <2>2. RegisterInv' /\ AttemptInv' /\ FailTogether'
    BY <1>7, SameBranches DEF ReadComplete
  <2>3. JoinInv'
    BY <1>7, <2>1 DEF ReadComplete, At, GoTo, JoinInv, JoinOnce, JoinMeansAll,
         AllCompleted
  <2>4. WorkInv'
    BY <1>7, <2>1 DEF ReadComplete, GoTo, WorkInv, At
  <2>5. CompletedWasApplied'
    BY <1>7, <2>1 DEF ReadComplete, CompletedWasApplied
  <2> QED BY <2>1, <2>2, <2>3, <2>4, <2>5
\* The last open branch is closed while no branch has failed, so all completed.
<1>8. ASSUME NEW w \in Workers, Complete(w) PROVE IInv'
  <2>1. TypeOK'
    BY <1>8 DEF Complete, CompleteBranchLocked, At, GoTo, WorkInv
  <2>2. RegisterInv' /\ AttemptInv'
    BY <1>8, <2>1 DEF Complete, CompleteBranchLocked, RegisterInv, Registered,
         AttemptInv
  <2>3. FailTogether'
    BY <1>8, <2>1 DEF Complete, CompleteBranchLocked, FailTogether, Pending
  <2>4. JoinInv'
    BY <1>8, <2>1 DEF Complete, CompleteBranchLocked, ClosesLast, At, GoTo, Pending,
         FailTogether, Registered, RegisterInv, JoinInv, JoinOnce, JoinMeansAll,
         AllCompleted
  <2>5. WorkInv'
    BY <1>8, <2>1 DEF Complete, CompleteBranchLocked, GoTo, WorkInv, At
  <2>6. CompletedWasApplied'
    BY <1>8, <2>1 DEF Complete, CompleteBranchLocked, WorkInv, At, CompletedWasApplied
  <2> QED BY <2>1, <2>2, <2>3, <2>4, <2>5, <2>6
<1>9. ASSUME NEW w \in Workers, NEW b \in Branches, Callback(w, b) PROVE IInv'
  <2>1. TypeOK'
    BY <1>9 DEF Callback, CompleteBranchLocked, At, GoTo, Registered
  <2>2. RegisterInv' /\ AttemptInv'
    BY <1>9, <2>1 DEF Callback, CompleteBranchLocked, RegisterInv, Registered,
         AttemptInv
  <2>3. FailTogether'
    BY <1>9, <2>1 DEF Callback, CompleteBranchLocked, FailTogether, Pending
  <2>4. JoinInv'
    BY <1>9, <2>1 DEF Callback, CompleteBranchLocked, ClosesLast, At, GoTo, Pending,
         FailTogether, Registered, RegisterInv, JoinInv, JoinOnce, JoinMeansAll,
         AllCompleted
  <2>5. WorkInv'
    BY <1>9, <2>1 DEF Callback, CompleteBranchLocked, GoTo, WorkInv, At
  <2>6. CompletedWasApplied'
    BY <1>9, <2>1 DEF Callback, CompleteBranchLocked, WorkInv, At, CompletedWasApplied
  <2> QED BY <2>1, <2>2, <2>3, <2>4, <2>5, <2>6
<1>10. ASSUME NEW w \in Workers, Join(w) PROVE IInv'
  <2>1. TypeOK'
    BY <1>10 DEF Join, At, GoTo
  <2>2. RegisterInv' /\ AttemptInv' /\ FailTogether'
    BY <1>10, SameBranches DEF Join
  <2>3. JoinInv'
    BY <1>10, <2>1 DEF Join, At, GoTo, JoinInv, JoinOnce, JoinMeansAll, AllCompleted
  <2>4. WorkInv'
    BY <1>10, <2>1 DEF Join, GoTo, WorkInv, At
  <2>5. CompletedWasApplied'
    BY <1>10, <2>1 DEF Join, CompletedWasApplied
  <2> QED BY <2>1, <2>2, <2>3, <2>4, <2>5
<1>11. ASSUME NEW w \in Workers, Abandon(w) PROVE IInv'
  <2>1. TypeOK'
    BY <1>11 DEF Abandon, At, GoTo
  <2>2. RegisterInv' /\ AttemptInv' /\ FailTogether'
    BY <1>11, SameBranches DEF Abandon
  <2>3. JoinInv'
    BY <1>11, <2>1 DEF Abandon, At, GoTo, JoinInv, JoinOnce, JoinMeansAll, AllCompleted
  <2>4. WorkInv'
    BY <1>11, <2>1 DEF Abandon, GoTo, WorkInv, At
  <2>5. CompletedWasApplied'
    BY <1>11, <2>1 DEF Abandon, CompletedWasApplied
  <2> QED BY <2>1, <2>2, <2>3, <2>4, <2>5
<1>12. ASSUME NEW b \in Branches, FailBranch(b) PROVE IInv'
  <2>1. TypeOK'
    BY <1>12 DEF FailBranch, AttemptInv, Pending
  <2>2. RegisterInv' /\ AttemptInv' /\ FailTogether'
    BY <1>12, <2>1 DEF FailBranch, RegisterInv, Registered, AttemptInv, FailTogether,
         Pending
  <2>3. JoinInv'
    BY <1>12, <2>1 DEF FailBranch, At, JoinInv, JoinOnce, JoinMeansAll, AllCompleted
  <2>4. WorkInv' /\ CompletedWasApplied'
    BY <1>12, <2>1 DEF FailBranch, WorkInv, At, CompletedWasApplied
  <2> QED BY <2>1, <2>2, <2>3, <2>4
<1>13. ASSUME NEW b \in Branches, Age(b) PROVE IInv'
  <2>1. TypeOK'
    BY <1>13 DEF Age, HasAttemptsRemaining, DeadLetter, Pending, AttemptInv
  <2>2. RegisterInv' /\ AttemptInv'
    BY <1>13, <2>1 DEF Age, HasAttemptsRemaining, DeadLetter, Pending, RegisterInv,
         Registered, AttemptInv
  <2>3. FailTogether'
    BY <1>13, <2>1 DEF Age, DeadLetter, FailTogether, Pending
  <2>4. JoinInv'
    BY <1>13, <2>1 DEF Age, At, DeadLetter, Pending, JoinInv, JoinOnce, JoinMeansAll,
         AllCompleted
  <2>5. WorkInv' /\ CompletedWasApplied'
    BY <1>13, <2>1 DEF Age, DeadLetter, WorkInv, At, CompletedWasApplied
  <2> QED BY <2>1, <2>2, <2>3, <2>4, <2>5
<1>14. ASSUME Heal PROVE IInv'
  <2>1. TypeOK'
    BY <1>14 DEF Heal
  <2>2. RegisterInv' /\ AttemptInv' /\ FailTogether'
    BY <1>14, SameBranches DEF Heal
  <2>3. JoinInv'
    BY <1>14, <2>1 DEF Heal, At, JoinInv, JoinOnce, JoinMeansAll, AllCompleted
  <2>4. WorkInv' /\ CompletedWasApplied'
    BY <1>14, <2>1 DEF Heal, WorkInv, At, CompletedWasApplied
  <2> QED BY <2>1, <2>2, <2>3, <2>4
<1>15. ASSUME ContinueStage PROVE IInv'
  <2>1. TypeOK'
    BY <1>15 DEF ContinueStage
  <2>2. RegisterInv' /\ AttemptInv' /\ FailTogether'
    BY <1>15, SameBranches DEF ContinueStage
  <2>3. JoinInv'
    BY <1>15, <2>1 DEF ContinueStage, At, JoinInv, JoinOnce, JoinMeansAll, AllCompleted
  <2>4. WorkInv' /\ CompletedWasApplied'
    BY <1>15, <2>1 DEF ContinueStage, WorkInv, At, CompletedWasApplied
  <2> QED BY <2>1, <2>2, <2>3, <2>4
<1>16. CASE UNCHANGED vars
  <2>1. RegisterInv' /\ AttemptInv' /\ FailTogether'
    BY <1>16, SameBranches DEF vars
  <2>2. JoinInv' /\ WorkInv' /\ CompletedWasApplied'
    BY <1>16 DEF vars, JoinInv, JoinOnce, JoinMeansAll, AllCompleted, WorkInv, At,
         CompletedWasApplied
  <2> QED BY <1>16, <2>1, <2>2 DEF vars
<1> QED
  BY <1>1, <1>2, <1>3, <1>4, <1>5, <1>6, <1>7, <1>8, <1>9,
     <1>10, <1>11, <1>12, <1>13, <1>14, <1>15, <1>16 DEF Next, Run

LEMMA Inductive == Spec => []IInv
BY InitInv, NextInv, PTL DEF Spec

-----------------------------------------------------------------------------
\* Every variable keeps its type, the advisory lock is held by exactly the
\* worker inside completeBranchWithApply, and attempts stay below ceiling + 3.
THEOREM TypeCorrect == Spec => []TypeOK
<1>1. IInv => TypeOK
  BY DEF IInv
<1> QED BY <1>1, Inductive, PTL

\* completeBranchLocked answers CompletedNow to one caller at most, whatever was
\* delivered, called back or dead-lettered in between.
THEOREM DecidedOnce == Spec => []JoinOnce
<1>1. IInv => JoinOnce
  BY DEF IInv, JoinInv
<1> QED BY <1>1, Inductive, PTL

\* onJoinCompleted runs for a stage all of whose branches completed, from
\* runPipelineBranch and from healMissedJoins.
THEOREM JoinedComplete == Spec => []JoinMeansAll
<1>1. IInv => JoinMeansAll
  BY DEF IInv, JoinInv
<1> QED BY <1>1, Inductive, PTL

\* writeDeadLetter leaves no branch of the stage open, and none is opened later.
THEOREM NoneLeftOpen == Spec => []FailTogether
<1>1. IInv => FailTogether
  BY DEF IInv
<1> QED BY <1>1, Inductive, PTL

\* completeBranchWithApply: an owned branch completes with its stored result
\* applied.
THEOREM CompletedApplied == Spec => []CompletedWasApplied
<1>1. IInv => CompletedWasApplied
  BY DEF IInv
<1> QED BY <1>1, Inductive, PTL

\* No update of a branch row matches one that completed or failed.
THEOREM SettledForGood == Spec => BranchIsFinal
<1> DEFINE Final(b) == status[b] \in {"completed", "failed"} => status'[b] = status[b]
<1>1. IInv /\ [Next]_vars => [\A b \in Branches : Final(b)]_vars
  <2> SUFFICES ASSUME IInv, Next, NEW b \in Branches PROVE Final(b)
    OBVIOUS
  <2> USE DEF IInv, TypeOK, rows
  <2>1. CASE RegisterBranches
    BY <2>1 DEF RegisterBranches
  <2>2. ASSUME NEW w \in Workers, NEW c \in Branches, ClaimBranch(w, c) PROVE Final(b)
    BY <2>2 DEF ClaimBranch, DeadLetter
  <2>3. ASSUME NEW w \in Workers, NEW c \in Branches, Callback(w, c) PROVE Final(b)
    BY <2>3 DEF Callback, CompleteBranchLocked
  <2>4. ASSUME NEW w \in Workers, Complete(w) PROVE Final(b)
    BY <2>4 DEF Complete, CompleteBranchLocked
  <2>5. ASSUME NEW w \in Workers, RouteTerminal(w) PROVE Final(b)
    BY <2>5 DEF RouteTerminal, DeadLetter
  <2>6. ASSUME NEW c \in Branches, Age(c) PROVE Final(b)
    BY <2>6 DEF Age, DeadLetter
  <2>7. ASSUME NEW w \in Workers,
               ReadStored(w) \/ Answer(w) \/ WriteResult(w) \/ ReadComplete(w)
                 \/ Join(w) \/ Abandon(w)
        PROVE  Final(b)
    BY <2>7 DEF ReadStored, Answer, WriteResult, ReadComplete, Join, Abandon
  <2>8. ASSUME (\E c \in Branches : FailBranch(c)) \/ Heal \/ ContinueStage PROVE Final(b)
    BY <2>8 DEF FailBranch, Heal, ContinueStage
  <2> QED BY <2>1, <2>2, <2>3, <2>4, <2>5, <2>6, <2>7, <2>8 DEF Next, Run
<1> QED BY <1>1, Inductive, PTL DEF Spec, BranchIsFinal
=============================================================================
