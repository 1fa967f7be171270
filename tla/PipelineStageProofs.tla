------------------------- MODULE PipelineStageProofs -------------------------
(***************************************************************************)
(* PipelineStage for any workers, ceiling, deliveries and faults: IInv is  *)
(* inductive; external calls stay within the ceiling, every apply carries  *)
(* one result, and a dead-lettered stage stays so.                         *)
(***************************************************************************)
EXTENDS PipelineStage, FiniteSetTheorems, TLAPS

\* Attempts still left to a live row; a row is failed just when it has its letter.
RowInv ==
  /\ status \in {"pending", "inprogress"} => attempts <= Ceiling
  /\ letter <=> status = "failed"

\* A job still to be delivered has a delivery left, and an active one its worker.
JobInv ==
  /\ job.st \in {"waiting", "active", "delayed"} => job.tries < Tries
  /\ job.st = "active" => job.by \in Workers

\* The advisory lock is held across a claim, a completion or a re-drive.
LockInv ==
  /\ \A w \in Workers : lock = w <=> pc[w] \in {"claiming", "completing"}
  /\ lock = Reconciler <=> rec = "age"

\* Workers whose attempt is counted and whose external call is still to come.
Owing == {w \in Workers : pc[w] \in {"read", "call"}}

\* Each call, made or still owed, was counted by a claim of its own.
CallInv ==
  /\ IsFiniteSet(Owing)
  /\ calls + Cardinality(Owing) <= attempts
  /\ calls + Cardinality(Owing) <= Ceiling

\* A stage is untouched before its first claim; it completes, and its successors
\* are ensured, only after an applyResult; and one that was applied has settled.
ProgressInv ==
  /\ status = "pending" => /\ result = None /\ applied = {}
                           /\ \A w \in Workers : pc[w] \in {"idle", "claim", "claiming"}
  /\ applied # {} => status \in {"completed", "failed"}
  /\ status = "completed" => applied # {}
  /\ ensured => applied # {}
  /\ \A w \in Workers : pc[w] = "ensure" => applied # {}

\* No worker holds a result or is about to produce or read one.
AllQuiet == \A w \in Workers : pc[w] \in {"idle", "claim", "ensure"}

\* What a worker will apply is the stored result; one that was applied is the
\* stored one too, or that was purged with nobody left to bring another.
ResultInv ==
  /\ \A w \in Workers :
       pc[w] \in {"answer", "write", "complete", "completing"} => got[w] # None
  /\ ~Early => /\ \A w \in Workers : pc[w] \in {"complete", "completing"} =>
                                       got[w] = result
               /\ \A r \in applied : result \in {r, None}
               /\ \A r, s \in applied : r = s
               /\ applied # {} /\ result = None => AllQuiet

IInv == TypeOK /\ RowInv /\ JobInv /\ LockInv /\ CallInv /\ ProgressInv /\ ResultInv

\* The instance is committed, its first job waits and nothing has happened to it.
LEMMA InitInv == Init => IInv
<1> SUFFICES ASSUME Init PROVE IInv
  OBVIOUS
<1> USE CeilingAssumption, TriesAssumption, ScenarioAssumption, HolderAssumption DEF Init
<1>1. TypeOK
  <2>1. job \in Jobs
    BY DEF Waiting, NoJob, Jobs
  <2>2. attempts \in 0 .. Ceiling + 1 /\ faults \in 0 .. MaxFaults
    BY DEF MaxFaults
  <2> QED BY <2>1, <2>2 DEF TypeOK
<1>2. RowInv /\ JobInv /\ LockInv /\ ProgressInv /\ ResultInv
  BY DEF RowInv, JobInv, LockInv, ProgressInv, ResultInv, Waiting, NoJob
<1>3. CallInv
  <2>1. Owing = {}
    BY DEF Owing
  <2> QED BY <2>1, FS_EmptySet DEF CallInv
<1> QED BY <1>1, <1>2, <1>3 DEF IInv

\* A step that makes no call owed and counts none leaves the calls bounded.
LEMMA FewerOwing ==
  ASSUME IInv, TypeOK', Owing' \subseteq Owing, calls' = calls, attempts' >= attempts
  PROVE  CallInv'
<1>1. IsFiniteSet(Owing') /\ Cardinality(Owing') <= Cardinality(Owing)
  BY FS_Subset DEF IInv, CallInv
<1>2. Cardinality(Owing) \in Nat /\ Cardinality(Owing') \in Nat
  BY <1>1, FS_CardinalityType DEF IInv, CallInv
<1> QED BY <1>1, <1>2, CeilingAssumption DEF IInv, TypeOK, CallInv

\* However a delivery ends, the job is well formed, and spent if it is not delayed.
LEMMA JobSteps ==
  ASSUME job \in Jobs, JobInv, NEW w \in Workers,
         Ack(w) \/ Stop(w) \/ Again(w) \/ job' = job
  PROVE  job' \in Jobs /\ JobInv'
<1> USE TriesAssumption DEF JobInv, Jobs, Mine
<1>1. CASE job' = job
  BY <1>1
<1>2. CASE Mine(w) /\ \E s \in {"completed", "failed"} : job' = [job EXCEPT !.st = s, !.by = None]
  BY <1>2
<1>3. CASE Mine(w) /\ \E s \in {"delayed", "failed"} :
             /\ s = IF job.tries + 1 < Tries THEN "delayed" ELSE "failed"
             /\ job' = [job EXCEPT !.st = s, !.by = None, !.tries = @ + 1]
  <2>1. job.tries + 1 \in 0 .. Tries
    BY <1>3
  <2>2. PICK s \in {"delayed", "failed"} :
             /\ s = "delayed" => job.tries + 1 < Tries
             /\ job' = [job EXCEPT !.st = s, !.by = None, !.tries = job.tries + 1]
    BY <1>3
  <2>3. /\ job' \in Jobs /\ job'.st = s /\ job'.tries = job.tries + 1
    BY <2>1, <2>2
  <2> QED BY <2>2, <2>3
<1>4. CASE Ack(w) \/ Stop(w)
  BY <1>1, <1>2, <1>4 DEF Ack, Stop
<1>5. CASE Again(w)
  BY <1>1, <1>3, <1>5 DEF Again
<1> QED BY <1>1, <1>4, <1>5

\* Redelivered or given up, a stalled job is well formed.
LEMMA JobRequeued ==
  ASSUME job \in Jobs, JobInv, job.st = "active", Requeue
  PROVE  job' \in Jobs /\ JobInv'
<1> USE TriesAssumption DEF JobInv, Jobs
<1>1. CASE job.stalled = 0
  <2>1. job' = [job EXCEPT !.st = "waiting", !.by = None, !.stalled = 1]
    BY <1>1 DEF Requeue
  <2>2. 1 \in 0 .. 1
    OBVIOUS
  <2> QED BY <2>1, <2>2
<1>2. CASE job.stalled # 0
  <2>1. job' = [job EXCEPT !.st = "failed", !.by = None]
    BY <1>2 DEF Requeue
  <2> QED BY <2>1
<1> QED BY <1>1, <1>2

-----------------------------------------------------------------------------
\* Every action preserves the invariant.
LEMMA NextInv == IInv /\ [Next]_vars => IInv'
<1> SUFFICES ASSUME IInv, [Next]_vars PROVE IInv'
  OBVIOUS
<1> USE CeilingAssumption, TriesAssumption, ScenarioAssumption, HolderAssumption
    DEF IInv, TypeOK, row, seen, MaxFaults, Early
<1>1. ASSUME NEW w \in Workers, Take(w) PROVE IInv'
  <2>1. TypeOK'
    BY <1>1 DEF Take, GoTo, RowInv, JobInv, Jobs
  <2>2. RowInv' /\ JobInv' /\ LockInv'
    BY <1>1, <2>1 DEF Take, GoTo, RowInv, LockInv, JobInv, Jobs
  <2>3. CallInv'
    BY <1>1, <2>1, FewerOwing DEF Take, GoTo, Owing, CallInv
  <2>4. ProgressInv'
    BY <1>1, <2>1 DEF Take, GoTo, ProgressInv, LockInv
  <2>5. ResultInv'
    BY <1>1, <2>1 DEF Take, GoTo, ResultInv, ProgressInv, AllQuiet
  <2> QED BY <2>1, <2>2, <2>3, <2>4, <2>5
<1>2. ASSUME NEW w \in Workers, ReadClaim(w) PROVE IInv'
  <2>0. job' \in Jobs /\ JobInv'
    BY <1>2, JobSteps DEF ReadClaim
  <2>1. TypeOK'
    BY <1>2, <2>0 DEF ReadClaim, GoTo, RowInv
  <2>2. RowInv' /\ JobInv' /\ LockInv'
    BY <1>2, <2>1, <2>0 DEF ReadClaim, GoTo, RowInv, LockInv
  <2>3. CallInv'
    BY <1>2, <2>1, FewerOwing DEF ReadClaim, GoTo, Owing, CallInv
  <2>4. ProgressInv'
    BY <1>2, <2>1 DEF ReadClaim, GoTo, ProgressInv, LockInv
  <2>5. ResultInv'
    BY <1>2, <2>1 DEF ReadClaim, GoTo, ResultInv, ProgressInv, AllQuiet
  <2> QED BY <2>1, <2>2, <2>3, <2>4, <2>5
\* A claim counts the call it may make; the last one the ceiling allows makes none.
<1>3. ASSUME NEW w \in Workers, Claim(w) PROVE IInv'
  <2>0. job' \in Jobs /\ JobInv'
    BY <1>3, JobSteps DEF Claim
  <2>1. TypeOK'
    <3>1. attempts' \in 0 .. Ceiling + 1
      BY <1>3 DEF Claim, RowInv
    <3> QED BY <1>3, <2>0, <3>1 DEF Claim, GoTo, Touch, DeadLetter
  <2>2. RowInv' /\ JobInv' /\ LockInv'
    BY <1>3, <2>1, <2>0 DEF Claim, GoTo, Touch, DeadLetter, ClaimReachedCeiling,
         HasAttemptsRemaining, RowInv, LockInv
  <2>3. CallInv'
    <3>1. CASE Owing' \subseteq Owing
      BY <1>3, <2>1, <3>1, FewerOwing DEF Claim
    <3>2. CASE ~(Owing' \subseteq Owing)
      <4>1. /\ w \notin Owing /\ Owing' = Owing \cup {w} /\ calls' = calls
            /\ attempts' = attempts + 1 /\ attempts + 1 <= Ceiling
        BY <1>3, <2>1, <3>2 DEF Claim, GoTo, Owing, ClaimReachedCeiling,
             HasAttemptsRemaining
      <4>2. /\ IsFiniteSet(Owing') /\ Cardinality(Owing') = Cardinality(Owing) + 1
            /\ Cardinality(Owing) \in Nat
        BY <4>1, FS_AddElement, FS_CardinalityType DEF CallInv
      <4> QED BY <2>1, <4>1, <4>2 DEF CallInv
    <3> QED BY <3>1, <3>2
  <2>4. ProgressInv'
    BY <1>3, <2>1 DEF Claim, GoTo, Touch, DeadLetter, ClaimReachedCeiling,
         HasAttemptsRemaining, ProgressInv, LockInv
  <2>5. ResultInv'
    BY <1>3, <2>1 DEF Claim, GoTo, Touch, DeadLetter, ClaimReachedCeiling,
         HasAttemptsRemaining, ResultInv, ProgressInv, AllQuiet
  <2> QED BY <2>1, <2>2, <2>3, <2>4, <2>5
<1>4. ASSUME NEW w \in Workers, ReadResult(w) PROVE IInv'
  <2>1. TypeOK'
    BY <1>4 DEF ReadResult, GoTo, RowInv, JobInv, Jobs
  <2>2. RowInv' /\ JobInv' /\ LockInv'
    BY <1>4, <2>1 DEF ReadResult, GoTo, RowInv, LockInv, JobInv, Jobs
  <2>3. CallInv'
    BY <1>4, <2>1, FewerOwing DEF ReadResult, GoTo, Owing, CallInv
  <2>4. ProgressInv'
    BY <1>4, <2>1 DEF ReadResult, GoTo, ProgressInv, LockInv
  <2>5. ResultInv'
    BY <1>4, <2>1 DEF ReadResult, GoTo, ResultInv, ProgressInv, AllQuiet
  <2> QED BY <2>1, <2>2, <2>3, <2>4, <2>5
\* A call is made against the attempt its claim counted.
<1>5. ASSUME NEW w \in Workers, Call(w) PROVE IInv'
  <2>1. TypeOK'
    BY <1>5 DEF Call, GoTo, RowInv, JobInv, Jobs
  <2>2. RowInv' /\ JobInv' /\ LockInv'
    BY <1>5, <2>1 DEF Call, GoTo, RowInv, LockInv, JobInv, Jobs
  <2>3. CallInv'
    <3>1. w \in Owing /\ Owing' = Owing \ {w} /\ calls' = calls + 1
      BY <1>5, <2>1 DEF Call, GoTo, Owing
    <3>2. /\ IsFiniteSet(Owing') /\ Cardinality(Owing') = Cardinality(Owing) - 1
          /\ Cardinality(Owing) \in Nat
      BY <3>1, FS_RemoveElement, FS_CardinalityType DEF CallInv
    <3> QED BY <1>5, <2>1, <3>1, <3>2 DEF CallInv, Call
  <2>4. ProgressInv'
    BY <1>5, <2>1 DEF Call, GoTo, ProgressInv, LockInv
  <2>5. ResultInv'
    BY <1>5, <2>1 DEF Call, GoTo, ResultInv, ProgressInv, AllQuiet
  <2> QED BY <2>1, <2>2, <2>3, <2>4, <2>5
<1>6. ASSUME NEW w \in Workers, Answer(w) PROVE IInv'
  <2>0. job' \in Jobs /\ JobInv'
    BY <1>6, JobSteps DEF Answer
  <2>1. TypeOK'
    BY <1>6, <2>0 DEF Answer, GoTo, RowInv
  <2>2. RowInv' /\ JobInv' /\ LockInv'
    BY <1>6, <2>1, <2>0 DEF Answer, GoTo, RowInv, LockInv
  <2>3. CallInv'
    BY <1>6, <2>1, FewerOwing DEF Answer, GoTo, Owing, CallInv
  <2>4. ProgressInv'
    BY <1>6, <2>1 DEF Answer, GoTo, ProgressInv, LockInv
  <2>5. ResultInv'
    BY <1>6, <2>1 DEF Answer, GoTo, ResultInv, ProgressInv, AllQuiet
  <2> QED BY <2>1, <2>2, <2>3, <2>4, <2>5
\* The one write of the status that takes no lock.
<1>7. ASSUME NEW w \in Workers, RouteTerminal(w) PROVE IInv'
  <2>0. job' \in Jobs /\ JobInv'
    BY <1>7, JobSteps DEF RouteTerminal
  <2>1. TypeOK'
    BY <1>7, <2>0 DEF RouteTerminal, GoTo, DeadLetter, Touch, RowInv
  <2>2. RowInv' /\ JobInv' /\ LockInv'
    BY <1>7, <2>1, <2>0 DEF RouteTerminal, GoTo, DeadLetter, Touch, RowInv, LockInv
  <2>3. CallInv'
    BY <1>7, <2>1, FewerOwing DEF RouteTerminal, GoTo, DeadLetter, Touch, Owing, CallInv
  <2>4. ProgressInv'
    BY <1>7, <2>1 DEF RouteTerminal, GoTo, DeadLetter, Touch, ProgressInv, LockInv
  <2>5. ResultInv'
    BY <1>7, <2>1 DEF RouteTerminal, GoTo, DeadLetter, Touch, ResultInv, ProgressInv,
         AllQuiet
  <2> QED BY <2>1, <2>2, <2>3, <2>4, <2>5
\* The result that is stored is the caller's own or an earlier one, which is carried on.
<1>8. ASSUME NEW w \in Workers, WriteResult(w) PROVE IInv'
  <2>1. TypeOK'
    BY <1>8 DEF WriteResult, GoTo, RowInv, JobInv, Jobs
  <2>2. RowInv' /\ JobInv' /\ LockInv'
    BY <1>8, <2>1 DEF WriteResult, GoTo, RowInv, LockInv, JobInv, Jobs
  <2>3. CallInv'
    BY <1>8, <2>1, FewerOwing DEF WriteResult, GoTo, Owing, CallInv
  <2>4. ProgressInv'
    BY <1>8, <2>1 DEF WriteResult, GoTo, ProgressInv, LockInv
  <2>5. ResultInv'
    BY <1>8, <2>1 DEF WriteResult, GoTo, ResultInv, ProgressInv, AllQuiet
  <2> QED BY <2>1, <2>2, <2>3, <2>4, <2>5
<1>9. ASSUME NEW w \in Workers, ReadComplete(w) PROVE IInv'
  <2>0. job' \in Jobs /\ JobInv'
    BY <1>9, JobSteps DEF ReadComplete
  <2>1. TypeOK'
    BY <1>9, <2>0 DEF ReadComplete, GoTo, RowInv
  <2>2. RowInv' /\ JobInv' /\ LockInv'
    BY <1>9, <2>1, <2>0 DEF ReadComplete, GoTo, RowInv, LockInv
  <2>3. CallInv'
    BY <1>9, <2>1, FewerOwing DEF ReadComplete, GoTo, Owing, CallInv
  <2>4. ProgressInv'
    BY <1>9, <2>1 DEF ReadComplete, GoTo, ProgressInv, LockInv
  <2>5. ResultInv'
    BY <1>9, <2>1 DEF ReadComplete, GoTo, ResultInv, ProgressInv, AllQuiet
  <2> QED BY <2>1, <2>2, <2>3, <2>4, <2>5
\* The stored result is applied, and the row flips if it still says in progress.
<1>10. ASSUME NEW w \in Workers, Complete(w) PROVE IInv'
  <2>1. TypeOK'
    <3>1. got[w] \in Nat
      BY <1>10 DEF Complete, ResultInv
    <3> QED BY <1>10, <3>1 DEF Complete, GoTo, Touch
  <2>2. RowInv' /\ JobInv' /\ LockInv'
    BY <1>10, <2>1 DEF Complete, GoTo, Touch, RowInv, LockInv, JobInv, Jobs
  <2>3. CallInv'
    BY <1>10, <2>1, FewerOwing DEF Complete, GoTo, Touch, Owing, CallInv
  <2>4. ProgressInv'
    BY <1>10, <2>1 DEF Complete, GoTo, Touch, ProgressInv, LockInv
  <2>5. ResultInv'
    BY <1>10, <2>1 DEF Complete, GoTo, Touch, ResultInv, ProgressInv, AllQuiet
  <2> QED BY <2>1, <2>2, <2>3, <2>4, <2>5
<1>11. ASSUME NEW w \in Workers, EnsureSuccessors(w) PROVE IInv'
  <2>0. job' \in Jobs /\ JobInv'
    BY <1>11, JobSteps DEF EnsureSuccessors
  <2>1. TypeOK'
    BY <1>11, <2>0 DEF EnsureSuccessors, GoTo, RowInv
  <2>2. RowInv' /\ JobInv' /\ LockInv'
    BY <1>11, <2>1, <2>0 DEF EnsureSuccessors, GoTo, RowInv, LockInv
  <2>3. CallInv'
    BY <1>11, <2>1, FewerOwing DEF EnsureSuccessors, GoTo, Owing, CallInv
  <2>4. ProgressInv'
    BY <1>11, <2>1 DEF EnsureSuccessors, GoTo, ProgressInv, LockInv
  <2>5. ResultInv'
    BY <1>11, <2>1 DEF EnsureSuccessors, GoTo, ResultInv, ProgressInv, AllQuiet
  <2> QED BY <2>1, <2>2, <2>3, <2>4, <2>5
\* The lock goes with the connection.
<1>12. ASSUME NEW w \in Workers, Crash(w) PROVE IInv'
  <2>1. TypeOK'
    BY <1>12 DEF Crash, Leave, GoTo, Fault, RowInv, JobInv, Jobs
  <2>2. RowInv' /\ JobInv' /\ LockInv'
    BY <1>12, <2>1 DEF Crash, Leave, GoTo, Fault, RowInv, LockInv, JobInv, Jobs
  <2>3. CallInv'
    BY <1>12, <2>1, FewerOwing DEF Crash, Leave, GoTo, Fault, Owing, CallInv
  <2>4. ProgressInv'
    BY <1>12, <2>1 DEF Crash, Leave, GoTo, Fault, ProgressInv, LockInv
  <2>5. ResultInv'
    BY <1>12, <2>1 DEF Crash, Leave, GoTo, Fault, ResultInv, ProgressInv, AllQuiet
  <2> QED BY <2>1, <2>2, <2>3, <2>4, <2>5
<1>13. ASSUME NEW w \in Workers, Throw(w) PROVE IInv'
  <2>0. job' \in Jobs /\ JobInv'
    BY <1>13, JobSteps DEF Throw
  <2>1. TypeOK'
    BY <1>13, <2>0 DEF Throw, Leave, GoTo, Fault, RowInv
  <2>2. RowInv' /\ JobInv' /\ LockInv'
    BY <1>13, <2>1, <2>0 DEF Throw, Leave, GoTo, Fault, RowInv, LockInv
  <2>3. CallInv'
    BY <1>13, <2>1, FewerOwing DEF Throw, Leave, GoTo, Fault, Owing, CallInv
  <2>4. ProgressInv'
    BY <1>13, <2>1 DEF Throw, Leave, GoTo, Fault, ProgressInv, LockInv
  <2>5. ResultInv'
    BY <1>13, <2>1 DEF Throw, Leave, GoTo, Fault, ResultInv, ProgressInv, AllQuiet
  <2> QED BY <2>1, <2>2, <2>3, <2>4, <2>5
<1>14. ASSUME Promote PROVE IInv'
  <2>1. TypeOK'
    BY <1>14 DEF Promote, RowInv, JobInv, Jobs
  <2>2. RowInv' /\ JobInv' /\ LockInv'
    BY <1>14, <2>1 DEF Promote, RowInv, LockInv, JobInv, Jobs
  <2>3. CallInv'
    BY <1>14, <2>1, FewerOwing DEF Promote, Owing, CallInv
  <2>4. ProgressInv'
    BY <1>14, <2>1 DEF Promote, ProgressInv, LockInv
  <2>5. ResultInv'
    BY <1>14, <2>1 DEF Promote, ResultInv, ProgressInv, AllQuiet
  <2> QED BY <2>1, <2>2, <2>3, <2>4, <2>5
<1>15. ASSUME RecoverJob \/ Stall PROVE IInv'
  <2>0. job' \in Jobs /\ JobInv'
    BY <1>15, JobRequeued DEF RecoverJob, Stall
  <2>1. TypeOK'
    BY <1>15, <2>0 DEF RecoverJob, Stall, Fault, Requeue, RowInv
  <2>2. RowInv' /\ JobInv' /\ LockInv'
    BY <1>15, <2>1, <2>0 DEF RecoverJob, Stall, Fault, Requeue, RowInv, LockInv
  <2>3. CallInv'
    BY <1>15, <2>1, FewerOwing DEF RecoverJob, Stall, Fault, Requeue, Owing, CallInv
  <2>4. ProgressInv'
    BY <1>15, <2>1 DEF RecoverJob, Stall, Fault, Requeue, ProgressInv, LockInv
  <2>5. ResultInv'
    BY <1>15, <2>1 DEF RecoverJob, Stall, Fault, Requeue, ResultInv, ProgressInv,
         AllQuiet
  <2> QED BY <2>1, <2>2, <2>3, <2>4, <2>5
<1>16. ASSUME Flush PROVE IInv'
  <2>1. TypeOK'
    BY <1>16 DEF Flush, Fault, NoJob, RowInv, JobInv, Jobs
  <2>2. RowInv' /\ JobInv' /\ LockInv'
    BY <1>16, <2>1 DEF Flush, Fault, NoJob, RowInv, LockInv, JobInv, Jobs
  <2>3. CallInv'
    BY <1>16, <2>1, FewerOwing DEF Flush, Fault, NoJob, Owing, CallInv
  <2>4. ProgressInv'
    BY <1>16, <2>1 DEF Flush, Fault, NoJob, ProgressInv, LockInv
  <2>5. ResultInv'
    BY <1>16, <2>1 DEF Flush, Fault, NoJob, ResultInv, ProgressInv, AllQuiet
  <2> QED BY <2>1, <2>2, <2>3, <2>4, <2>5
<1>17. ASSUME GrowStale PROVE IInv'
  <2>1. TypeOK'
    BY <1>17 DEF GrowStale, Touch, RowInv, JobInv, Jobs
  <2>2. RowInv' /\ JobInv' /\ LockInv'
    BY <1>17, <2>1 DEF GrowStale, Touch, RowInv, LockInv, JobInv, Jobs
  <2>3. CallInv'
    BY <1>17, <2>1, FewerOwing DEF GrowStale, Touch, Owing, CallInv
  <2>4. ProgressInv'
    BY <1>17, <2>1 DEF GrowStale, Touch, ProgressInv, LockInv
  <2>5. ResultInv'
    BY <1>17, <2>1 DEF GrowStale, Touch, ResultInv, ProgressInv, AllQuiet
  <2> QED BY <2>1, <2>2, <2>3, <2>4, <2>5
<1>18. ASSUME Scan \/ Reclaim PROVE IInv'
  <2>1. TypeOK'
    BY <1>18 DEF Scan, Reclaim, RowInv, JobInv, Jobs
  <2>2. RowInv' /\ JobInv' /\ LockInv'
    BY <1>18, <2>1 DEF Scan, Reclaim, RowInv, LockInv, JobInv, Jobs
  <2>3. CallInv'
    BY <1>18, <2>1, FewerOwing DEF Scan, Reclaim, Owing, CallInv
  <2>4. ProgressInv'
    BY <1>18, <2>1 DEF Scan, Reclaim, ProgressInv, LockInv
  <2>5. ResultInv'
    BY <1>18, <2>1 DEF Scan, Reclaim, ResultInv, ProgressInv, AllQuiet
  <2> QED BY <2>1, <2>2, <2>3, <2>4, <2>5
\* A re-drive counts an attempt too, or dead-letters.
<1>19. ASSUME Age PROVE IInv'
  <2>1. TypeOK'
    <3>1. attempts' \in 0 .. Ceiling + 1
      BY <1>19 DEF Age, AttemptsExhausted, HasAttemptsRemaining
    <3> QED BY <1>19, <3>1 DEF Age, Touch, DeadLetter
  <2>2. RowInv' /\ JobInv' /\ LockInv'
    BY <1>19, <2>1 DEF Age, Touch, DeadLetter, AttemptsExhausted,
         HasAttemptsRemaining, RowInv, LockInv, JobInv, Jobs
  <2>3. CallInv'
    BY <1>19, <2>1, FewerOwing DEF Age, Touch, DeadLetter, AttemptsExhausted,
         HasAttemptsRemaining, Owing, CallInv
  <2>4. ProgressInv'
    BY <1>19, <2>1 DEF Age, Touch, DeadLetter, AttemptsExhausted,
         HasAttemptsRemaining, ProgressInv, LockInv
  <2>5. ResultInv'
    BY <1>19, <2>1 DEF Age, Touch, DeadLetter, AttemptsExhausted,
         HasAttemptsRemaining, ResultInv, ProgressInv, AllQuiet
  <2> QED BY <2>1, <2>2, <2>3, <2>4, <2>5
<1>20. ASSUME Remove \/ Enqueue PROVE IInv'
  <2>1. TypeOK'
    BY <1>20 DEF Remove, Enqueue, NoJob, Waiting, RowInv, JobInv, Jobs
  <2>2. RowInv' /\ JobInv' /\ LockInv'
    BY <1>20, <2>1 DEF Remove, Enqueue, NoJob, Waiting, RowInv, LockInv, JobInv, Jobs
  <2>3. CallInv'
    BY <1>20, <2>1, FewerOwing DEF Remove, Enqueue, NoJob, Waiting, Owing, CallInv
  <2>4. ProgressInv'
    BY <1>20, <2>1 DEF Remove, Enqueue, NoJob, Waiting, ProgressInv, LockInv
  <2>5. ResultInv'
    BY <1>20, <2>1 DEF Remove, Enqueue, NoJob, Waiting, ResultInv, ProgressInv, AllQuiet
  <2> QED BY <2>1, <2>2, <2>3, <2>4, <2>5
<1>21. ASSUME FailUnit PROVE IInv'
  <2>1. TypeOK'
    BY <1>21 DEF FailUnit, Fault, RowInv, JobInv, Jobs
  <2>2. RowInv' /\ JobInv' /\ LockInv'
    BY <1>21, <2>1 DEF FailUnit, Fault, RowInv, LockInv, JobInv, Jobs
  <2>3. CallInv'
    BY <1>21, <2>1, FewerOwing DEF FailUnit, Fault, Owing, CallInv
  <2>4. ProgressInv'
    BY <1>21, <2>1 DEF FailUnit, Fault, ProgressInv, LockInv
  <2>5. ResultInv'
    BY <1>21, <2>1 DEF FailUnit, Fault, ResultInv, ProgressInv, AllQuiet
  <2> QED BY <2>1, <2>2, <2>3, <2>4, <2>5
<1>22. ASSUME GrowOld PROVE IInv'
  <2>1. TypeOK'
    BY <1>22 DEF GrowOld, Quiet, RowInv, JobInv, Jobs
  <2>2. RowInv' /\ JobInv' /\ LockInv'
    BY <1>22, <2>1 DEF GrowOld, Quiet, RowInv, LockInv, JobInv, Jobs
  <2>3. CallInv'
    BY <1>22, <2>1, FewerOwing DEF GrowOld, Quiet, Owing, CallInv
  <2>4. ProgressInv'
    BY <1>22, <2>1 DEF GrowOld, Quiet, ProgressInv, LockInv
  <2>5. ResultInv'
    BY <1>22, <2>1 DEF GrowOld, Quiet, ResultInv, ProgressInv, AllQuiet
  <2> QED BY <2>1, <2>2, <2>3, <2>4, <2>5
\* The stored result goes only when, ~Early, nobody carries it.
<1>23. ASSUME Purge PROVE IInv'
  <2>1. TypeOK'
    BY <1>23 DEF Purge, Quiet, RowInv, JobInv, Jobs
  <2>2. RowInv' /\ JobInv' /\ LockInv'
    BY <1>23, <2>1 DEF Purge, Quiet, RowInv, LockInv, JobInv, Jobs
  <2>3. CallInv'
    BY <1>23, <2>1, FewerOwing DEF Purge, Quiet, Owing, CallInv
  <2>4. ProgressInv'
    BY <1>23, <2>1 DEF Purge, Quiet, ProgressInv, LockInv
  <2>5. ResultInv'
    BY <1>23, <2>1 DEF Purge, Quiet, ResultInv, ProgressInv, AllQuiet
  <2> QED BY <2>1, <2>2, <2>3, <2>4, <2>5
<1>24. CASE UNCHANGED vars
  <2>1. RowInv' /\ JobInv' /\ LockInv' /\ ProgressInv' /\ ResultInv' /\ TypeOK'
    BY <1>24 DEF vars, RowInv, JobInv, LockInv, ProgressInv, ResultInv, AllQuiet
  <2>2. CallInv'
    BY <1>24 DEF vars, CallInv, Owing
  <2> QED BY <2>1, <2>2
<1> QED
  BY <1>1, <1>2, <1>3, <1>4, <1>5, <1>6, <1>7, <1>8, <1>9, <1>10, <1>11, <1>12, <1>13,
       <1>14, <1>15, <1>16, <1>17, <1>18, <1>19, <1>20, <1>21, <1>22, <1>23, <1>24
     DEF Next, Run, Reconcile

LEMMA Inductive == Spec => []IInv
BY InitInv, NextInv, PTL DEF Spec

-----------------------------------------------------------------------------
\* Every variable keeps its type, and no claim or re-drive counts an attempt more
\* than one past attemptsCeiling.
THEOREM TypeCorrect == Spec => []TypeOK
<1>1. IInv => TypeOK
  BY DEF IInv
<1> QED BY <1>1, Inductive, PTL

\* internal/attempts.ts: performExternalCall runs at most attemptsCeiling times,
\* whatever redelivers, re-drives, crashes or stalls.
THEOREM CallsWithinCeiling == Spec => []CallsBounded
<1>1. IInv => CallsBounded
  <2> SUFFICES ASSUME IInv PROVE CallsBounded
    OBVIOUS
  <2>1. Cardinality(Owing) \in Nat
    BY FS_CardinalityType DEF IInv, CallInv
  <2> QED BY <2>1, CeilingAssumption DEF IInv, TypeOK, CallInv, CallsBounded
<1> QED BY <1>1, Inductive, PTL

\* writeAttemptResult: every applyResult carries the one stored result, unless
\* retention deletes it under an attempt in flight.
THEOREM OneResultApplied == Spec => []OneResult
<1>1. IInv => OneResult
  <2> SUFFICES ASSUME IInv, ~Early,
                      NEW r \in (applied \cup {result}) \ {None},
                      NEW s \in (applied \cup {result}) \ {None}
               PROVE  r = s
    BY DEF OneResult
  <2> QED BY DEF IInv, ResultInv
<1> QED BY <1>1, Inductive, PTL

\* completeStage and runPipelineStage: a stage is completed, and its successors
\* ensured, only once applyResult has committed.
THEOREM SettledMeansApplied ==
  Spec => [](status = "completed" \/ ensured => applied # {})
<1>1. IInv => (status = "completed" \/ ensured => applied # {})
  BY DEF IInv, ProgressInv
<1> QED BY <1>1, Inductive, PTL

\* No claim, completion or re-drive takes a dead-lettered stage back, though the
\* terminal route's letter takes no lock.
THEOREM DeadLetterIsFinal == Spec => FailedIsFinal
<1> DEFINE Final == status = "failed" => status' = "failed"
<1>1. [Next]_vars => [Final]_vars
  <2> SUFFICES ASSUME Next, status = "failed" PROVE status' = "failed"
    OBVIOUS
  <2> USE DEF row, DeadLetter
  <2>1. ASSUME NEW w \in Workers, Run(w) PROVE status' = "failed"
    BY <2>1 DEF Run, Take, ReadClaim, Claim, ReadResult, Call, Answer, RouteTerminal,
         WriteResult, ReadComplete, Complete, EnsureSuccessors
  <2>2. ASSUME NEW w \in Workers, Crash(w) \/ Throw(w) PROVE status' = "failed"
    BY <2>2 DEF Crash, Throw, Leave
  <2>3. CASE Promote \/ RecoverJob \/ Stall \/ Flush
    BY <2>3 DEF Promote, RecoverJob, Stall, Requeue, Flush
  <2>4. CASE GrowStale \/ Reconcile \/ FailUnit
    BY <2>4 DEF GrowStale, Reconcile, Scan, Reclaim, Age, Remove, Enqueue, FailUnit
  <2>5. CASE GrowOld \/ Purge
    BY <2>5 DEF GrowOld, Purge
  <2> QED BY <2>1, <2>2, <2>3, <2>4, <2>5 DEF Next
<1> QED BY <1>1, PTL DEF Spec, FailedIsFinal
=============================================================================
