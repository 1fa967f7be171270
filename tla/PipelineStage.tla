--------------------------- MODULE PipelineStage ---------------------------
(***************************************************************************)
(* One stage of one instance under packages/jobs: runPipelineStage         *)
(* (stage.ts) run by workers that take the stage's one job from a BullMQ   *)
(* queue in Redis (packages/messaging), dead-lettered by the claim, by the *)
(* reconciler or by a terminal provider error (dead-letter.ts,             *)
(* internal/terminal-routing.ts), and re-driven by the reconciler          *)
(* (reconciler.ts).  Every transaction that takes the instance's advisory  *)
(* lock is two steps, its locked read and its write with COMMIT, because   *)
(* one writer, the terminal dead letter, takes no lock.  Retention         *)
(* (retention.ts) deletes stored results by age, whatever the stage is at. *)
(* Instances share nothing; the branches of a stage and their join are     *)
(* PipelineJoin.                                                           *)
(***************************************************************************)
EXTENDS Naturals

CONSTANTS
  Workers,
  Ceiling,    \* attemptsCeiling
  Tries,      \* defaultAttempts of the queue: deliveries of one job
  Scenarios,  \* what a run may meet: a set of [faults, most, punctual, early]
  Reconciler, \* the reconciler, among the holders of the lock
  None

ASSUME CeilingAssumption == Ceiling \in Nat
ASSUME TriesAssumption == Tries \in Nat \ {0}
ASSUME ScenarioAssumption == \A s \in Scenarios : s.most \in Nat
ASSUME HolderAssumption ==
  Reconciler \notin Workers /\ None \notin Workers \cup {Reconciler} \cup Nat

VARIABLES
  scenario,          \* the one of this behavior
  status, attempts,  \* {stage}_stage_status_id, {stage}_attempts
  stale,             \* {stage}_updated_at is older than staleAfterMs
  result,            \* the stage_result row: the call that produced it, None if none
  age,               \* its created_at: no older than the stage's updated_at ("new"), older
                     \* than that or than staleAfterMs ("grown"), past its horizon ("old")
  letter,            \* a jobs.dead_letter row of the stage
  lock,              \* holder of the instance's advisory lock
  job,               \* the stage's job in Redis, under its deterministic id
  pc, got,           \* each worker's next statement; the result it carries
  rec,               \* the reconciler's next statement for this stage
  calls,             \* external calls begun
  applied,           \* results applyResult has committed
  ensured,           \* ensureSuccessors has run after a completion
  faults

row == <<status, attempts, stale, result, age, letter, scenario>>
seen == <<calls, applied, ensured>>
vars == <<row, lock, job, pc, got, rec, seen, faults>>

\* What may go wrong: any of "crash", "throw", "stall", "flush", and of the
\* provider's "retry" and "terminal" errors; how many of the first four, in all;
\* and whether staleAfterMs exceeds a stage's duration, backoff included, as
\* reconciler.ts:423 asks, so that no row is stale while anything works on it; and
\* whether a result can outlive its horizon while an attempt is in flight, which
\* retention.ts:74-79 takes staleAfterMs to exclude.
Faults == scenario.faults
MaxFaults == scenario.most
Punctual == scenario.punctual
Early == scenario.early

NoJob == [st |-> "none", by |-> None, tries |-> 0, stalled |-> 0]
Waiting == [NoJob EXCEPT !.st = "waiting"]

\* The caller has committed the instance row and enqueued its first job.
Init ==
  /\ scenario \in Scenarios
  /\ status = "pending" /\ attempts = 0 /\ stale = FALSE /\ letter = FALSE
  /\ result = None /\ age = "new"
  /\ lock = None /\ job = Waiting
  /\ pc = [w \in Workers |-> "idle"] /\ got = [w \in Workers |-> None]
  /\ rec = "idle"
  /\ calls = 0 /\ applied = {} /\ ensured = FALSE /\ faults = 0

Fault(kind) == kind \in Faults /\ faults < MaxFaults /\ faults' = faults + 1

GoTo(w, p) == pc' = [pc EXCEPT ![w] = p]
Mine(w) == job.st = "active" /\ job.by = w

\* The job's delivery ends; a worker that no longer owns it changes nothing.
Ack(w) == job' = IF Mine(w) THEN [job EXCEPT !.st = "completed", !.by = None] ELSE job
Stop(w) == job' = IF Mine(w) THEN [job EXCEPT !.st = "failed", !.by = None] ELSE job
Again(w) ==
  job' = IF ~Mine(w) THEN job
         ELSE [job EXCEPT !.st = IF job.tries + 1 < Tries THEN "delayed" ELSE "failed",
                          !.by = None, !.tries = @ + 1]

\* writeDeadLetter: the letter, and the status without a guard on what it was.
DeadLetter == letter' = TRUE /\ status' = "failed" /\ stale' = FALSE

\* updated_at moves past the stored result's created_at.
Touch == age' = IF result # None /\ age = "new" THEN "grown" ELSE age

-----------------------------------------------------------------------------
(* BullMQ, from how packages/messaging drives it. *)

Take(w) ==
  /\ pc[w] = "idle" /\ job.st = "waiting"
  /\ job' = [job EXCEPT !.st = "active", !.by = w]
  /\ GoTo(w, "claim") /\ got' = [got EXCEPT ![w] = None]
  /\ UNCHANGED <<row, lock, rec, seen, faults>>

\* The backoff of a retried delivery has passed.
Promote ==
  /\ job.st = "delayed" /\ job' = [job EXCEPT !.st = "waiting"]
  /\ UNCHANGED <<row, lock, pc, got, rec, seen, faults>>

\* A job whose lock was not renewed is delivered again once, then failed.
Requeue ==
  /\ job' = IF job.stalled = 0 THEN [job EXCEPT !.st = "waiting", !.by = None, !.stalled = 1]
            ELSE [job EXCEPT !.st = "failed", !.by = None]
  /\ UNCHANGED <<row, lock, pc, got, rec, seen>>

RecoverJob == job.st = "active" /\ pc[job.by] = "idle" /\ Requeue /\ UNCHANGED faults

\* The worker lives but could not renew: it runs on without the job.
Stall == job.st = "active" /\ pc[job.by] # "idle" /\ Fault("stall") /\ Requeue

\* Redis loses its data.
Flush ==
  /\ job.st # "none" /\ Fault("flush") /\ job' = NoJob
  /\ UNCHANGED <<row, lock, pc, got, rec, seen>>

-----------------------------------------------------------------------------
(* claimStage *)

\* Mutant: a replay of a completed stage is only acknowledged.
ReadClaimAcked(w) ==
  /\ pc[w] = "claim" /\ lock = None
  /\ \/ status \in {"completed", "failed"} /\ GoTo(w, "idle") /\ Ack(w) /\ UNCHANGED lock
     \/ status \in {"pending", "inprogress"} /\ GoTo(w, "claiming") /\ lock' = w /\ UNCHANGED job
  /\ UNCHANGED <<row, got, rec, seen, faults>>

\* The status under the lock: completed and failed end the run here.
ReadClaim(w) ==
  /\ pc[w] = "claim" /\ lock = None
  /\ \/ status = "completed" /\ GoTo(w, "ensure") /\ UNCHANGED <<lock, job>>
     \/ status = "failed" /\ GoTo(w, "idle") /\ Ack(w) /\ UNCHANGED lock
     \/ status \in {"pending", "inprogress"} /\ GoTo(w, "claiming") /\ lock' = w /\ UNCHANGED job
  /\ UNCHANGED <<row, got, rec, seen, faults>>

\* internal/attempts.ts: consumed attempts against the ceiling, from both sides.
HasAttemptsRemaining(consumed) == consumed < Ceiling

ClaimReachedCeiling(after) == ~HasAttemptsRemaining(after - 1)

\* Mutant: an attempt that resumes a stage in progress is not counted.
ClaimUncounted(w) ==
  /\ pc[w] = "claiming" /\ lock' = None
  /\ IF status \in {"pending", "inprogress"}
     THEN /\ attempts' = attempts + IF status = "pending" THEN 1 ELSE 0
          /\ Touch
          /\ IF ClaimReachedCeiling(attempts + 1)
             THEN DeadLetter /\ GoTo(w, "idle") /\ Stop(w)
             ELSE /\ status' = "inprogress" /\ stale' = FALSE
                  /\ GoTo(w, "read") /\ UNCHANGED <<letter, job>>
     ELSE GoTo(w, "idle") /\ Stop(w) /\ UNCHANGED <<status, attempts, stale, age, letter>>
  /\ UNCHANGED <<scenario, result, got, rec, seen, faults>>

\* The guarded UPDATE; the ceiling's dead letter commits with it and the throw
\* that follows is terminal, as is the one for a guard that matched no row.
Claim(w) ==
  /\ pc[w] = "claiming" /\ lock' = None
  /\ IF status \in {"pending", "inprogress"}
     THEN /\ attempts' = attempts + 1
          /\ Touch
          /\ IF ClaimReachedCeiling(attempts + 1)
             THEN DeadLetter /\ GoTo(w, "idle") /\ Stop(w)
             ELSE /\ status' = "inprogress" /\ stale' = FALSE
                  /\ GoTo(w, "read") /\ UNCHANGED <<letter, job>>
     ELSE GoTo(w, "idle") /\ Stop(w) /\ UNCHANGED <<status, attempts, stale, age, letter>>
  /\ UNCHANGED <<scenario, result, got, rec, seen, faults>>

-----------------------------------------------------------------------------
(* runPipelineStage after its claim *)

ReadResult(w) ==
  /\ pc[w] = "read"
  /\ got' = [got EXCEPT ![w] = result]
  /\ GoTo(w, IF result = None THEN "call" ELSE "complete")
  /\ UNCHANGED <<row, lock, job, rec, seen, faults>>

\* performExternalCall, outside any transaction; its number stands for its result.
Call(w) ==
  /\ pc[w] = "call" /\ GoTo(w, "answer")
  /\ calls' = calls + 1 /\ got' = [got EXCEPT ![w] = calls + 1]
  /\ UNCHANGED <<row, lock, job, rec, applied, ensured, faults>>

\* A result, an error classifyRetry retries, or one it calls terminal.
Answer(w) ==
  /\ pc[w] = "answer"
  /\ \/ GoTo(w, "write") /\ UNCHANGED job
     \/ "retry" \in Faults /\ GoTo(w, "idle") /\ Again(w)
     \/ "terminal" \in Faults /\ GoTo(w, "deadletter") /\ UNCHANGED job
  /\ UNCHANGED <<row, lock, got, rec, seen, faults>>

\* performExternalCallWithRouting: the dead letter on the pooled handle, under
\* no lock, then the provider's error again.
RouteTerminal(w) ==
  /\ pc[w] = "deadletter" /\ DeadLetter /\ Touch
  /\ GoTo(w, "idle") /\ Stop(w)
  /\ UNCHANGED <<scenario, attempts, result, lock, got, rec, seen, faults>>

\* Mutant: the caller carries its own result on, whoever's was stored.
WriteResultOwn(w) ==
  /\ pc[w] = "write" /\ GoTo(w, "complete")
  /\ result' = (IF result = None THEN got[w] ELSE result)
  /\ age' = (IF result = None THEN "new" ELSE age)
  /\ UNCHANGED <<scenario, status, attempts, stale, letter, lock, job, got, rec, seen, faults>>

\* INSERT ... ON CONFLICT DO NOTHING, and the row that exists is carried on.
WriteResult(w) ==
  /\ pc[w] = "write" /\ GoTo(w, "complete")
  /\ result' = (IF result = None THEN got[w] ELSE result)
  /\ age' = (IF result = None THEN "new" ELSE age)
  /\ got' = [got EXCEPT ![w] = result']
  /\ UNCHANGED <<scenario, status, attempts, stale, letter, lock, job, rec, seen, faults>>

\* completeStage: the status re-checked under the lock.
ReadComplete(w) ==
  /\ pc[w] = "complete" /\ lock = None
  /\ IF status = "failed" THEN GoTo(w, "idle") /\ Ack(w) /\ UNCHANGED lock
                          ELSE GoTo(w, "completing") /\ lock' = w /\ UNCHANGED job
  /\ UNCHANGED <<row, got, rec, seen, faults>>

\* Mutant: the completing UPDATE names no status.
CompleteUnguarded(w) ==
  /\ pc[w] = "completing" /\ lock' = None /\ GoTo(w, "ensure")
  /\ applied' = applied \cup {got[w]}
  /\ status' = "completed" /\ stale' = FALSE
  /\ Touch
  /\ UNCHANGED <<scenario, attempts, result, letter, job, got, rec, calls, ensured, faults>>

\* applyResult and the guarded flip commit together; a lost guard is no error.
Complete(w) ==
  /\ pc[w] = "completing" /\ lock' = None /\ GoTo(w, "ensure")
  /\ applied' = applied \cup {got[w]}
  /\ IF status = "inprogress" THEN status' = "completed" /\ stale' = FALSE
                              ELSE UNCHANGED <<status, stale>>
  /\ Touch
  /\ UNCHANGED <<scenario, attempts, result, letter, job, got, rec, calls, ensured, faults>>

EnsureSuccessors(w) ==
  /\ pc[w] = "ensure" /\ ensured' = TRUE /\ GoTo(w, "idle") /\ Ack(w)
  /\ UNCHANGED <<row, lock, got, rec, calls, applied, faults>>

\* The connection or process is lost, and its transaction with it.
Leave(w) ==
  /\ pc[w] # "idle" /\ GoTo(w, "idle")
  /\ lock' = IF lock = w THEN None ELSE lock
  /\ UNCHANGED <<row, got, rec, seen>>

Crash(w) == Leave(w) /\ Fault("crash") /\ UNCHANGED job

\* A statement fails: an error classifyRetry does not know is retried.
Throw(w) == Leave(w) /\ Fault("throw") /\ Again(w)

-----------------------------------------------------------------------------
(* reconcilePipeline, on this stage *)

\* updated_at comes of age; only an in_progress stage is ever asked.
GrowStale ==
  /\ status = "inprogress" /\ ~stale /\ stale' = TRUE
  /\ Punctual => /\ job.st \notin {"waiting", "active", "delayed"} /\ rec = "idle"
                 /\ \A w \in Workers : pc[w] = "idle"
  /\ Touch
  /\ UNCHANGED <<scenario, status, attempts, result, letter, lock, job, pc, got, rec, seen, faults>>

Scan ==
  /\ rec = "idle" /\ status = "inprogress" /\ stale /\ rec' = "lock"
  /\ UNCHANGED <<row, lock, job, pc, got, seen, faults>>

\* Status and staleness again, under the lock.
Reclaim ==
  /\ rec = "lock" /\ lock = None
  /\ IF status = "inprogress" /\ stale THEN rec' = "age" /\ lock' = Reconciler
                                       ELSE rec' = "idle" /\ UNCHANGED lock
  /\ UNCHANGED <<row, job, pc, got, seen, faults>>

AttemptsExhausted(consumed) == ~HasAttemptsRemaining(consumed)

\* Mutant: an exhausted row is passed over.
AgeUnlettered ==
  /\ rec = "age" /\ lock' = None
  /\ IF AttemptsExhausted(attempts)
     THEN rec' = "idle" /\ UNCHANGED <<attempts, stale>>
     ELSE attempts' = attempts + 1 /\ stale' = FALSE /\ rec' = "remove"
  /\ Touch
  /\ UNCHANGED <<scenario, status, letter, result, job, pc, got, seen, faults>>

Age ==
  /\ rec = "age" /\ lock' = None
  /\ IF AttemptsExhausted(attempts)
     THEN DeadLetter /\ rec' = "idle" /\ UNCHANGED attempts
     ELSE /\ attempts' = attempts + 1 /\ stale' = FALSE /\ rec' = "remove"
          /\ UNCHANGED <<status, letter>>
  /\ Touch
  /\ UNCHANGED <<scenario, result, job, pc, got, seen, faults>>

\* Mutant: the re-drive only adds.
RemoveSkipped ==
  /\ rec = "remove" /\ rec' = "enqueue"
  /\ UNCHANGED <<row, lock, job, pc, got, seen, faults>>

\* Queue.remove leaves an active job alone.
Remove ==
  /\ rec = "remove" /\ rec' = "enqueue"
  /\ job' = IF job.st = "active" THEN job ELSE NoJob
  /\ UNCHANGED <<row, lock, pc, got, seen, faults>>

\* Queue.add ignores an id that exists, whatever became of it.
Enqueue ==
  /\ rec = "enqueue" /\ rec' = "idle"
  /\ job' = IF job.st = "none" THEN Waiting ELSE job
  /\ UNCHANGED <<row, lock, pc, got, seen, faults>>

\* The unit fails or the process dies; the next pass finds the row again.
FailUnit ==
  /\ rec # "idle" /\ rec' = "idle" /\ \E k \in {"crash", "throw"} : Fault(k)
  /\ lock' = IF lock = Reconciler THEN None ELSE lock
  /\ UNCHANGED <<row, job, pc, got, seen>>

-----------------------------------------------------------------------------
(* purgePipelineData, on this stage's result *)

\* No attempt of the stage is in flight, nor will one be: its row is terminal.
Quiet == status # "inprogress" /\ \A w \in Workers : pc[w] \in {"idle", "claim", "ensure"}

\* The result's created_at passes stageResultRetainMs, which exceeds staleAfterMs
\* (assertHorizonExceedsStaleAfter): a result that has not outlived the one
\* cannot have outlived the other.
GrowOld ==
  /\ result # None /\ age = "grown" /\ age' = "old"
  /\ Early \/ Quiet
  /\ UNCHANGED <<status, attempts, stale, result, letter, scenario, lock, job, pc, got, rec, seen,
                 faults>>

\* The batched DELETE names created_at only: no lock, no status.
Purge ==
  /\ result # None /\ age = "old" /\ result' = None /\ age' = "new"
  /\ Early \/ Quiet
  /\ UNCHANGED <<status, attempts, stale, letter, scenario, lock, job, pc, got, rec, seen, faults>>

Run(w) ==
  \/ Take(w) \/ ReadClaim(w) \/ Claim(w) \/ ReadResult(w) \/ Call(w) \/ Answer(w)
  \/ RouteTerminal(w) \/ WriteResult(w) \/ ReadComplete(w) \/ Complete(w) \/ EnsureSuccessors(w)

Reconcile == Scan \/ Reclaim \/ Age \/ Remove \/ Enqueue

Next ==
  \/ \E w \in Workers : Run(w) \/ Crash(w) \/ Throw(w)
  \/ Promote \/ RecoverJob \/ Stall \/ Flush
  \/ GrowStale \/ Reconcile \/ FailUnit
  \/ GrowOld \/ Purge

Spec == Init /\ [][Next]_vars

\* Workers poll, BullMQ promotes and recovers, the clock runs, the reconciler
\* repeats; faults owe nothing.
FairSpec ==
  /\ Spec /\ \A w \in Workers : WF_vars(Run(w))
  /\ WF_vars(Promote) /\ WF_vars(RecoverJob) /\ WF_vars(GrowStale) /\ WF_vars(Reconcile)

-----------------------------------------------------------------------------
(* Properties *)

Jobs == [st : {"none", "waiting", "active", "delayed", "completed", "failed"},
         by : Workers \cup {None}, tries : 0 .. Tries, stalled : 0 .. 1]

\* Types, and the last claim one past the ceiling: claims and re-drives, which
\* count the same attempts from their two sides, never take it further.
TypeOK ==
  /\ scenario \in Scenarios
  /\ status \in {"pending", "inprogress", "completed", "failed"}
  /\ age \in {"new", "grown", "old"} /\ (result = None => age = "new")
  /\ attempts \in 0 .. Ceiling + 1 /\ stale \in BOOLEAN /\ letter \in BOOLEAN
  /\ result \in Nat \cup {None} /\ lock \in Workers \cup {Reconciler, None}
  /\ job \in Jobs
  /\ pc \in [Workers -> {"idle", "claim", "claiming", "read", "call", "answer", "deadletter",
                         "write", "complete", "completing", "ensure"}]
  /\ got \in [Workers -> Nat \cup {None}]
  /\ rec \in {"idle", "lock", "age", "remove", "enqueue"}
  /\ calls \in Nat /\ applied \subseteq Nat /\ ensured \in BOOLEAN /\ faults \in 0 .. MaxFaults

\* internal/attempts.ts: "a unit gets at most ceiling attempts, then
\* dead-letters": no interleaving of claims, re-drives and faults calls out more.
CallsBounded == calls <= Ceiling

\* stage.ts:209-210: whatever raced, every applyResult carried one result, and it
\* is the stored one, or retention has since deleted that; unless it did so while
\* an attempt was in flight.
OneResult == Early \/ \A r, s \in (applied \cup {result}) \ {None} : r = s

\* stage.ts:20: a dead-lettered stage is never resurrected.
FailedIsFinal == [][status = "failed" => status' = "failed"]_vars

\* ADR-0007, "a crash at any point in a job leaves the system recoverable": once
\* claimed, the stage completes or dead-letters, whatever was lost since.
StartedSettles == (status = "inprogress") ~> (status \in {"completed", "failed"})

\* What the dead letter is not for: with a provider that answers, a stage that
\* was claimed completes, if its ceiling leaves two attempts for each fault, the
\* one the reconciler counts and the one of the claim it leads to.
Recovers == (Punctual /\ status = "inprogress") ~> (status = "completed")

\* stage.ts:277-279: successors are ensured after the commit or on a replay of it,
\* when one thing went wrong.  A second takes the replay too, as does a failing
\* ensureSuccessors in the last delivery the provider's errors left: the reconciler
\* asks for no completed stage.
SuccessorsEnsured ==
  (MaxFaults = 1 /\ ~({"throw", "retry"} \subseteq Faults) /\ status = "completed")
    ~> (ensured \/ status = "failed")

\* stage.ts:206-207, "failed => rollback, return AlreadyFailed".
FailedNotApplied == [][status = "failed" => applied' = applied]_vars
=============================================================================
