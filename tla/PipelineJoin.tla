---------------------------- MODULE PipelineJoin ----------------------------
(***************************************************************************)
(* The branches of one fan-out stage of one instance and their join:       *)
(* packages/jobs/src/branch.ts, the branch and missed-join steps of        *)
(* reconciler.ts and the dead letter that closes siblings (dead-letter.ts).*)
(*                                                                         *)
(* An owned branch is run by workers; a delegated one is completed by a    *)
(* callback handler.  The queue is abstracted to what it may do to a run:  *)
(* any pending owned branch may be delivered to any idle worker, again and *)
(* while another runs it (PipelineStage has the queue in full), and a      *)
(* delivery of a settled branch changes nothing.  Every transaction takes  *)
(* the instance's advisory lock, except the dead letter of a terminal      *)
(* provider error and failBranch's one statement; only the completing      *)
(* transaction can tell, so it is two steps and every other is one.        *)
(***************************************************************************)
EXTENDS Naturals, FiniteSets

CONSTANTS
  Owned, Delegated,  \* branch keys, by kind
  Workers,           \* workers and callback handlers
  Ceiling,           \* attemptsCeiling
  Terminal,          \* TRUE: the provider may answer with a terminal error
  MaxFaults,         \* bound: crashes and failing statements
  None

ASSUME BranchAssumption ==
  Owned \cap Delegated = {} /\ Ceiling \in Nat \ {0} /\ MaxFaults \in Nat
ASSUME WorkerAssumption == None \notin Workers \cup Owned \cup Delegated

VARIABLES
  status, attempts,  \* branch_status_id ("none": no row), attempts
  stored,            \* branches with a write-ahead result
  letters,           \* branches with a row in jobs.dead_letter
  stage,             \* the status of the stage row the join continues
  lock,              \* holder of the instance's advisory lock
  pc, branch,        \* each worker's next statement, and its branch
  continued,         \* onJoinCompleted has run
  faults,
  (* history *)
  closings,          \* times a caller observed CompletedNow
  applied            \* branches whose applyResult has committed

rows == <<status, attempts, stored, letters, stage>>
vars == <<rows, lock, pc, branch, continued, faults, closings, applied>>

Branches == Owned \cup Delegated
Registered == {b \in Branches : status[b] # "none"}
Pending == {b \in Branches : status[b] = "pending"}
AllCompleted == \A b \in Branches : status[b] = "completed"

Init ==
  /\ status = [b \in Branches |-> "none"] /\ attempts = [b \in Branches |-> 0]
  /\ stored = {} /\ letters = {} /\ stage = "pending" /\ lock = None
  /\ pc = [w \in Workers |-> "idle"] /\ branch = [w \in Workers |-> None]
  /\ continued = FALSE /\ faults = 0 /\ closings = 0 /\ applied = {}

GoTo(w, p) == pc' = [pc EXCEPT ![w] = p]
At(w, p) == pc[w] = p
HasAttemptsRemaining(consumed) == consumed < Ceiling

\* writeDeadLetter for branch b: the letter, the stage's status whatever it was,
\* and every branch still pending.
DeadLetter(b) ==
  /\ letters' = letters \cup {b} /\ stage' = "failed"
  /\ status' = [c \in Branches |-> IF status[c] = "pending" THEN "failed" ELSE status[c]]

-----------------------------------------------------------------------------
(* Fan-out *)

\* registerBranches, in the fanning stage's completing transaction, which may
\* commit more than once: ON CONFLICT DO NOTHING.
RegisterBranches ==
  /\ lock = None
  /\ status' = [b \in Branches |-> IF status[b] = "none" THEN "pending" ELSE status[b]]
  /\ UNCHANGED <<attempts, stored, letters, stage, lock, pc, branch, continued,
                 faults, closings, applied>>

-----------------------------------------------------------------------------
(* runPipelineBranch *)

\* claimBranch; the ceiling's dead letter commits with the claim.
ClaimBranch(w, b) ==
  /\ At(w, "idle") /\ lock = None /\ b \in Owned \cap Pending
  /\ attempts' = [attempts EXCEPT ![b] = @ + 1]
  /\ IF HasAttemptsRemaining(attempts[b])
     THEN /\ GoTo(w, "read")
          /\ branch' = [branch EXCEPT ![w] = b]
          /\ UNCHANGED <<status, letters, stage>>
     ELSE DeadLetter(b) /\ UNCHANGED <<pc, branch>>
  /\ UNCHANGED <<stored, lock, continued, faults, closings, applied>>

\* readAttemptResult: a stored result is carried forward.
ReadStored(w) ==
  /\ At(w, "read") /\ GoTo(w, IF branch[w] \in stored THEN "complete" ELSE "call")
  /\ UNCHANGED <<rows, lock, branch, continued, faults, closings, applied>>

\* performExternalCall answers: a result, an error to retry, or a terminal one.
Answer(w) ==
  /\ At(w, "call")
  /\ \/ GoTo(w, "write")
     \/ GoTo(w, "idle")
     \/ Terminal /\ GoTo(w, "deadletter")
  /\ UNCHANGED <<rows, lock, branch, continued, faults, closings, applied>>

\* performExternalCallWithRouting: the dead letter, under no lock.
RouteTerminal(w) ==
  /\ At(w, "deadletter") /\ DeadLetter(branch[w]) /\ GoTo(w, "idle")
  /\ UNCHANGED <<attempts, stored, lock, branch, continued, faults, closings, applied>>

\* writeAttemptResult, under '{stage}:{branchKey}'.
WriteResult(w) ==
  /\ At(w, "write") /\ stored' = stored \cup {branch[w]} /\ GoTo(w, "complete")
  /\ UNCHANGED <<status, attempts, letters, stage, lock, branch, continued, faults,
                 closings, applied>>

\* completeBranchWithApply: the status under the lock.
ReadComplete(w) ==
  /\ At(w, "complete") /\ lock = None
  /\ IF status[branch[w]] = "failed" THEN GoTo(w, "idle") /\ UNCHANGED lock
                                     ELSE GoTo(w, "completing") /\ lock' = w
  /\ UNCHANGED <<rows, branch, continued, faults, closings, applied>>

\* Mutants: only the branches workers run are counted; a branch that is settled
\* already is counted as well as one this call settled.
ClosesLastOwned(b) == status[b] = "pending" /\ Pending \cap Owned \subseteq {b}
ClosesLastReplayed(b) == Pending \subseteq {b}

\* The guarded flip of b, then the count of open siblings: CompletedNow.
ClosesLast(b) == status[b] = "pending" /\ Pending \subseteq {b}

\* completeBranchLocked.
CompleteBranchLocked(w, b) ==
  /\ status' = [status EXCEPT ![b] = IF @ = "pending" THEN "completed" ELSE @]
  /\ IF ClosesLast(b) THEN GoTo(w, "join") /\ closings' = closings + 1
                      ELSE GoTo(w, "idle") /\ UNCHANGED closings

\* applyResult and the flip commit together.
Complete(w) ==
  /\ At(w, "completing") /\ lock' = None
  /\ applied' = applied \cup {branch[w]}
  /\ CompleteBranchLocked(w, branch[w])
  /\ UNCHANGED <<attempts, stored, letters, stage, branch, continued, faults>>

\* completeBranch, by a delegated branch's callback handler, which may be called
\* more than once.
Callback(w, b) ==
  /\ At(w, "idle") /\ lock = None /\ b \in Delegated \cap Registered
  /\ CompleteBranchLocked(w, b)
  /\ branch' = [branch EXCEPT ![w] = b]
  /\ UNCHANGED <<attempts, stored, letters, stage, lock, continued, faults, applied>>

\* onJoinCompleted, after the commit, by whoever observed CompletedNow.
Join(w) ==
  /\ At(w, "join") /\ continued' = TRUE /\ GoTo(w, "idle")
  /\ UNCHANGED <<rows, lock, branch, faults, closings, applied>>

\* A crash, or a statement or a continuation that throws.
Abandon(w) ==
  /\ ~At(w, "idle") /\ faults < MaxFaults /\ faults' = faults + 1
  /\ GoTo(w, "idle")
  /\ lock' = IF lock = w THEN None ELSE lock
  /\ UNCHANGED <<rows, branch, continued, closings, applied>>

\* failBranch: a caller's own bookkeeping on a pending branch. Bound: it stops one
\* past the ceiling.
FailBranch(b) ==
  /\ b \in Pending /\ attempts[b] <= Ceiling
  /\ attempts' = [attempts EXCEPT ![b] = @ + 1]
  /\ UNCHANGED <<status, stored, letters, stage, lock, pc, branch, continued,
                 faults, closings, applied>>

-----------------------------------------------------------------------------
(* reconcilePipeline *)

\* Mutant: the branches no queue job exists for are left to their callbacks.
AgeOwned(b) ==
  /\ b \in Pending \cap Owned /\ lock = None
  /\ IF HasAttemptsRemaining(attempts[b])
     THEN attempts' = [attempts EXCEPT ![b] = @ + 1] /\ UNCHANGED <<status, letters, stage>>
     ELSE DeadLetter(b) /\ UNCHANGED attempts
  /\ UNCHANGED <<stored, lock, pc, branch, continued, faults, closings, applied>>

\* A stale branch of either kind; re-driving an owned one is another delivery.
Age(b) ==
  /\ b \in Pending /\ lock = None
  /\ IF HasAttemptsRemaining(attempts[b])
     THEN attempts' = [attempts EXCEPT ![b] = @ + 1] /\ UNCHANGED <<status, letters, stage>>
     ELSE DeadLetter(b) /\ UNCHANGED attempts
  /\ UNCHANGED <<stored, lock, pc, branch, continued, faults, closings, applied>>

\* Mutant: only a stage that is in progress is looked at.
HealInProgress ==
  /\ stage = "inprogress" /\ Registered # {} /\ AllCompleted
  /\ continued' = TRUE
  /\ UNCHANGED <<rows, lock, pc, branch, faults, closings, applied>>

\* healMissedJoins: all branches completed and the stage row still open and stale.
Heal ==
  /\ stage \in {"pending", "inprogress"} /\ Registered # {} /\ AllCompleted
  /\ continued' = TRUE
  /\ UNCHANGED <<rows, lock, pc, branch, faults, closings, applied>>

\* What the continuation started: the stage's own run, of PipelineStage.
ContinueStage ==
  /\ continued
  /\ \/ stage = "pending" /\ stage' = "inprogress"
     \/ stage = "inprogress" /\ stage' = "completed"
  /\ UNCHANGED <<status, attempts, stored, letters, lock, pc, branch, continued,
                 faults, closings, applied>>

-----------------------------------------------------------------------------
Run(w) ==
  \/ ReadStored(w) \/ Answer(w) \/ RouteTerminal(w) \/ WriteResult(w)
  \/ ReadComplete(w) \/ Complete(w) \/ Join(w)

Next ==
  \/ RegisterBranches
  \/ \E w \in Workers : Run(w) \/ Abandon(w)
  \/ \E w \in Workers, b \in Branches : ClaimBranch(w, b) \/ Callback(w, b)
  \/ \E b \in Branches : FailBranch(b) \/ Age(b)
  \/ Heal \/ ContinueStage

Spec == Init /\ [][Next]_vars

\* Workers take their steps and the reconciler repeats; nobody need deliver a
\* branch or call back.
FairSpec ==
  /\ Spec /\ \A w \in Workers : WF_vars(Run(w))
  /\ \A b \in Branches : WF_vars(Age(b))
  /\ WF_vars(Heal)

-----------------------------------------------------------------------------
(* Properties *)

TypeOK ==
  /\ status \in [Branches -> {"none", "pending", "completed", "failed"}]
  /\ attempts \in [Branches -> 0 .. Ceiling + 2]
  /\ stored \subseteq Owned /\ letters \subseteq Branches /\ applied \subseteq Owned
  /\ stage \in {"pending", "inprogress", "completed", "failed"}
  /\ pc \in [Workers -> {"idle", "read", "call", "deadletter", "write", "complete",
                        "completing", "join"}]
  /\ branch \in [Workers -> Branches \cup {None}]
  /\ lock \in Workers \cup {None} /\ \A w \in Workers : lock = w <=> pc[w] = "completing"
  /\ continued \in BOOLEAN /\ faults \in 0 .. MaxFaults /\ closings \in Nat

\* README INV-4: "Exactly one caller per instance ever observes CompletedNow",
\* whatever was delivered, called back or completed twice.
JoinOnce == closings <= 1

\* branch.ts:60-61: the continuation is for a stage none of whose branches is open
\* or failed, whether a caller or the heal runs it.
JoinMeansAll == continued => AllCompleted

\* ADR-0007 steps 4 and 5, "write ahead" and "commit once": an owned branch that
\* completed has its write-ahead result stored, and applied.
CompletedWasApplied ==
  \A b \in Owned : status[b] = "completed" => b \in stored \cap applied

\* ADR-0007, "closes remaining open branches in the same transaction": a branch
\* fails together with all its open siblings.
FailTogether == (\E b \in Branches : status[b] = "failed") => Pending = {}

\* README INV-3: a branch that completed or failed stays so.
BranchIsFinal ==
  [][\A b \in Branches : status[b] \in {"completed", "failed"} => status'[b] = status[b]]_vars

\* README INV-6: a branch of either kind settles, though nobody delivers it or
\* calls back.
BranchesSettle == \A b \in Branches : (status[b] = "pending") ~> (status[b] # "pending")

\* reconciler.ts:352-355: whoever closed the join may die before it continues, and
\* the stage continues all the same.
JoinContinues == AllCompleted ~> (continued \/ stage = "failed")

-----------------------------------------------------------------------------
(* The inductive invariant behind the safety properties. *)

\* One registration makes all the rows.
RegisterInv == Registered \in {{}, Branches}

\* A branch that is open, or will be, has room for one more attempt.
AttemptInv ==
  \A b \in Branches : status[b] \in {"none", "pending"} => attempts[b] <= Ceiling + 1

\* Whoever closed the join left no branch open or unregistered; the continuation
\* is owed, or run, only when all completed.
JoinInv ==
  /\ JoinOnce /\ JoinMeansAll
  /\ closings > 0 => \A b \in Branches : status[b] \in {"completed", "failed"}
  /\ \A w \in Workers : At(w, "join") => AllCompleted

\* A worker at work has an owned branch, and its result before it completes it.
WorkInv ==
  \A w \in Workers :
    /\ ~At(w, "idle") /\ ~At(w, "join") => branch[w] \in Owned
    /\ At(w, "complete") \/ At(w, "completing") => branch[w] \in stored

IInv == /\ TypeOK /\ RegisterInv /\ AttemptInv /\ FailTogether
        /\ JoinInv /\ WorkInv /\ CompletedWasApplied
=============================================================================
