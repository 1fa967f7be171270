---------------------------- MODULE ApiWorkers ----------------------------
(***************************************************************************)
(* The background half of the api process: the jobs of its three workers,  *)
(* as far as they use the pool, and the supervisor that exits the process  *)
(* when the reviews workers stay dead (runtime/worker-liveness.ts).        *)
(***************************************************************************)
EXTENDS ApiProcess

(********************************* jobs ***********************************)

\* The relay's transaction keeps its connection while apply asks the pool for
\* another one: recomputeProductRating is given options.db.  The batches of the
\* other jobs take one connection after the other; one stands for all.
Nested(j) == j = "relay"

Own(j) == <<j, "own">>
Inner(j) == <<j, "inner">>

\* A tick of the schedule reaches the worker.  Of a pool that is ending the job
\* gets an error at once.
TakeJob(j) ==
  /\ ~Ending
  /\ j \in load \cap open \cap attached \cap scheduled
  /\ job[j] = "idle"
  /\ job' = [job EXCEPT ![j] = "begun"]
  /\ Ask(Own(j))
  /\ UNCHANGED <<load, phase, code, open, rows, request, redisVars, probeVars, faults>>

\* The pass claims its rows.
Claim(j) ==
  /\ job[j] = "begun"
  /\ Own(j) \in leases
  /\ job' = [job EXCEPT ![j] = "running"]
  /\ \E n \in IF Nested(j) THEN 0..MaxRows ELSE {0} : rows' = [rows EXCEPT ![j] = n]
  /\ UNCHANGED <<load, phase, code, open, poolVars, request, redisVars, probeVars, faults>>

\* A row asks the pool for its own connection; one that is ending fails the row.
Apply(j) ==
  /\ job[j] = "running"
  /\ rows[j] > 0
  /\ IF Ending
       THEN /\ rows' = [rows EXCEPT ![j] = @ - 1]
            /\ UNCHANGED <<job, poolVars>>
       ELSE /\ job' = [job EXCEPT ![j] = "applying"]
            /\ Ask(Inner(j))
            /\ UNCHANGED rows
  /\ UNCHANGED <<load, phase, code, open, request, redisVars, probeVars, faults>>

\* Applied or failed, the pass marks the row and goes on.
Applied(j) ==
  /\ job[j] = "applying"
  /\ Inner(j) \in leases
  /\ GiveBack(Inner(j))
  /\ rows' = [rows EXCEPT ![j] = @ - 1]
  /\ job' = [job EXCEPT ![j] = "running"]
  /\ UNCHANGED <<load, phase, code, open, request, redisVars, probeVars, faults>>

\* The pass commits, or a statement of its own failed and it rolls back.
JobEnds(j) ==
  /\ job[j] = "running"
  /\ GiveBack(Own(j))
  /\ job' = [job EXCEPT ![j] = "idle"]
  /\ rows' = [rows EXCEPT ![j] = 0]
  /\ UNCHANGED <<load, phase, code, open, request, redisVars, probeVars, faults>>

(****************************** supervisor ********************************)

\* isReady() and the schedules of the stage, each within its own deadline: what
\* is fine may still be too slow to say so.
Attached(j) == {FALSE, (j \in attached)}
Registered(j) == {FALSE, (j \in scheduled)}

Parts == Watched \X {"worker", "schedule"}
Heard(part) == IF part[2] = "worker" THEN Attached(part[1]) ELSE Registered(part[1])

Later(n) == IF n = Never \/ n = Grace THEN n ELSE n + 1

\* An interval passes.  Its timer starts a probe unless one is out; close()
\* stops the timer and leaves the probe that is out alone.  Only a fail-closed
\* tier has a supervisor (load = {}).
Tick ==
  /\ load = {}
  /\ phase \notin {"config", Exited} \cup Jobs
  /\ sickFor' = Later(sickFor)
  /\ wellAgo' = Later(wellAgo)
  /\ IF phase = "serving" /\ ~probing
       THEN /\ probing' = TRUE
            /\ unread' = Parts
            /\ unwell' = FALSE
       ELSE UNCHANGED <<probing, unread, unwell>>
  /\ UNCHANGED <<load, phase, code, open, poolVars, job, rows, request, redisVars, faults>>

\* The four questions are asked together and answered in any order.
ProbeHears(part) ==
  /\ part \in unread
  /\ unread' = unread \ {part}
  /\ \E fine \in Heard(part) : unwell' = (unwell \/ ~fine)
  /\ UNCHANGED <<load, phase, code, open, poolVars, job, rows, request, redisVars,
                 probing, sickFor, wellAgo, faults>>

\* Mutant: a healthy answer leaves unhealthySince as it was.
KeepsTheClock ==
  /\ probing /\ unread = {} /\ ~unwell
  /\ probing' = FALSE
  /\ wellAgo' = 0
  /\ UNCHANGED <<load, phase, code, open, poolVars, job, rows, request, redisVars,
                 unread, unwell, sickFor, faults>>
ProbeWell ==
  /\ probing /\ unread = {} /\ ~unwell
  /\ probing' = FALSE
  /\ sickFor' = Never
  /\ wellAgo' = 0
  /\ UNCHANGED <<load, phase, code, open, poolVars, job, rows, request, redisVars,
                 unread, unwell, faults>>

\* Mutant: the early return of the first bad answer skips `probing = false`.
StaysProbing ==
  /\ probing /\ unread = {} /\ unwell
  /\ sickFor # Grace
  /\ unread' = IF sickFor = Never THEN {None} ELSE {}
  /\ probing' = (sickFor = Never)
  /\ sickFor' = IF sickFor = Never THEN 0 ELSE sickFor
  /\ UNCHANGED <<load, phase, code, open, poolVars, job, rows, request, redisVars,
                 unwell, wellAgo, faults>>
\* The first bad answer starts the clock; a later one within the grace waits.
ProbeUnwell ==
  /\ probing /\ unread = {} /\ unwell
  /\ sickFor # Grace
  /\ probing' = FALSE
  /\ sickFor' = IF sickFor = Never THEN 0 ELSE sickFor
  /\ UNCHANGED <<load, phase, code, open, poolVars, job, rows, request, redisVars,
                 unread, unwell, wellAgo, faults>>

\* onUnrecoverable exits the process, a shutdown in progress included.
GiveUp ==
  /\ probing /\ unread = {} /\ unwell
  /\ sickFor = Grace
  /\ Die("gaveUp")
  /\ UNCHANGED faults
=============================================================================
