------------------------------ MODULE ApiHttp ------------------------------
(***************************************************************************)
(* A request to the api, from the socket to its answer: the body cap, the  *)
(* session lookup, the rate limits, the handler and the health routes, in  *)
(* the order of runtime/build-app.ts and http/index.ts, as far as they     *)
(* answer early or use the pool.  What an answer says is abstracted.       *)
(*                                                                         *)
(* A preflight, an unknown path and a wrong method on a health route are   *)
(* answered at once and change nothing.                                    *)
(***************************************************************************)
EXTENDS ApiProcess

\* Where a request waits for the database: at two reads of the session, in its
\* handler or in better-auth's, in SELECT 1, and there after the 503 is sent.
AtDatabase == {"session", "account", "handler", "select", "given up"}
At == AtDatabase \cup {"idle", "body", "bucket", "workers"}

Ticket(r) == <<r, "own">>
Answer(r) == request' = [request EXCEPT ![r] = "idle"]
MoveTo(r, at) == request' = [request EXCEPT ![r] = at]

\* The routes of the api and of auth, and GET /health/worker.
Arrive(r) ==
  /\ load # {}
  /\ phase = "serving"
  /\ request[r] = "idle"
  /\ \E at \in {"body", "workers"} : MoveTo(r, at)
  /\ UNCHANGED <<load, phase, code, open, poolVars, job, rows, redisVars, probeVars, faults>>

\* GET /health starts its SELECT 1 and the deadline together.
ArriveHealth(r) ==
  /\ load # {}
  /\ phase = "serving"
  /\ request[r] = "idle"
  /\ MoveTo(r, "select")
  /\ Ask(Ticket(r))
  /\ UNCHANGED <<load, phase, code, open, job, rows, redisVars, probeVars, faults>>

\* The body was read to its end: over the cap it is answered 413.  Under it a
\* session is looked up, or the bucket of the auth routes asked.  Bound: clients
\* finish what they send.
BodyRead(r) ==
  /\ request[r] = "body"
  /\ \E at \in {"session", "bucket", "idle"} : MoveTo(r, at)
  /\ UNCHANGED <<load, phase, code, open, poolVars, job, rows, redisVars, probeVars, faults>>

\* A limiter admits or answers 429; so do the guards of a route that needs a
\* session or a capability (401, 403), its validation (400) and no route (404).
BucketAnswers(r) ==
  /\ request[r] = "bucket"
  /\ MoveTo(r, "handler") \/ Answer(r)
  /\ UNCHANGED <<load, phase, code, open, poolVars, job, rows, redisVars, probeVars, faults>>

\* A query asks for a connection; of a pool that is ending it gets an error,
\* and the request a 500.
AskPool(r) ==
  /\ request[r] \in {"session", "account", "handler"}
  /\ ~Asked(Ticket(r))
  /\ IF Ending THEN Answer(r) /\ UNCHANGED poolVars
               ELSE Ask(Ticket(r)) /\ UNCHANGED request
  /\ UNCHANGED <<load, phase, code, open, job, rows, redisVars, probeVars, faults>>

\* Where a query leads: to an answer, also when it throws; a session that was
\* found to its account; who is known to the limiter, nobody as well.
After ==
  [session |-> {"account", "bucket", "idle"}, account |-> {"bucket", "idle"},
   handler |-> {"idle"}, select |-> {"idle"}]

\* Mutant: a transaction whose handler throws keeps its connection.
LeakingStatement(r) ==
  /\ Ticket(r) \in leases
  /\ \E at \in IF request[r] \in DOMAIN After THEN After[request[r]] ELSE {"idle"} : MoveTo(r, at)
  /\ \/ GiveBack(Ticket(r))
     \/ request[r] = "handler" /\ UNCHANGED poolVars
  /\ UNCHANGED <<load, phase, code, open, job, rows, redisVars, probeVars, faults>>
\* A query ends, a handler's transaction as one, and so does the SELECT 1 nobody
\* waits for.
Statement(r) ==
  /\ Ticket(r) \in leases
  /\ \E at \in IF request[r] \in DOMAIN After THEN After[request[r]] ELSE {"idle"} : MoveTo(r, at)
  /\ GiveBack(Ticket(r))
  /\ UNCHANGED <<load, phase, code, open, job, rows, redisVars, probeVars, faults>>

\* The health route answers 503 at its deadline; the attempt stays in the queue.
HealthDeadline(r) ==
  /\ request[r] = "select"
  /\ MoveTo(r, "given up")
  /\ UNCHANGED <<load, phase, code, open, poolVars, job, rows, redisVars, probeVars, faults>>

\* GET /health/worker asks Redis only, within its deadlines.
WorkersAnswer(r) ==
  /\ request[r] = "workers"
  /\ Answer(r)
  /\ UNCHANGED <<load, phase, code, open, poolVars, job, rows, redisVars, probeVars, faults>>
=============================================================================
