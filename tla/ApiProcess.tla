---------------------------- MODULE ApiProcess ----------------------------
(***************************************************************************)
(* The api process (src/apps/api/src/runtime/main.ts): its boot, what its  *)
(* shutdown closes and in which order, how it exits, and the pool of       *)
(* database connections that everything in it shares.                      *)
(*                                                                         *)
(* A connection is a lease <<user, purpose>>.  pg hands connections out    *)
(* first come first served and lets a waiter wait for ever.                *)
(***************************************************************************)
EXTENDS Integers, Sequences, FiniteSets

CONSTANTS
  Requests,   \* slots for the HTTP requests being served at the same time
  PoolSize,   \* DATABASE_POOL_SIZE
  Grace,      \* WORKER_UNHEALTHY_GRACE_MS, in probe intervals
  Loads,      \* the sets of jobs that fall due, one per behaviour
  MaxRows,    \* rows of the outbox a pass of the relay finds, at most
  MaxFaults   \* crashes, failed boots and losses in Redis in one behaviour

ASSUME ApiAssumption ==
  /\ PoolSize \in Nat \ {0}
  /\ Grace \in Nat \ {0}
  /\ Loads \subseteq SUBSET {"relay", "deadLetter", "retention"}
  /\ MaxRows \in Nat
  /\ MaxFaults \in Nat
  /\ Requests \cap {"relay", "deadLetter", "retention"} = {}

\* The workers of the process, and those its health probe asks.
Watched == {"relay", "deadLetter"}
Jobs == Watched \cup {"retention"}

None == "none"
Never == -1
Exited == "exited"

VARIABLES
  load,       \* the jobs that fall due while requests arrive; {}: Redis misbehaves
  phase,      \* where main() or shutdown() is
  code,       \* how the last process ended
  open,       \* the workers that take jobs
  leases,     \* connections handed out
  waiters,    \* who waits for one, first come first
  job,        \* per worker, where its job is
  rows,       \* rows left in the pass a job makes
  request,    \* per slot, where the request is
  attached,   \* the workers whose Redis connection is alive
  scheduled,  \* the repeatable schedules Redis holds
  probing,    \* the supervisor's probe is out
  unread,     \* what it has not heard of yet
  unwell,     \* something it heard was bad
  sickFor,    \* probe intervals since unhealthySince, Never when undefined
  wellAgo,    \* ghost: probe intervals since a healthy answer or the boot
  faults      \* spent of MaxFaults

poolVars == <<leases, waiters>>
redisVars == <<attached, scheduled>>
probeVars == <<probing, unread, unwell, sickFor, wellAgo>>
vars == <<load, phase, code, open, leases, waiters, job, rows, request,
          attached, scheduled, probing, unread, unwell, sickFor, wellAgo, faults>>

(************************** the connection pool ***************************)

\* pool.end() was called: nobody is handed a connection any more.
Ending == phase \in {"destroy", "flush"}

Free == Cardinality(leases) < PoolSize

Ask(l) ==
  /\ leases' = IF Free THEN leases \cup {l} ELSE leases
  /\ waiters' = IF Free THEN waiters ELSE Append(waiters, l)

\* The connection goes to the one who has waited longest.
GiveBack(l) ==
  LET next == IF waiters = <<>> \/ Ending THEN {} ELSE {Head(waiters)} IN
  /\ leases' = (leases \ {l}) \cup next
  /\ waiters' = IF next = {} THEN waiters ELSE Tail(waiters)

\* How many of l wait or have a connection.
Asked(l) == l \in leases \/ \E i \in 1..Len(waiters) : waiters[i] = l

(***************************** boot and exit ******************************)

\* The process is gone, and with it its connections, jobs, probes and requests.
Die(how) ==
  /\ phase' = Exited
  /\ code' = how
  /\ open' = {}
  /\ leases' = {}
  /\ waiters' = <<>>
  /\ job' = [j \in Jobs |-> "idle"]
  /\ rows' = [j \in Jobs |-> 0]
  /\ request' = [r \in Requests |-> "idle"]
  /\ attached' = {}
  /\ probing' = FALSE
  /\ unread' = {}
  /\ unwell' = FALSE
  /\ sickFor' = Never
  /\ wellAgo' = 0
  /\ UNCHANGED <<load, scheduled>>

\* What supervises processes starts it again.
Restart ==
  /\ phase = Exited
  /\ phase' = "config"
  /\ code' = None
  /\ UNCHANGED <<load, open, poolVars, job, rows, request, redisVars, probeVars, faults>>

\* Configuration, observability, pool, mail sender, auth and its two
\* assertions: whatever refuses ends the boot.
BootConfig ==
  /\ phase = "config"
  /\ phase' = "retention"
  /\ UNCHANGED <<load, code, open, poolVars, job, rows, request, redisVars, probeVars, faults>>

\* main().catch: a refused configuration, a Redis that fails an upsert.
BootFails ==
  /\ phase \in {"config"} \cup Jobs
  /\ faults < MaxFaults
  /\ faults' = faults + 1
  /\ Die("bootFailed")

\* The schedule is upserted, then the worker is created.
AfterStarting == [retention |-> "relay", relay |-> "deadLetter", deadLetter |-> "listen"]
StartWorker(j) ==
  /\ phase = j
  /\ scheduled' = scheduled \cup {j}
  /\ attached' = attached \cup {j}
  /\ open' = open \cup {j}
  /\ phase' = AfterStarting[j]
  /\ UNCHANGED <<load, code, poolVars, job, rows, request, probeVars, faults>>

\* The app listens, the supervisor starts and the signals get their handlers.
Listen ==
  /\ phase = "listen"
  /\ phase' = "serving"
  /\ UNCHANGED <<load, code, open, poolVars, job, rows, request, redisVars, probeVars, faults>>

(******************************* shutdown *********************************)

\* SIGTERM or SIGINT.
Signal ==
  /\ phase = "serving"
  /\ phase' = "stopping"
  /\ UNCHANGED <<load, code, open, poolVars, job, rows, request, redisVars, probeVars, faults>>

\* Mutant: the pool is destroyed before the workers close.
DestroyedFirst ==
  [stopping |-> "closeRetention", closeRetention |-> "destroy", destroy |-> "closeRelay",
   closeRelay |-> "closeDeadLetter", closeDeadLetter |-> "closeLimiters",
   closeLimiters |-> "flush", flush |-> Exited]
\* The order shutdown() closes things in.
NextPhase ==
  [stopping |-> "closeRetention", closeRetention |-> "closeRelay",
   closeRelay |-> "closeDeadLetter", closeDeadLetter |-> "closeLimiters",
   closeLimiters |-> "destroy", destroy |-> "flush", flush |-> Exited]

\* A second one finds shuttingDown set.
SignalAgain == phase \in DOMAIN NextPhase /\ UNCHANGED vars

Closing ==
  [closeRetention |-> "retention", closeRelay |-> "relay", closeDeadLetter |-> "deadLetter"]

\* What the step shutdown() is at waits for: a worker for the job it runs, the
\* pool for the connections handed out.  app.stop() may leave requests behind.
StepDone ==
  /\ phase \in DOMAIN Closing => job[Closing[phase]] = "idle"
  /\ phase = "destroy" => leases = {}

CloseNext ==
  /\ phase \in DOMAIN NextPhase \ {"flush"}
  /\ StepDone
  /\ phase' = NextPhase[phase]
  /\ open' = IF phase' \in DOMAIN Closing THEN open \ {Closing[phase']} ELSE open
  /\ UNCHANGED <<load, code, poolVars, job, rows, request, redisVars, probeVars, faults>>

ExitClean ==
  /\ phase = "flush"
  /\ Die("clean")
  /\ UNCHANGED faults

(******************************** faults **********************************)

\* The process is killed, or a signal finds no handler yet.
Crash ==
  /\ load = {}
  /\ phase # Exited
  /\ faults < MaxFaults
  /\ faults' = faults + 1
  /\ Die("crashed")

\* Redis comes back without its data.
Flush ==
  /\ load = {}
  /\ faults < MaxFaults
  /\ faults' = faults + 1
  /\ scheduled' = {}
  /\ UNCHANGED <<load, phase, code, open, poolVars, job, rows, request, attached, probeVars>>

\* A worker's connection breaks in a reconnect; it may or may not come back.
Wedge(j) ==
  /\ load = {}
  /\ j \in attached
  /\ faults < MaxFaults
  /\ faults' = faults + 1
  /\ attached' = attached \ {j}
  /\ UNCHANGED <<load, phase, code, open, poolVars, job, rows, request, scheduled, probeVars>>

Reconnect(j) ==
  /\ phase # Exited
  /\ j \in open \ attached
  /\ attached' = attached \cup {j}
  /\ UNCHANGED <<load, phase, code, open, poolVars, job, rows, request, scheduled, probeVars, faults>>

Init ==
  /\ load \in Loads \cup {{}}
  /\ phase = "config"
  /\ code = None
  /\ open = {}
  /\ leases = {}
  /\ waiters = <<>>
  /\ job = [j \in Jobs |-> "idle"]
  /\ rows = [j \in Jobs |-> 0]
  /\ request = [r \in Requests |-> "idle"]
  /\ attached = {}
  /\ scheduled = {}
  /\ probing = FALSE
  /\ unread = {}
  /\ unwell = FALSE
  /\ sickFor = Never
  /\ wellAgo = 0
  /\ faults = 0
=============================================================================
