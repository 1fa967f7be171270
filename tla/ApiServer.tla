----------------------------- MODULE ApiServer -----------------------------
(***************************************************************************)
(* The api process as a whole: requests and jobs that share one pool, a    *)
(* supervisor that may exit the process and a shutdown that closes it.     *)
(***************************************************************************)
EXTENDS ApiWorkers, ApiHttp

Boot == BootConfig \/ (\E j \in Jobs : StartWorker(j)) \/ Listen
Shutdown == CloseNext \/ ExitClean

Pass(j) == Claim(j) \/ Apply(j) \/ Applied(j) \/ JobEnds(j)
Serve(r) ==
  \/ BodyRead(r) \/ BucketAnswers(r) \/ AskPool(r) \/ Statement(r) \/ WorkersAnswer(r)
Probe == (\E part \in Parts : ProbeHears(part)) \/ ProbeWell \/ ProbeUnwell \/ GiveUp

Next ==
  \/ Restart \/ Boot \/ BootFails \/ Signal \/ SignalAgain \/ Shutdown
  \/ \E j \in Jobs : TakeJob(j) \/ Pass(j) \/ Wedge(j) \/ Reconnect(j)
  \/ \E r \in Requests : Arrive(r) \/ ArriveHealth(r) \/ Serve(r) \/ HealthDeadline(r)
  \/ Tick \/ Probe
  \/ Crash \/ Flush

\* Statements end, timers fire and every process that ended is started again.
\* Nothing makes requests arrive, jobs fall due, signals come or links recover.
Fairness ==
  /\ WF_vars(Restart) /\ WF_vars(Boot) /\ WF_vars(Shutdown)
  /\ WF_vars(Tick) /\ WF_vars(Probe)
  /\ \A j \in Jobs : WF_vars(Pass(j))
  /\ \A r \in Requests : WF_vars(Serve(r))

Spec == Init /\ [][Next]_vars /\ Fairness

Phases == {"config", "listen", "serving", Exited} \cup Jobs \cup DOMAIN NextPhase

\* Every variable has its type, and nobody holds what nobody asked for: the
\* connections are within DATABASE_POOL_SIZE, no one waits while one is free,
\* none outlives the query of a request or the process (runtime/main.ts, persistence/src/db.ts).
TypeOK ==
  /\ load \in Loads \cup {{}}
  /\ phase \in Phases
  /\ code \in {None, "bootFailed", "crashed", "gaveUp", "clean"}
  /\ open \subseteq Jobs /\ attached \subseteq Jobs /\ scheduled \subseteq Jobs
  /\ leases \subseteq (Jobs \cup Requests) \X {"own", "inner"}
  /\ waiters \in Seq((Jobs \cup Requests) \X {"own", "inner"})
  /\ Cardinality(leases) <= PoolSize
  /\ waiters # <<>> => Ending \/ ~Free
  /\ phase = Exited => leases = {} /\ waiters = <<>>
  /\ job \in [Jobs -> {"idle", "begun", "running", "applying"}]
  /\ rows \in [Jobs -> 0..MaxRows]
  /\ request \in [Requests -> At]
  /\ \A r \in Requests : Asked(Ticket(r)) => request[r] \in AtDatabase
  /\ probing \in BOOLEAN /\ unwell \in BOOLEAN /\ unread \subseteq Parts
  /\ sickFor \in -1..Grace
  /\ wellAgo \in 0..Grace
  /\ faults \in 0..MaxFaults

\* The process ends itself for a reason: cleanly only when no job is under way
\* and no worker takes one, and through the supervisor only when a whole grace
\* window passed since the workers answered healthily, flapping ones included.
ExitsEarned ==
  [][/\ code' = "clean" /\ code # "clean" =>
          open = {} /\ leases = {} /\ \A j \in Jobs : job[j] = "idle"
     /\ code' = "gaveUp" /\ code # "gaveUp" => wellAgo = Grace]_vars

\* Nothing waits for ever (persistence/src/db.ts gives a connection no deadline):
\* however requests, relay passes, health checks that were given up and a shutdown
\* compete for the pool, every request is answered and every job ends, unless the
\* process does first, and a shutdown that began exits.
EveryWaitEnds ==
  /\ \A r \in Requests :
       request[r] \notin {"idle", "given up"} ~> request[r] \in {"idle", "given up"}
  /\ \A j \in Jobs : job[j] # "idle" ~> job[j] = "idle"
  /\ phase = "stopping" ~> phase = Exited

\* A schedule of the reviews workers that Redis lost is registered again, and a
\* worker that lost its connection is attached again, by way of the supervisor.
LostWorkersReturn ==
  \A j \in Watched :
    /\ j \notin scheduled ~> j \in scheduled
    /\ j \notin attached ~> j \in attached
=============================================================================
