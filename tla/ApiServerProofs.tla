---------------------------- MODULE ApiServerProofs ----------------------------
(***************************************************************************)
(* The api process for any requests, pool, grace window and loads: who may *)
(* hold or await a connection, in which phase what is closed, and that the *)
(* process ends itself only for a reason.                                  *)
(***************************************************************************)
EXTENDS ApiServer, FiniteSetTheorems, TLAPS

Tickets == (Jobs \cup Requests) \X {"own", "inner"}

\* Nobody is in the pool twice, and nobody waits beside a free connection.
PoolInv ==
  /\ leases \subseteq Tickets /\ waiters \in Seq(Tickets)
  /\ IsFiniteSet(leases) /\ Cardinality(leases) <= PoolSize
  /\ waiters # <<>> => Ending \/ ~Free
  /\ \A i \in 1..Len(waiters) : waiters[i] \notin leases
  /\ \A i, k \in 1..Len(waiters) : waiters[i] = waiters[k] => i = k

\* A job is in the pool from its start to its end, and once more while it applies.
JobInv ==
  \A j \in Jobs :
    /\ Asked(Own(j)) <=> job[j] # "idle"
    /\ job[j] \in {"running", "applying"} => Own(j) \in leases
    /\ Asked(Inner(j)) <=> job[j] = "applying"
    /\ job[j] = "applying" => rows[j] > 0

RequestInv == \A r \in Requests : Asked(Ticket(r)) => request[r] \in AtDatabase

\* The phases from the closing of each worker on.
From ==
  [retention |-> {"closeRetention", "closeRelay", "closeDeadLetter", "closeLimiters", "destroy", "flush"},
   relay |-> {"closeRelay", "closeDeadLetter", "closeLimiters", "destroy", "flush"},
   deadLetter |-> {"closeDeadLetter", "closeLimiters", "destroy", "flush"}]

\* What has been closed stays closed: a worker takes no job, then has none, and
\* at last no connection is out.
PhaseInv ==
  /\ \A j \in Jobs : phase \in From[j] =>
       /\ j \notin open
       /\ phase \notin DOMAIN Closing \/ Closing[phase] # j => job[j] = "idle"
  /\ phase = "flush" => leases = {}
  /\ phase = Exited =>
       /\ leases = {} /\ waiters = <<>> /\ open = {}
       /\ \A j \in Jobs : job[j] = "idle"
       /\ \A r \in Requests : request[r] = "idle"

\* The supervisor's clock started after the workers were last heard to be well.
ClockInv ==
  /\ sickFor \in -1..Grace /\ wellAgo \in 0..Grace
  /\ sickFor # Never => sickFor <= wellAgo

TypesInv ==
  /\ load \in Loads \cup {{}}
  /\ phase \in Phases
  /\ code \in {None, "bootFailed", "crashed", "gaveUp", "clean"}
  /\ open \subseteq Jobs /\ attached \subseteq Jobs /\ scheduled \subseteq Jobs
  /\ job \in [Jobs -> {"idle", "begun", "running", "applying"}]
  /\ rows \in [Jobs -> 0..MaxRows]
  /\ request \in [Requests -> At]
  /\ probing \in BOOLEAN /\ unwell \in BOOLEAN /\ unread \subseteq Parts
  /\ faults \in 0..MaxFaults

IInv == TypesInv /\ PoolInv /\ JobInv /\ RequestInv /\ PhaseInv /\ ClockInv

-----------------------------------------------------------------------------
\* Whoever asks holds a connection or waits, and nobody else is disturbed.
LEMMA AskKeeps ==
  ASSUME PoolInv, NEW l \in Tickets, ~Asked(l), ~Ending, phase' = phase, Ask(l)
  PROVE  /\ PoolInv'
         /\ \A k \in Tickets : Asked(k)' <=> Asked(k) \/ k = l
         /\ leases \subseteq leases'
<1> USE ApiAssumption DEF Free
<1>1. Cardinality(leases) \in Nat /\ ~Ending'
  BY FS_CardinalityType DEF PoolInv, Ending
<1>2. CASE Free
  <2>1. waiters = <<>> /\ waiters' = <<>> /\ leases' = leases \cup {l}
    BY <1>2 DEF PoolInv, Ask
  <2>2. IsFiniteSet(leases') /\ Cardinality(leases') = Cardinality(leases) + 1
    BY <2>1, FS_AddElement DEF PoolInv, Asked
  <2> QED BY <1>1, <1>2, <2>1, <2>2 DEF PoolInv, Asked
<1>3. CASE ~Free
  <2>1. waiters' = Append(waiters, l) /\ leases' = leases /\ waiters \in Seq(Tickets)
    BY <1>3 DEF PoolInv, Ask
  <2>2. /\ waiters' \in Seq(Tickets) /\ Len(waiters') = Len(waiters) + 1
        /\ waiters'[Len(waiters) + 1] = l
        /\ \A i \in 1..Len(waiters) : waiters'[i] = waiters[i]
        /\ Len(waiters) \in Nat
    BY <2>1
  <2> HIDE DEF Free
  <2>3. \A k \in Tickets : Asked(k)' <=> Asked(k) \/ k = l
    BY <2>1, <2>2 DEF Asked
  <2>4. \A i \in 1..Len(waiters') : waiters'[i] \notin leases'
    BY <2>1, <2>2 DEF Asked, PoolInv
  <2>5. \A i, k \in 1..Len(waiters') : waiters'[i] = waiters'[k] => i = k
    BY <2>2 DEF Asked, PoolInv
  <2>6. ~Free'
    BY <1>3, <2>1 DEF Free
  <2> QED BY <2>1, <2>2, <2>3, <2>4, <2>5, <2>6 DEF PoolInv
<1> QED BY <1>2, <1>3

\* Who gives a connection back is out of the pool, and nobody else is: the one who
\* waited longest may have got it.
LEMMA GiveBackKeeps ==
  ASSUME PoolInv, NEW l \in leases, phase' = phase, GiveBack(l)
  PROVE  /\ PoolInv'
         /\ \A k \in Tickets : Asked(k)' <=> Asked(k) /\ k # l
         /\ leases \ {l} \subseteq leases'
<1> USE ApiAssumption
<1>1. /\ Cardinality(leases) \in Nat /\ (Ending' <=> Ending)
      /\ IsFiniteSet(leases \ {l}) /\ Cardinality(leases \ {l}) = Cardinality(leases) - 1
  BY FS_CardinalityType, FS_RemoveElement DEF PoolInv, Ending
<1>2. CASE waiters = <<>> \/ Ending
  <2>1. leases' = leases \ {l} /\ waiters' = waiters
    BY <1>2 DEF GiveBack
  <2>2. \A i \in 1..Len(waiters) : waiters[i] # l
    BY DEF PoolInv
  <2> QED BY <1>1, <1>2, <2>1, <2>2 DEF PoolInv, Asked
<1>3. CASE waiters # <<>> /\ ~Ending
  <2> DEFINE h == Head(waiters)
  <2>1. leases' = (leases \ {l}) \cup {h} /\ waiters' = Tail(waiters)
    BY <1>3 DEF GiveBack
  <2>2. /\ waiters \in Seq(Tickets) /\ waiters' \in Seq(Tickets) /\ h \in Tickets
        /\ Len(waiters) \in Nat /\ Len(waiters) > 0 /\ h = waiters[1]
        /\ Len(waiters') = Len(waiters) - 1
        /\ \A i \in 1..Len(waiters') : waiters'[i] = waiters[i + 1]
    BY <1>3, <2>1 DEF PoolInv
  <2> HIDE DEF h
  <2>3. h \notin leases /\ \A i \in 1..Len(waiters') : waiters'[i] \notin leases /\ waiters'[i] # h
    BY <2>2 DEF PoolInv
  <2>4. IsFiniteSet(leases') /\ Cardinality(leases') = Cardinality(leases)
    <3>1. h \notin leases \ {l}
      BY <2>3
    <3>2. /\ IsFiniteSet((leases \ {l}) \cup {h})
          /\ Cardinality((leases \ {l}) \cup {h}) = Cardinality(leases \ {l}) + 1
      BY <1>1, <3>1, FS_AddElement
    <3> QED BY <1>1, <2>1, <3>2
  <2>5. \A k \in Tickets : Asked(k)' <=> Asked(k) /\ k # l
    <3>1. \A k : (\E i \in 1..Len(waiters) : waiters[i] = k)
             <=> k = h \/ \E i \in 1..Len(waiters') : waiters'[i] = k
      <4> TAKE k
      <4>1. ASSUME NEW i \in 1..Len(waiters), waiters[i] = k
            PROVE  k = h \/ \E n \in 1..Len(waiters') : waiters'[n] = k
        <5>1. CASE i = 1
          BY <4>1, <5>1, <2>2
        <5>2. CASE i # 1
          <6>1. Len(waiters') = Len(waiters) - 1 /\ Len(waiters) \in Nat
            BY <2>2
          <6>2. i - 1 \in 1..(Len(waiters) - 1)
            BY ONLY <5>2, <6>1, i \in 1..Len(waiters)
          <6>3. i - 1 \in 1..Len(waiters') /\ waiters'[i - 1] = k
            BY <4>1, <6>1, <6>2, <2>2
          <6> QED BY <6>3
        <5> QED BY <5>1, <5>2
      <4>2. ASSUME NEW i \in 1..Len(waiters'), waiters'[i] = k
            PROVE  \E n \in 1..Len(waiters) : waiters[n] = k
        BY <4>2, <2>2
      <4> QED BY <4>1, <4>2, <2>2
    <3>2. \A i \in 1..Len(waiters') : waiters'[i] # l
      BY <2>3
    <3> QED BY <3>1, <3>2, <2>1, <2>3 DEF Asked
  <2>6. waiters' # <<>> => ~Free'
    BY <1>3, <2>4 DEF PoolInv, Free
  <2>7. \A i, k \in 1..Len(waiters') : waiters'[i] = waiters'[k] => i = k
    BY <2>2 DEF PoolInv
  <2>8. leases' \subseteq Tickets /\ \A i \in 1..Len(waiters') : waiters'[i] \notin leases'
    BY <2>1, <2>2, <2>3 DEF PoolInv
  <2> QED BY <2>1, <2>2, <2>4, <2>5, <2>6, <2>7, <2>8 DEF PoolInv
<1> QED BY <1>2, <1>3

-----------------------------------------------------------------------------
\* A process that boots for the first time.
LEMMA InitInv == Init => IInv
<1> SUFFICES ASSUME Init PROVE IInv
  OBVIOUS
<1> USE ApiAssumption DEF Init
<1>1. TypesInv
  <2>1. phase \in Phases /\ faults \in 0..MaxFaults /\ 0 \in 0..MaxRows /\ "idle" \in At
    BY DEF Phases, At
  <2> QED BY <2>1 DEF TypesInv
<1>2. PoolInv
  BY FS_EmptySet DEF PoolInv
<1>3. JobInv /\ RequestInv
  BY DEF JobInv, RequestInv, Asked
<1>4. PhaseInv /\ ClockInv
  BY DEF PhaseInv, ClockInv, From, Jobs, Watched, Exited, Never
<1> QED BY <1>1, <1>2, <1>3, <1>4 DEF IInv

\* However the process ends, nothing of it is left.
LEMMA DieKeeps ==
  ASSUME IInv, faults' \in 0..MaxFaults,
         NEW how \in {"bootFailed", "crashed", "gaveUp", "clean"}, Die(how)
  PROVE  IInv'
<1> USE ApiAssumption DEF Die, IInv
<1>1. TypesInv'
  <2>1. phase' \in Phases /\ 0 \in 0..MaxRows /\ "idle" \in At
    BY DEF Phases, At
  <2> QED BY <2>1 DEF TypesInv
<1>2. PoolInv'
  BY FS_EmptySet DEF PoolInv
<1>3. JobInv' /\ RequestInv'
  BY DEF JobInv, RequestInv, Asked
<1>4. PhaseInv'
  BY DEF PhaseInv, From, Jobs, Watched, Exited
<1>5. ClockInv'
  BY DEF ClockInv, Never
<1> QED BY <1>1, <1>2, <1>3, <1>4, <1>5

\* Where nobody asks or gives back, the pool is kept unless it stops ending.
LEMMA PoolRests ==
  ASSUME IInv, poolVars' = poolVars, Ending => Ending'
  PROVE  PoolInv' /\ \A k : Asked(k)' <=> Asked(k)
BY DEF IInv, PoolInv, poolVars, Asked, Free

\* The tables of the shutdown, entry by entry.
LEMMA Tables ==
  /\ Jobs = {"relay", "deadLetter", "retention"}
  /\ DOMAIN NextPhase = {"stopping", "closeRetention", "closeRelay", "closeDeadLetter",
                         "closeLimiters", "destroy", "flush"}
  /\ DOMAIN Closing = {"closeRetention", "closeRelay", "closeDeadLetter"}
  /\ NextPhase["stopping"] = "closeRetention" /\ NextPhase["closeRetention"] = "closeRelay"
  /\ NextPhase["closeRelay"] = "closeDeadLetter" /\ NextPhase["closeDeadLetter"] = "closeLimiters"
  /\ NextPhase["closeLimiters"] = "destroy" /\ NextPhase["destroy"] = "flush"
  /\ Closing["closeRetention"] = "retention" /\ Closing["closeRelay"] = "relay"
  /\ Closing["closeDeadLetter"] = "deadLetter"
BY DEF Jobs, Watched, NextPhase, Closing

\* A phase after the next, with the closed worker idle and the pool drained.
LEMMA CloseKeeps ==
  ASSUME IInv, CloseNext
  PROVE  IInv'
<1> USE Tables DEF CloseNext
<1>0. phase \in {"stopping", "closeRetention", "closeRelay", "closeDeadLetter",
                 "closeLimiters", "destroy"}
  OBVIOUS
<1>1. TypesInv'
  <2>1. phase' \in DOMAIN NextPhase
    BY <1>0
  <2> QED BY <2>1 DEF IInv, TypesInv, Phases, redisVars, probeVars, poolVars
<1>2. PoolInv' /\ \A k : Asked(k)' <=> Asked(k)
  <2>1. poolVars' = poolVars
    OBVIOUS
  <2>2. Ending => Ending'
    BY <1>0 DEF Ending
  <2> QED BY <2>1, <2>2, PoolRests
<1>3. JobInv' /\ RequestInv'
  BY <1>2 DEF IInv, JobInv, RequestInv, poolVars
<1>4. PhaseInv'
  <2> USE DEF IInv, PhaseInv, From, StepDone, Exited, poolVars
  <2>1. CASE phase = "stopping"
    BY <2>1
  <2>2. CASE phase = "closeRetention"
    BY <2>2
  <2>3. CASE phase = "closeRelay"
    BY <2>3
  <2>4. CASE phase = "closeDeadLetter"
    BY <2>4
  <2>5. CASE phase = "closeLimiters"
    BY <2>5
  <2>6. CASE phase = "destroy"
    BY <2>6
  <2> QED BY <1>0, <2>1, <2>2, <2>3, <2>4, <2>5, <2>6
<1>5. ClockInv'
  BY DEF IInv, ClockInv, probeVars
<1> QED BY <1>1, <1>2, <1>3, <1>4, <1>5 DEF IInv

\* The boot, the restart before it and the signal after it close nothing.
LEMMA BootKeeps ==
  ASSUME IInv, Restart \/ BootConfig \/ (\E j \in Jobs : StartWorker(j)) \/ Listen \/ Signal
  PROVE  IInv'
<1> USE Tables DEF Restart, BootConfig, StartWorker, Listen, Signal, Exited
<1>1. /\ poolVars' = poolVars /\ UNCHANGED <<load, job, rows, request, probeVars, faults>>
      /\ phase \in {Exited, "config", "listen", "serving"} \cup Jobs
      /\ phase' \in {"config", "retention", "relay", "deadLetter", "listen", "serving", "stopping"}
      /\ code' \in {None, code}
      /\ open' \subseteq open \cup Jobs /\ attached' \subseteq attached \cup Jobs
      /\ scheduled' \subseteq scheduled \cup Jobs
  <2>1. CASE \E j \in Jobs : StartWorker(j)
    BY <2>1 DEF AfterStarting
  <2> QED BY <2>1 DEF redisVars
<1> HIDE DEF Restart, BootConfig, StartWorker, Listen, Signal
<1>2. TypesInv'
  BY <1>1 DEF IInv, TypesInv, Phases, probeVars
<1>3. PoolInv' /\ \A k : Asked(k)' <=> Asked(k)
  BY <1>1, PoolRests DEF Ending
<1>4. JobInv' /\ RequestInv'
  BY <1>1, <1>3 DEF IInv, JobInv, RequestInv, poolVars
<1>5. PhaseInv'
  BY <1>1 DEF PhaseInv, From
<1>6. ClockInv'
  BY <1>1 DEF IInv, ClockInv, probeVars
<1> QED BY <1>2, <1>3, <1>4, <1>5, <1>6 DEF IInv

-----------------------------------------------------------------------------
\* What touches neither the phase nor the pool, a job or a request.
LEMMA QuietKeeps ==
  ASSUME IInv, TypesInv', ClockInv', UNCHANGED <<phase, open, poolVars, job, rows, request>>
  PROVE  IInv'
<1>1. PoolInv' /\ \A k : Asked(k)' <=> Asked(k)
  BY PoolRests DEF Ending
<1>2. JobInv' /\ RequestInv'
  BY <1>1 DEF IInv, JobInv, RequestInv, poolVars
<1>3. PhaseInv'
  BY DEF IInv, PhaseInv, poolVars
<1> QED BY <1>1, <1>2, <1>3 DEF IInv

\* Losses in Redis and the reconnects after them.
LEMMA RedisKeeps ==
  ASSUME IInv, Flush \/ \E j \in Jobs : Wedge(j) \/ Reconnect(j)
  PROVE  IInv'
<1> USE DEF Flush, Wedge, Reconnect
<1>1. UNCHANGED <<load, phase, code, open, poolVars, job, rows, request, probeVars>>
  OBVIOUS
<1>2. attached' \subseteq Jobs /\ scheduled' \subseteq Jobs /\ faults' \in 0..MaxFaults
  BY ApiAssumption DEF IInv, TypesInv
<1> HIDE DEF Flush, Wedge, Reconnect
<1>3. TypesInv' /\ ClockInv'
  BY <1>1, <1>2 DEF IInv, TypesInv, ClockInv, probeVars
<1> QED BY <1>1, <1>3, QuietKeeps

\* The supervisor keeps its clock behind the time since the last healthy answer.
LEMMA ProbeKeeps ==
  ASSUME IInv, Tick \/ (\E part \in Parts : ProbeHears(part)) \/ ProbeWell \/ ProbeUnwell
  PROVE  IInv'
<1> USE ApiAssumption DEF Never
<1>0. UNCHANGED <<load, phase, code, open, poolVars, job, rows, request, redisVars, faults>>
  BY DEF Tick, ProbeHears, ProbeWell, ProbeUnwell
<1>1. probing' \in BOOLEAN /\ unread' \subseteq Parts /\ unwell' \in BOOLEAN
  <2>1. CASE Tick
    BY <2>1 DEF Tick, IInv, TypesInv
  <2>2. CASE \E part \in Parts : ProbeHears(part)
    <3>1. unwell' \in BOOLEAN
      BY <2>2, Zenon DEF ProbeHears
    <3> QED BY <2>2, <3>1 DEF ProbeHears, IInv, TypesInv
  <2>3. CASE ProbeWell \/ ProbeUnwell
    BY <2>3 DEF ProbeWell, ProbeUnwell, IInv, TypesInv
  <2> QED BY <2>1, <2>2, <2>3
<1>2. ClockInv'
  <2>1. CASE Tick
    BY <2>1 DEF Tick, Later, IInv, ClockInv
  <2>2. CASE (\E part \in Parts : ProbeHears(part)) \/ ProbeWell \/ ProbeUnwell
    BY <2>2 DEF ProbeHears, ProbeWell, ProbeUnwell, IInv, ClockInv
  <2> QED BY <2>1, <2>2
<1>3. TypesInv'
  BY <1>0, <1>1 DEF IInv, TypesInv, redisVars
<1> QED BY <1>0, <1>2, <1>3, QuietKeeps

-----------------------------------------------------------------------------
\* No request has the name of a job, so that each ticket is its owner's alone.
LEMMA Apart ==
  /\ \A j \in Jobs : Own(j) \in Tickets /\ Inner(j) \in Tickets
  /\ \A r \in Requests : Ticket(r) \in Tickets
  /\ \A i, j \in Jobs : Own(i) # Inner(j) /\ (Own(i) = Own(j) \/ Inner(i) = Inner(j) => i = j)
  /\ \A r \in Requests, j \in Jobs : Ticket(r) # Own(j) /\ Ticket(r) # Inner(j)
  /\ \A q, r \in Requests : Ticket(q) = Ticket(r) => q = r
BY ApiAssumption, Tables DEF Own, Inner, Ticket, Tickets

\* A step of a job happens before its worker is closed, the pool not ending.
LEMMA JobPhases ==
  ASSUME IInv, NEW j \in Jobs, job[j] # "idle" \/ j \in open,
         UNCHANGED <<phase, open, request>>,
         \A i \in Jobs \ {j} : job'[i] = job[i]
  PROVE  PhaseInv' /\ ~Ending
<1> USE Tables DEF IInv, PhaseInv, From, Exited
<1>1. phase \notin {"closeLimiters", "destroy", "flush", Exited}
  OBVIOUS
<1> QED BY <1>1 DEF Ending

\* A job starts by asking for its connection.
LEMMA TakeJobKeeps == ASSUME IInv, NEW j \in Jobs, TakeJob(j) PROVE IInv'
<1> USE DEF TakeJob
<1>1. job[j] = "idle" /\ j \in open /\ UNCHANGED <<load, phase, open, rows, request, code, redisVars, probeVars, faults>>
  OBVIOUS
<1>2. job \in [Jobs -> {"idle", "begun", "running", "applying"}]
  BY DEF IInv, TypesInv
<1>3. /\ job' \in [Jobs -> {"idle", "begun", "running", "applying"}]
      /\ job'[j] = "begun" /\ \A i \in Jobs \ {j} : job'[i] = job[i]
  BY <1>2
<1>4. /\ PoolInv' /\ leases \subseteq leases'
      /\ \A k \in Tickets : Asked(k)' <=> Asked(k) \/ k = Own(j)
  <2>1. ~Asked(Own(j)) /\ Own(j) \in Tickets
    BY <1>1, Apart DEF IInv, JobInv
  <2>2. PoolInv /\ ~Ending /\ phase' = phase /\ Ask(Own(j))
    BY DEF IInv
  <2> HIDE DEF TakeJob
  <2> QED BY <2>1, <2>2, AskKeeps
<1> HIDE DEF TakeJob
<1>5. JobInv' /\ RequestInv'
  BY <1>1, <1>3, <1>4, Apart DEF IInv, JobInv, RequestInv
<1>6. PhaseInv'
  BY <1>1, <1>3, JobPhases
<1>7. TypesInv' /\ ClockInv'
  BY <1>1, <1>3 DEF IInv, TypesInv, ClockInv, redisVars, probeVars
<1> QED BY <1>4, <1>5, <1>6, <1>7 DEF IInv

\* With its connection it claims rows, and the relay's pass asks for nothing yet.
LEMMA ClaimKeeps == ASSUME IInv, NEW j \in Jobs, Claim(j) PROVE IInv'
<1> USE DEF Claim
<1>1. /\ job[j] = "begun" /\ Own(j) \in leases
      /\ UNCHANGED <<load, phase, code, open, poolVars, request, redisVars, probeVars, faults>>
  OBVIOUS
<1>2. /\ job' \in [Jobs -> {"idle", "begun", "running", "applying"}]
      /\ job'[j] = "running" /\ \A i \in Jobs \ {j} : job'[i] = job[i]
  BY DEF IInv, TypesInv
<1>3. rows' \in [Jobs -> 0..MaxRows] /\ \A i \in Jobs \ {j} : rows'[i] = rows[i]
  BY ApiAssumption DEF IInv, TypesInv
<1> HIDE DEF Claim
<1>4. PoolInv' /\ \A k : Asked(k)' <=> Asked(k)
  BY <1>1, PoolRests DEF Ending
<1>5. JobInv' /\ RequestInv'
  BY <1>1, <1>2, <1>3, <1>4 DEF IInv, JobInv, RequestInv, poolVars
<1>6. PhaseInv'
  BY <1>1, <1>2, JobPhases
<1>7. TypesInv' /\ ClockInv'
  BY <1>1, <1>2, <1>3 DEF IInv, TypesInv, ClockInv, redisVars, probeVars
<1> QED BY <1>4, <1>5, <1>6, <1>7 DEF IInv

\* A row asks while its pass holds on, of a pool that is never ending then.
LEMMA ApplyKeeps == ASSUME IInv, NEW j \in Jobs, Apply(j) PROVE IInv'
<1> USE DEF Apply
<1>1. /\ job[j] = "running" /\ rows[j] > 0
      /\ UNCHANGED <<load, phase, code, open, request, redisVars, probeVars, faults>>
  OBVIOUS
<1>2. ~Ending
  <2>1. \A i \in Jobs : phase \in {"destroy", "flush"} => job[i] = "idle"
    BY Tables DEF IInv, PhaseInv, From
  <2> QED BY <1>1, <2>1 DEF Ending
<1>3. job' = [job EXCEPT ![j] = "applying"] /\ Ask(Inner(j)) /\ UNCHANGED rows
  BY <1>2
<1> HIDE DEF Apply
<1>4. /\ job' \in [Jobs -> {"idle", "begun", "running", "applying"}]
      /\ job'[j] = "applying" /\ \A i \in Jobs \ {j} : job'[i] = job[i]
  BY <1>3 DEF IInv, TypesInv
<1>5. /\ PoolInv' /\ leases \subseteq leases'
      /\ \A k \in Tickets : Asked(k)' <=> Asked(k) \/ k = Inner(j)
  <2>1. ~Asked(Inner(j)) /\ Inner(j) \in Tickets
    BY <1>1, Apart DEF IInv, JobInv
  <2> QED BY <1>1, <1>2, <1>3, <2>1, AskKeeps DEF IInv
<1>6. JobInv' /\ RequestInv'
  BY <1>1, <1>3, <1>4, <1>5, Apart DEF IInv, JobInv, RequestInv
<1>7. PhaseInv'
  BY <1>1, <1>4, JobPhases
<1>8. TypesInv' /\ ClockInv'
  BY <1>1, <1>3, <1>4 DEF IInv, TypesInv, ClockInv, redisVars, probeVars
<1> QED BY <1>5, <1>6, <1>7, <1>8 DEF IInv

\* The row's connection goes back, its pass keeps the other.
LEMMA AppliedKeeps == ASSUME IInv, NEW j \in Jobs, Applied(j) PROVE IInv'
<1> USE DEF Applied
<1>1. /\ job[j] = "applying" /\ Inner(j) \in leases /\ GiveBack(Inner(j))
      /\ UNCHANGED <<load, phase, code, open, request, redisVars, probeVars, faults>>
  OBVIOUS
<1>2. /\ job' \in [Jobs -> {"idle", "begun", "running", "applying"}]
      /\ job'[j] = "running" /\ \A i \in Jobs \ {j} : job'[i] = job[i]
  BY DEF IInv, TypesInv
<1>3. rows' \in [Jobs -> 0..MaxRows] /\ \A i \in Jobs \ {j} : rows'[i] = rows[i]
  <2>1. rows[j] > 0 /\ rows[j] \in 0..MaxRows
    BY <1>1 DEF IInv, JobInv, TypesInv
  <2>2. rows[j] - 1 \in 0..MaxRows
    BY <2>1, ApiAssumption
  <2> QED BY <2>2 DEF IInv, TypesInv
<1> HIDE DEF Applied
<1>4. /\ PoolInv' /\ leases \ {Inner(j)} \subseteq leases'
      /\ \A k \in Tickets : Asked(k)' <=> Asked(k) /\ k # Inner(j)
  BY <1>1, GiveBackKeeps DEF IInv
<1>5. JobInv' /\ RequestInv'
  BY <1>1, <1>2, <1>3, <1>4, Apart DEF IInv, JobInv, RequestInv
<1>6. PhaseInv'
  BY <1>1, <1>2, JobPhases
<1>7. TypesInv' /\ ClockInv'
  BY <1>1, <1>2, <1>3 DEF IInv, TypesInv, ClockInv, redisVars, probeVars
<1> QED BY <1>4, <1>5, <1>6, <1>7 DEF IInv

\* The pass ends with the one connection it has left.
LEMMA JobEndsKeeps == ASSUME IInv, NEW j \in Jobs, JobEnds(j) PROVE IInv'
<1> USE DEF JobEnds
<1>1. /\ job[j] = "running" /\ GiveBack(Own(j))
      /\ UNCHANGED <<load, phase, code, open, request, redisVars, probeVars, faults>>
  OBVIOUS
<1>2. /\ job' \in [Jobs -> {"idle", "begun", "running", "applying"}]
      /\ job'[j] = "idle" /\ \A i \in Jobs \ {j} : job'[i] = job[i]
  BY DEF IInv, TypesInv
<1>3. rows' \in [Jobs -> 0..MaxRows] /\ \A i \in Jobs \ {j} : rows'[i] = rows[i]
  BY ApiAssumption DEF IInv, TypesInv
<1> HIDE DEF JobEnds
<1>4. /\ PoolInv' /\ leases \ {Own(j)} \subseteq leases'
      /\ \A k \in Tickets : Asked(k)' <=> Asked(k) /\ k # Own(j)
  <2>1. Own(j) \in leases
    BY <1>1 DEF IInv, JobInv
  <2> QED BY <1>1, <2>1, GiveBackKeeps DEF IInv
<1>5. JobInv' /\ RequestInv'
  BY <1>1, <1>2, <1>3, <1>4, Apart DEF IInv, JobInv, RequestInv
<1>6. PhaseInv'
  BY <1>1, <1>2, JobPhases
<1>7. TypesInv' /\ ClockInv'
  BY <1>1, <1>2, <1>3 DEF IInv, TypesInv, ClockInv, redisVars, probeVars
<1> QED BY <1>4, <1>5, <1>6, <1>7 DEF IInv

-----------------------------------------------------------------------------
\* A request moves while the process runs, and beside the pool it holds nothing.
LEMMA RequestKeeps ==
  ASSUME IInv, NEW r \in Requests, request[r] # "idle" \/ phase = "serving",
         UNCHANGED <<load, phase, code, open, job, rows, redisVars, probeVars, faults>>,
         NEW at \in At, request' = [request EXCEPT ![r] = at],
         PoolInv', leases \ {Ticket(r)} \subseteq leases', leases' = leases \/ phase # "flush",
         \A k \in Tickets : k # Ticket(r) => (Asked(k)' <=> Asked(k)),
         Asked(Ticket(r))' => at \in AtDatabase
  PROVE  IInv'
<1>1. /\ request' \in [Requests -> At] /\ request'[r] = at
      /\ \A q \in Requests \ {r} : request'[q] = request[q]
  BY DEF IInv, TypesInv
<1>2. JobInv' /\ RequestInv'
  BY <1>1, Apart DEF IInv, JobInv, RequestInv
<1>3. PhaseInv'
  <2>1. phase # Exited
    BY DEF IInv, PhaseInv, Exited
  <2> QED BY <2>1 DEF IInv, PhaseInv
<1>4. TypesInv' /\ ClockInv'
  BY <1>1 DEF IInv, TypesInv, ClockInv, redisVars, probeVars
<1> QED BY <1>2, <1>3, <1>4 DEF IInv

\* The moves that leave the pool alone end where nothing was asked for, or stay
\* with the query that was.
LEMMA MovesKeep ==
  ASSUME IInv, NEW r \in Requests,
         Arrive(r) \/ BodyRead(r) \/ BucketAnswers(r) \/ WorkersAnswer(r) \/ HealthDeadline(r)
  PROVE  IInv'
<1> USE DEF Arrive, BodyRead, BucketAnswers, WorkersAnswer, HealthDeadline, MoveTo, Answer
<1>1. /\ request[r] # "idle" \/ phase = "serving"
      /\ UNCHANGED <<load, phase, code, open, poolVars, job, rows, redisVars, probeVars, faults>>
  OBVIOUS
<1>2. PICK at \in At : /\ request' = [request EXCEPT ![r] = at]
                       /\ request[r] \in AtDatabase => at \in AtDatabase
  BY DEF At, AtDatabase
<1> HIDE DEF Arrive, BodyRead, BucketAnswers, WorkersAnswer, HealthDeadline, MoveTo, Answer
<1>3. PoolInv' /\ \A k : Asked(k)' <=> Asked(k)
  BY <1>1, PoolRests DEF Ending
<1>4. Asked(Ticket(r))' => at \in AtDatabase
  BY <1>2, <1>3 DEF IInv, RequestInv
<1> QED BY <1>1, <1>2, <1>3, <1>4, RequestKeeps DEF poolVars

\* A request asks at most once before its query ends.
LEMMA AsksKeep ==
  ASSUME IInv, NEW r \in Requests, ArriveHealth(r) \/ AskPool(r)
  PROVE  IInv'
<1> USE DEF ArriveHealth, AskPool, MoveTo, Answer
<1>1. /\ request[r] # "idle" \/ phase = "serving"
      /\ UNCHANGED <<load, phase, code, open, job, rows, redisVars, probeVars, faults>>
  OBVIOUS
<1>2. ~Asked(Ticket(r)) /\ Ticket(r) \in Tickets
  BY Apart DEF IInv, RequestInv, AtDatabase
<1>3. \/ /\ poolVars' = poolVars /\ request' = [request EXCEPT ![r] = "idle"]
      \/ /\ ~Ending /\ Ask(Ticket(r))
         /\ \E at \in AtDatabase : request' = [request EXCEPT ![r] = at]
  <2>1. CASE ArriveHealth(r)
    BY <2>1 DEF AtDatabase, Ending
  <2>2. CASE AskPool(r) /\ Ending
    BY <2>2
  <2>3. CASE AskPool(r) /\ ~Ending
    <3>1. request' = [request EXCEPT ![r] = request[r]] /\ request[r] \in AtDatabase
      BY <2>3 DEF IInv, TypesInv, AtDatabase
    <3> QED BY <2>3, <3>1
  <2> QED BY <2>1, <2>2, <2>3
<1> HIDE DEF ArriveHealth, AskPool, MoveTo, Answer
<1>4. CASE poolVars' = poolVars /\ request' = [request EXCEPT ![r] = "idle"]
  <2>1. PoolInv' /\ \A k : Asked(k)' <=> Asked(k)
    BY <1>1, <1>4, PoolRests DEF Ending
  <2> QED BY <1>1, <1>2, <1>4, <2>1, RequestKeeps DEF At, poolVars
<1>5. CASE /\ ~Ending /\ Ask(Ticket(r))
           /\ \E at \in AtDatabase : request' = [request EXCEPT ![r] = at]
  <2>1. PICK at \in AtDatabase : request' = [request EXCEPT ![r] = at]
    BY <1>5
  <2>2. /\ PoolInv' /\ leases \subseteq leases'
        /\ \A k \in Tickets : Asked(k)' <=> Asked(k) \/ k = Ticket(r)
    BY <1>1, <1>2, <1>5, AskKeeps DEF IInv
  <2>3. phase # "flush" /\ at \in At
    BY <1>5 DEF Ending, At
  <2> QED BY <1>1, <2>1, <2>2, <2>3, RequestKeeps
<1> QED BY <1>3, <1>4, <1>5

\* The query ends and its connection goes back, whether or not anyone waits for it.
LEMMA StatementKeeps ==
  ASSUME IInv, NEW r \in Requests, Statement(r)
  PROVE  IInv'
<1> USE DEF Statement, MoveTo
<1>1. /\ Ticket(r) \in leases /\ GiveBack(Ticket(r))
      /\ UNCHANGED <<load, phase, code, open, job, rows, redisVars, probeVars, faults>>
  OBVIOUS
<1>2. PICK at \in At : request' = [request EXCEPT ![r] = at]
  <2>1. PICK at \in IF request[r] \in DOMAIN After THEN After[request[r]] ELSE {"idle"} :
          request' = [request EXCEPT ![r] = at]
    OBVIOUS
  <2>2. at \in At
    <3>1. DOMAIN After = {"session", "account", "handler", "select"}
      BY DEF After
    <3>2. \A q \in DOMAIN After : After[q] \subseteq At
      <4>1. /\ After["session"] = {"account", "bucket", "idle"} /\ After["account"] = {"bucket", "idle"}
            /\ After["handler"] = {"idle"} /\ After["select"] = {"idle"}
        BY DEF After
      <4>2. {"account", "bucket", "idle"} \subseteq At
        BY DEF At, AtDatabase
      <4> QED BY <3>1, <4>1, <4>2
    <3>3. "idle" \in At
      BY DEF At
    <3>4. CASE request[r] \in DOMAIN After
      BY <2>1, <3>2, <3>4
    <3>5. CASE request[r] \notin DOMAIN After
      BY <2>1, <3>3, <3>5
    <3> QED BY <3>4, <3>5
  <2> QED BY <2>1, <2>2
<1> HIDE DEF Statement, MoveTo
<1>3. request[r] # "idle" /\ phase # "flush"
  <2>1. request[r] \in AtDatabase
    BY <1>1 DEF IInv, RequestInv, Asked
  <2> QED BY <1>1, <2>1 DEF IInv, PhaseInv, AtDatabase
<1>4. /\ PoolInv' /\ leases \ {Ticket(r)} \subseteq leases'
      /\ \A k \in Tickets : Asked(k)' <=> Asked(k) /\ k # Ticket(r)
  BY <1>1, GiveBackKeeps DEF IInv
<1>5. ~Asked(Ticket(r))'
  BY <1>4, Apart
<1> QED BY <1>1, <1>2, <1>3, <1>4, <1>5, RequestKeeps

-----------------------------------------------------------------------------
\* Every action keeps the invariant.
LEMMA NextInv == IInv /\ [Next]_vars => IInv'
<1> SUFFICES ASSUME IInv, [Next]_vars PROVE IInv'
  OBVIOUS
<1>1. CASE Restart \/ Boot \/ Signal
  BY <1>1, BootKeeps DEF Boot
<1>2. CASE CloseNext
  BY <1>2, CloseKeeps
<1>3. ASSUME BootFails \/ Crash \/ ExitClean \/ GiveUp
      PROVE  IInv'
  <2>1. faults' \in 0..MaxFaults
    BY <1>3, ApiAssumption DEF BootFails, Crash, ExitClean, GiveUp, IInv, TypesInv
  <2>2. Die("bootFailed") \/ Die("crashed") \/ Die("clean") \/ Die("gaveUp")
    BY <1>3 DEF BootFails, Crash, ExitClean, GiveUp
  <2> QED BY <2>1, <2>2, DieKeeps
<1>4. ASSUME NEW j \in Jobs, TakeJob(j) \/ Pass(j)
      PROVE  IInv'
  BY <1>4, TakeJobKeeps, ClaimKeeps, ApplyKeeps, AppliedKeeps, JobEndsKeeps DEF Pass
<1>5. CASE Flush \/ \E j \in Jobs : Wedge(j) \/ Reconnect(j)
  BY <1>5, RedisKeeps
<1>6. ASSUME NEW r \in Requests, Arrive(r) \/ ArriveHealth(r) \/ Serve(r) \/ HealthDeadline(r)
      PROVE  IInv'
  BY <1>6, MovesKeep, AsksKeep, StatementKeeps DEF Serve
<1>7. CASE Tick \/ (\E part \in Parts : ProbeHears(part)) \/ ProbeWell \/ ProbeUnwell
  BY <1>7, ProbeKeeps
<1>8. CASE SignalAgain \/ UNCHANGED vars
  <2>1. UNCHANGED vars
    BY <1>8 DEF SignalAgain
  <2>2. TypesInv' /\ ClockInv'
    BY <2>1 DEF vars, IInv, TypesInv, ClockInv
  <2>3. UNCHANGED <<phase, open, poolVars, job, rows, request>>
    BY <2>1 DEF vars, poolVars
  <2> QED BY <2>2, <2>3, QuietKeeps
<1> QED
  BY <1>1, <1>2, <1>3, <1>4, <1>5, <1>6, <1>7, <1>8 DEF Next, Shutdown, Probe

\* The invariant holds in every state of every behaviour.
LEMMA Invariance == Spec => []IInv
BY InitInv, NextInv, PTL DEF Spec

-----------------------------------------------------------------------------
\* Every variable has its type, nobody holds what nobody asked for, and the
\* connections stay within DATABASE_POOL_SIZE (TypeOK; persistence/src/db.ts).
THEOREM TypeCorrect == Spec => []TypeOK
<1>1. IInv => TypeOK
  <2>1. Tickets = (Jobs \cup Requests) \X {"own", "inner"}
    BY DEF Tickets
  <2> QED BY <2>1 DEF IInv, TypesInv, PoolInv, RequestInv, PhaseInv, ClockInv, TypeOK
<1> QED BY <1>1, Invariance, PTL

\* A clean exit leaves no job and no connection behind, and the supervisor gives
\* the process up only a whole grace window after the last healthy answer
\* (ExitsEarned; runtime/main.ts shutdown(), runtime/worker-liveness.ts).
THEOREM ExitsEarnedAlways == Spec => ExitsEarned
<1> DEFINE Earned ==
      /\ code' = "clean" /\ code # "clean" =>
           open = {} /\ leases = {} /\ \A j \in Jobs : job[j] = "idle"
      /\ code' = "gaveUp" /\ code # "gaveUp" => wellAgo = Grace
<1>1. IInv /\ [Next]_vars => [Earned]_vars
  <2> SUFFICES ASSUME IInv, [Next]_vars PROVE Earned
    OBVIOUS
  <2>1. ASSUME phase = "flush" PROVE open = {} /\ leases = {} /\ \A j \in Jobs : job[j] = "idle"
    BY <2>1, Tables DEF IInv, TypesInv, PhaseInv, From
  <2>2. ASSUME sickFor = Grace PROVE wellAgo = Grace
    BY <2>2, ApiAssumption DEF IInv, ClockInv, Never
  <2>3. code' = code \/ code' = None \/ BootFails \/ Crash \/ ExitClean \/ GiveUp
    BY DEF Next, vars, Restart, Boot, BootConfig, StartWorker, Listen, Signal, SignalAgain,
           Shutdown, CloseNext, TakeJob, Pass, Claim, Apply, Applied, JobEnds, Wedge, Reconnect,
           Arrive, ArriveHealth, Serve, BodyRead, BucketAnswers, AskPool, Statement,
           WorkersAnswer, HealthDeadline, Tick, Probe, ProbeHears, ProbeWell, ProbeUnwell, Flush
  <2> QED BY <2>1, <2>2, <2>3 DEF None, BootFails, Crash, ExitClean, GiveUp, Die
<1> QED BY <1>1, Invariance, PTL DEF Spec, ExitsEarned
=============================================================================
