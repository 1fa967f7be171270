----------------------------- MODULE RateLimits -----------------------------
(***************************************************************************)
(* The two Redis limiters of packages/messaging on one key: the sliding    *)
(* window that apps/api puts before its routes                             *)
(* (sliding-window-rate-limiter.ts, http/security/rate-limit.ts) and the   *)
(* token bucket (rate-limiter.ts).  A decision is one EVAL, atomic in      *)
(* Redis and timed by its clock; it may land after its caller has stopped  *)
(* waiting.  Buckets and subjects have keys of their own and share         *)
(* nothing.  Time is in Redis's milliseconds, tokens in whole fractions,   *)
(* and a level is read with the error of the doubles it is computed in and *)
(* of the fourteen digits tostring keeps of it.                            *)
(***************************************************************************)
EXTENDS Integers, FiniteSets, FiniteSetsExt

CONSTANTS
  Clients,
  MaxCalls, Window, \* limit and windowMs of the sliding window
  Deadline,        \* REDIS_CALL_DEADLINE_MS
  Second,          \* milliseconds in the unit of Retry-After
  Capacity, Costs, \* capacity and the costs asked of the token bucket, in fractions
  Refill,          \* fractions the bucket gains in a millisecond
  Error,           \* the most by which a level read, or a wait computed from it, is off
  LastTick,        \* bound: the clock's last value
  Unset

ASSUME LimitAssumption == MaxCalls \in Nat \ {0} /\ Window \in Nat \ {0}
ASSUME BucketAssumption == Refill \in Nat \ {0} /\ Capacity \in Nat /\ Costs \subseteq Nat \ {0}
ASSUME ErrorAssumption == Error \in Nat /\ 2 * Error <= Refill
ASSUME UnitAssumption == Second \in Nat \ {0} /\ Deadline \in Nat /\ LastTick \in Nat
ASSUME UnsetAssumption == Unset \notin Nat \cup [cost : Nat, after : Nat, header : Nat]

Kinds == {"window", "bucket"}
Times == 0 .. LastTick

VARIABLES
  kind,     \* which of the two this key belongs to
  clock,
  up,       \* Redis can be reached
  window,   \* the ZSET, its companion counter and the expiry both share
  bucket,   \* the hash: tokens, updated_at_ms, and its expiry
  call,     \* each client's call
  late,     \* EVALs on their way whose callers have gone
  granted,  \* history: admissions of the last window, their milliseconds and numbers
  admitted, \* history: the number of the last of them
  level,    \* history: tokens of a bucket that is refilled as time passes, read errors added
  hint      \* history: what the last denial told, while nothing was admitted since

history == <<granted, admitted, level, hint>>
limitVars == <<kind, clock, up, window, bucket, call, late, history>>

NoWindow == [members |-> {}, seq |-> 0, expires |-> 0]
NoBucket == [tokens |-> Unset, updated |-> 0, expires |-> 0]
NoCall == [st |-> "idle", sent |-> 0, cost |-> 0]

LimitsInit ==
  /\ kind \in Kinds /\ clock = 0 /\ up = TRUE
  /\ window = NoWindow /\ bucket = NoBucket
  /\ call = [c \in Clients |-> NoCall] /\ late = 0
  /\ granted = {} /\ admitted = 0 /\ level = Capacity /\ hint = Unset

Least(a, b) == IF a < b THEN a ELSE b
CeilDiv(a, b) == (a + b - 1) \div b

\* Redis drops a key once its expiry has passed.
LiveWindow == IF clock > window.expires THEN NoWindow ELSE window
LiveBucket == IF clock > bucket.expires THEN NoBucket ELSE bucket

-----------------------------------------------------------------------------
(* internal/sliding-window-lua.ts *)

\* What ZREMRANGEBYSCORE -inf now-windowMs leaves.
InWindow == {m \in LiveWindow.members : m[1] + Window > clock}

WindowAdmits == Cardinality(InWindow) < MaxCalls

\* Mutant: the member is the time alone.
AdmittedMemberTimed == <<clock, 0>>

\* ZADD's member: the time and the INCR of the companion key.
AdmittedMember == <<clock, LiveWindow.seq + 1>>

\* Prune, count, add; and both keys live for another window.
WindowScript ==
  window' = [members |-> InWindow \cup (IF WindowAdmits THEN {AdmittedMember} ELSE {}),
             seq     |-> LiveWindow.seq + (IF WindowAdmits THEN 1 ELSE 0),
             expires |-> clock + Window]

WindowRetry == Min({m[1] : m \in InWindow}) + Window - clock

-----------------------------------------------------------------------------
(* internal/token-bucket-lua.ts *)

\* What the level would be if nothing bounded it.
Unbounded == LiveBucket.tokens + (clock - LiveBucket.updated) * Refill

\* A fresh or expired bucket is full.
Refilled == IF LiveBucket.tokens = Unset THEN Capacity ELSE Least(Capacity, Unbounded)

\* The levels that doubles, and tostring at the write before, can make of it.
Reads ==
  IF LiveBucket.tokens = Unset THEN {Capacity}
  ELSE {Least(Capacity, x) : x \in (Unbounded - Error .. Unbounded + Error) \cap Nat}

Ttl == CeilDiv(Capacity, Refill) * 2

BucketScript(cost, read) ==
  bucket' = [tokens  |-> IF read >= cost THEN read - cost ELSE read,
             updated |-> clock,
             expires |-> clock + Ttl]

\* Mutant: the wait is rounded down.
BucketRetriesFloored(cost, read) ==
  {(cost - x) \div Refill : x \in {y \in read - Error .. read + Error : y < cost}}

\* math.ceil of a quotient of doubles.
BucketRetries(cost, read) ==
  {CeilDiv(cost - x, Refill) : x \in {y \in read - Error .. read + Error : y < cost}}

-----------------------------------------------------------------------------
(* tryAcquire *)

\* What a refusal tells: the wait, and the header's whole seconds.
Refusal(cost, wait) ==
  [cost |-> cost, after |-> clock + wait, header |-> clock + CeilDiv(wait, Second) * Second]

\* The EVAL of each kind: the script, and what is remembered of its decision.
WindowEval ==
  /\ WindowScript
  /\ IF WindowAdmits
     THEN /\ admitted' = admitted + 1 /\ granted' = granted \cup {<<clock, admitted'>>}
          /\ hint' = Unset
     ELSE hint' = Refusal(0, WindowRetry) /\ UNCHANGED <<granted, admitted>>
  /\ UNCHANGED <<bucket, level>>

BucketEval(cost) == \E read \in Reads :
  /\ BucketScript(cost, read)
  /\ level' = level + (read - Refilled) - (IF read >= cost THEN cost ELSE 0)
  /\ IF read >= cost THEN hint' = Unset
     ELSE \E wait \in BucketRetries(cost, read) : hint' = Refusal(cost, wait)
  /\ UNCHANGED <<window, granted, admitted>>

Eval(cost) ==
  /\ up
  /\ IF kind = "window" THEN WindowEval ELSE BucketEval(cost)
  /\ UNCHANGED <<kind, clock, up>>

\* Calls stop early enough for the bounded clock to reach their deadline.
TryAcquire(c, cost) ==
  /\ call[c].st = "idle" /\ clock + Deadline <= LastTick
  /\ (cost = 0) <=> (kind = "window")
  /\ call' = [call EXCEPT ![c] = [st |-> "sent", sent |-> clock, cost |-> cost]]
  /\ UNCHANGED <<kind, clock, up, window, bucket, late, history>>

Land(c) ==
  /\ call[c].st = "sent" /\ Eval(call[c].cost)
  /\ call' = [call EXCEPT ![c].st = "replied"]
  /\ UNCHANGED late

\* The EVAL of a caller that has gone: it counts all the same.
LandLate == late > 0 /\ Eval(0) /\ late' = late - 1 /\ UNCHANGED call

\* The reply arrives: admitted, or refused with Retry-After.
Return(c) ==
  /\ call[c].st = "replied" /\ up
  /\ call' = [call EXCEPT ![c] = NoCall]
  /\ UNCHANGED <<kind, clock, up, window, bucket, late, history>>

\* withDeadline rejects and tryAcquire fails open; the EVAL is not recalled.
PassDeadline(c) ==
  /\ kind = "window" /\ call[c].st # "idle" /\ clock >= call[c].sent + Deadline
  /\ call' = [call EXCEPT ![c] = NoCall]
  /\ late' = IF call[c].st = "sent" THEN late + 1 ELSE late
  /\ UNCHANGED <<kind, clock, up, window, bucket, history>>

\* The client library gives up: the window fails open, the bucket's caller gets
\* the error; an EVAL already run keeps its slot.
Reject(c) ==
  /\ ~up /\ call[c].st # "idle"
  /\ call' = [call EXCEPT ![c] = NoCall]
  /\ UNCHANGED <<kind, clock, up, window, bucket, late, history>>

LoseLate == late > 0 /\ ~up /\ late' = late - 1
            /\ UNCHANGED <<kind, clock, up, window, bucket, call, history>>

-----------------------------------------------------------------------------
(* Redis and time *)

Tick ==
  /\ clock < LastTick /\ clock' = clock + 1
  /\ granted' = {g \in granted : g[1] + Window > clock'}
  /\ admitted' = (IF granted' = {} THEN 0 ELSE admitted)
  /\ level' = Least(Capacity, level + Refill)
  /\ UNCHANGED <<kind, up, window, bucket, call, late, hint>>

Disconnect == up /\ up' = FALSE /\ UNCHANGED <<kind, clock, window, bucket, call, late, history>>
Connect == ~up /\ up' = TRUE /\ UNCHANGED <<kind, clock, window, bucket, call, late, history>>

\* Redis comes back empty: what was admitted before is forgotten, here too.
Flush ==
  /\ ~up /\ window' = NoWindow /\ bucket' = NoBucket
  /\ granted' = {} /\ admitted' = 0 /\ level' = Capacity /\ hint' = Unset
  /\ UNCHANGED <<kind, clock, up, call, late>>

LimitsNext ==
  \/ \E c \in Clients :
       \/ \E cost \in Costs \cup {0} : TryAcquire(c, cost)
       \/ Land(c) \/ Return(c) \/ PassDeadline(c) \/ Reject(c)
  \/ LandLate \/ LoseLate \/ Tick \/ Disconnect \/ Connect \/ Flush

LimitsSpec == LimitsInit /\ [][LimitsNext]_limitVars

-----------------------------------------------------------------------------
(* Properties *)

LimitsTypeOK ==
  /\ kind \in Kinds /\ clock \in Times /\ up \in BOOLEAN
  /\ window \in [members : SUBSET (Times \X Nat), seq : Nat, expires : Nat]
  /\ IsFiniteSet(window.members) /\ Cardinality(window.members) <= MaxCalls
  /\ bucket \in [tokens : 0 .. Capacity \cup {Unset}, updated : Times, expires : Nat]
  /\ call \in [Clients -> [st : {"idle", "sent", "replied"}, sent : Times, cost : Costs \cup {0}]]
  /\ late \in Nat /\ granted \subseteq Times \X Nat /\ admitted \in Nat /\ level \in 0 .. Capacity
  /\ hint \in [cost : Costs \cup {0}, after : Nat, header : Nat] \cup {Unset}

\* sliding-window-lua.ts:5-7 and 16-24, token-bucket-lua.ts:5-6: whatever callers
\* race in one millisecond, whatever expires and whichever EVAL comes late, Redis
\* never admits more than limit calls in a window, nor spends tokens that a bucket
\* refilled without interruption would not have.
NeverOverAdmits ==
  /\ Cardinality(granted) <= MaxCalls
  /\ level >= 0

\* sliding-window-lua.ts:55-63, rate-limit.ts:202-217 and token-bucket-lua.ts:49-51:
\* for a caller that nobody overtakes, refused calls of its own included, the window's
\* wait is exact and its header's whole seconds are enough; a bucket that can hold the
\* cost admits it from the millisecond after the wait named, whatever is lost in
\* rounding, and not before the last millisecond of the wait.
RetryAfterHolds ==
  /\ kind = "window" /\ hint # Unset =>
       /\ WindowAdmits <=> clock >= hint.after
       /\ clock >= hint.header => WindowAdmits
  /\ kind = "bucket" /\ hint # Unset /\ hint.cost <= Capacity =>
       /\ clock > hint.after => \A read \in Reads : read >= hint.cost
       /\ clock + 1 < hint.after => \A read \in Reads : read < hint.cost
=============================================================================
