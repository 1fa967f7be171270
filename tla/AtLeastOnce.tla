----------------------------- MODULE AtLeastOnce -----------------------------
(***************************************************************************)
(* What the outbox promises (ADR-0007, SPEC-0004), without rows, passes,   *)
(* locks or connections: every committed write of an aggregate owes an     *)
(* application that has seen it, and the debt is discharged only by such   *)
(* an application or by parking.                                           *)
(***************************************************************************)
EXTENDS Naturals

CONSTANT Aggregates

VARIABLES
  written,   \* committed writes of each aggregate
  seen,      \* the freshest state of it an application has seen
  owed,      \* <<aggregate, write>> pairs committed and not discharged
  parked     \* the pairs given up, kept for triage

avars == <<written, seen, owed, parked>>

Events == Aggregates \X Nat

AInit ==
  /\ written = [a \in Aggregates |-> 0] /\ seen = [a \in Aggregates |-> 0]
  /\ owed = {} /\ parked = {}

\* A write commits and owes its application in the same step.
Write(a) ==
  /\ written' = [written EXCEPT ![a] = @ + 1]
  /\ owed' = owed \cup {<<a, written[a] + 1>>}
  /\ UNCHANGED <<seen, parked>>

\* An application sees a later state, never one not yet written.
Apply(a) ==
  /\ \E v \in seen[a]..written[a] : seen' = [seen EXCEPT ![a] = v]
  /\ UNCHANGED <<written, owed, parked>>

\* A set of debts is discharged: each was applied, or is parked.
Discharge(done, givenUp) ==
  /\ \A e \in done : seen[e[1]] >= e[2]
  /\ owed' = owed \ (done \cup givenUp)
  /\ parked' = parked \cup givenUp
  /\ UNCHANGED <<written, seen>>

ANext ==
  \/ \E a \in Aggregates : Write(a) \/ Apply(a)
  \/ \E done, givenUp \in SUBSET owed : Discharge(done, givenUp)

ASpec == AInit /\ [][ANext]_avars

\* No debt is forgotten: every owed pair is applied or parked in the end.
AFairSpec ==
  /\ ASpec
  /\ WF_avars(\E done, givenUp \in SUBSET owed :
                done \cup givenUp # {} /\ Discharge(done, givenUp))
=============================================================================
