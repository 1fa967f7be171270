------------------------- MODULE MCPipelineStage -------------------------
\* Small instances of PipelineStage for TLC.
EXTENDS PipelineStage, TLC

\* Everything may go wrong twice; or once, with a retention that is too short; or
\* a provider answers, workers keep their jobs and the reconciler is patient.
Rough == [faults |-> {"crash", "throw", "stall", "flush", "retry", "terminal"}, most |-> 2,
          punctual |-> FALSE, early |-> FALSE]
Patient == [faults |-> {"crash", "throw", "flush"}, most |-> 2, punctual |-> TRUE,
            early |-> FALSE]
Hasty == [Rough EXCEPT !.faults = @ \ {"throw"}, !.most = 1, !.early = TRUE]
Each == {Rough, Hasty, Patient}

\* A job delivered twice and a provider that refuses.
Stalls == {[faults |-> {"stall", "terminal"}, most |-> 1, punctual |-> FALSE, early |-> FALSE]}
=============================================================================
