------------------------------- MODULE AlertsMC -------------------------------
(* Values for AgentAlerts that a configuration cannot write: what the health    *)
(* review may say of one job.                                                   *)
EXTENDS AgentAlerts

\* Nothing to say, a stall that got critical, and a failure of the review itself, which
\* asks to notify when it happened Threshold times in a row.
SomeOpinions ==
  { [severity |-> "healthy", notify |-> FALSE, about |-> "j1", kind |-> "none"],
    [severity |-> "critical", notify |-> TRUE, about |-> "j1", kind |-> "coverage_stall"],
    [severity |-> "warning", notify |-> FALSE, about |-> "system", kind |-> "ai_review"] }

=============================================================================
