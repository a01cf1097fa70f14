------------------------------ MODULE Scoring ------------------------------
(***************************************************************************)
(* From the end of an episode and the results of its verifier graph to the *)
(* scorecard, and from the scorecard to the outcome a sample is counted    *)
(* by.  (core/scoring.py, core/sampling.py)                                *)
(***************************************************************************)

Statuses == {"passed", "failed", "error", "skipped"}

\* TerminationReason, of which cancellation and success_early_stop have no
\* producer among the harnesses modelled.
BudgetReasons == {"wall_time_exhausted", "turn_budget_exhausted",
                  "tool_budget_exhausted", "model_budget_exhausted",
                  "token_budget_exhausted"}
Reasons == BudgetReasons \cup
  {"final_submission", "invalid_action_limit", "model_output_invalid",
   "model_error", "agent_abort", "runtime_error", "policy_violation"}

\* EpisodeFailure: none, an infrastructure failure, one of kind policy, any other.
Failures == {"none", "infrastructure", "policy", "candidate"}

\* An episode ends for a reason, with a failure or without.
Ending(reason, failure) == [reason |-> reason, failure |-> failure]
Endings == [reason : Reasons, failure : Failures]

\* The endings a single-turn ChatEval episode can have.
ChatEndings ==
  {Ending("final_submission", "none"), Ending("policy_violation", "none"),
   Ending("wall_time_exhausted", "none"),
   Ending("wall_time_exhausted", "candidate"),
   Ending("token_budget_exhausted", "candidate"),
   Ending("model_budget_exhausted", "candidate"),
   Ending("model_output_invalid", "candidate"),
   Ending("model_error", "infrastructure")}

\* has_infrastructure_error
HasInfrastructureError(results, nodes) == \E n \in nodes : results[n] = "error"

\* Mutant: a skipped node does not count against the candidate.
ScorecardUnlessFailed(ending, results, required) ==
  LET functional     == /\ ending.failure = "none"
                        /\ \A n \in required : results[n] \in {"passed", "skipped"}
      infrastructure == \/ HasInfrastructureError(results, required)
                        \/ ending.failure = "infrastructure"
  IN  [ending   |-> ending,
       resolved |-> functional /\ ~infrastructure,
       status   |-> IF infrastructure THEN "error"
                    ELSE IF ending.failure = "none" THEN "completed" ELSE "failed"]

\* build_scorecard of a task without a synthesis profile: only the required
\* nodes are looked at.
Scorecard(ending, results, required) ==
  LET functional     == /\ ending.failure = "none"
                        /\ \A n \in required : results[n] = "passed"
      infrastructure == \/ HasInfrastructureError(results, required)
                        \/ ending.failure = "infrastructure"
  IN  [ending   |-> ending,
       resolved |-> functional /\ ~infrastructure,
       status   |-> IF infrastructure THEN "error"
                    ELSE IF ending.failure = "none" THEN "completed" ELSE "failed"]

Scorecards == [ending : Endings, resolved : BOOLEAN,
               status : {"error", "failed", "completed"}]

ModelOutputReasons == {"model_output_invalid", "invalid_action_limit"}
CancelledReasons == BudgetReasons \cup
  {"agent_abort", "runtime_error", "policy_violation"}

Verdicts == {"resolved", "candidate_failure", "model_output_failure"}
Outcomes == Verdicts \cup {"infrastructure_error", "cancelled_truncated"}

\* classify_sample_outcome: the first test that applies decides.
Outcome(card) ==
  IF card.status = "error" THEN "infrastructure_error"
  ELSE IF card.ending.failure = "policy" THEN "candidate_failure"
  ELSE IF card.ending.reason \in ModelOutputReasons THEN "model_output_failure"
  ELSE IF card.ending.reason \in CancelledReasons THEN "cancelled_truncated"
  ELSE IF card.resolved THEN "resolved" ELSE "candidate_failure"
=============================================================================
