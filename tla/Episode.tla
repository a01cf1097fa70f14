------------------------------ MODULE Episode ------------------------------
(***************************************************************************)
(* One run: the orchestrator's agent loop, the environment with its budget *)
(* tracker, the model gateway, an agent harness, and the way from the end  *)
(* of the loop through freezing, export and verification to the scorecard. *)
(* Wall time may run out between any two steps.                            *)
(* (core/orchestrator.py, core/environment.py, core/episode.py,            *)
(* core/model_gateway.py, agents/react.py, agents/single_turn.py)          *)
(***************************************************************************)
EXTENDS Integers, Scoring

CONSTANTS
  Harnesses,          \* which of "react", "single_turn" and "external" run
  Budgets,            \* BudgetSpecs: turns, tools, calls, tokens
  MaxInvalidActions,  \* RunConfig.max_invalid_actions
  MaxCallTokens,      \* bound: tokens one answer reports
  MaxLateWrites       \* bound: writes of a call that stop() gives up on

NoLimit == -1         \* an optional limit that is None
Unknown == -1         \* a token count that is None
None == "none"

ASSUME EpisodeAssumption ==
  /\ Harnesses \subseteq {"react", "single_turn", "external"}
  /\ Budgets \subseteq [turns : Nat \ {0}, tools : Nat,
                        calls : Nat \cup {NoLimit}, tokens : Nat \cup {NoLimit}]
  /\ MaxInvalidActions \in Nat \ {0}
  /\ MaxCallTokens \in Nat /\ MaxLateWrites \in Nat

VARIABLES
  pc,        \* the statement that comes next, of whichever component
  task,      \* harness, budget, verification_requires_final_submission
  env,       \* VeriGymEnv: state, termination_reason, session
  tracker,   \* BudgetTracker
  late,      \* max_wall_time_s has passed
  agent,     \* the harness: its last action, invalid actions in a row
  failure,   \* the orchestrator's episode_failure
  rejected,  \* external_workspace_rejected
  workspace, \* the session's tree: content and whether it can be read
  hand,      \* writes left to a broker call that outlives its harness
  files,     \* what the run has exported, verified and scored
  history    \* failed model calls, tokens of the last; content and writes in
             \* hand when the loop ended

vars == <<pc, task, env, tracker, late, agent, failure, rejected, workspace,
          hand, files, history>>

Loop == {"loop", "act", "model", "step", "tool"}
HandOver == {"validate", "public", "freeze", "export", "verify", "score"}
Over == {"done", "raised"}

States == {"running", "verifying", "failed", "completed"}
Actions == {"none", "final", "abort", "message", "edit", "read"}

\* Contents: the n-th edit of the workspace, or the files of a submission.
Submission == -1
Nothing == -2          \* no content: not exported, not verified
Quarantine == -3       \* the empty candidate of a rejected workspace
NotScored == [ending |-> Ending(None, "none"), resolved |-> FALSE, status |-> None]

-----------------------------------------------------------------------------
(* BudgetTracker.                                                          *)

Spent(limit, used) == limit # NoLimit /\ used # Unknown /\ used >= limit
Overspent(limit, used) == limit # NoLimit /\ used # Unknown /\ used > limit

\* Mutant: one more turn than the budget has.
ExhaustedBeforeTurnLate ==
  IF late THEN "wall_time_exhausted"
  ELSE IF tracker.turns > task.budget.turns THEN "turn_budget_exhausted" ELSE None

\* exhausted_before_turn
ExhaustedBeforeTurn ==
  IF late THEN "wall_time_exhausted"
  ELSE IF tracker.turns >= task.budget.turns THEN "turn_budget_exhausted" ELSE None

\* exhausted_before_tool
ExhaustedBeforeTool ==
  IF late THEN "wall_time_exhausted"
  ELSE IF tracker.tools >= task.budget.tools THEN "tool_budget_exhausted" ELSE None

\* exhausted_before_model
ExhaustedBeforeModel ==
  IF late THEN "wall_time_exhausted"
  ELSE IF Spent(task.budget.calls, tracker.calls) THEN "model_budget_exhausted"
  ELSE IF Spent(task.budget.tokens, tracker.tokens) THEN "token_budget_exhausted"
  ELSE None

\* record_model_usage: a count that is unknown once stays unknown.
Accumulated(tokens) ==
  IF tracker.tokens = Unknown \/ tokens = Unknown THEN Unknown
  ELSE tracker.tokens + tokens

\* exhausted_after_model, once the usage is recorded
ExhaustedAfterModel(tokens) ==
  IF late THEN "wall_time_exhausted"
  ELSE IF Overspent(task.budget.tokens, tokens) THEN "token_budget_exhausted"
  ELSE None

-----------------------------------------------------------------------------
(* How an episode leaves the loop.                                         *)

Ended(state, reason) == env' = [env EXCEPT !.state = state, !.reason = reason]

Left(past) ==
  history' = [past EXCEPT !.content = workspace'.content, !.hand = hand']

\* Behind the loop: only an external harness is validated, and only tasks of
\* the agent mode have public tests.
AfterLoop ==
  IF task.harness = "external" THEN "validate"
  ELSE IF task.harness = "react" THEN "public" ELSE "freeze"

\* _truncate
Truncated(reason) ==
  /\ Ended("verifying", reason)
  /\ pc' = AfterLoop
  /\ UNCHANGED <<failure, rejected, workspace, hand>>
  /\ Left(history)

\* AgentTerminationError: the failure is kept and the environment terminated.
Terminated(reason, kind) ==
  /\ Ended("verifying", reason)
  /\ failure' = kind
  /\ pc' = AfterLoop

Init ==
  /\ pc = "loop"
  /\ task \in [harness : Harnesses, budget : Budgets, submission : BOOLEAN]
  /\ env = [state |-> "running", reason |-> None, session |-> "open"]
  /\ tracker = [turns |-> 0, tools |-> 0, calls |-> 0, tokens |-> 0]
  /\ late = FALSE
  /\ agent = [action |-> None, invalid |-> 0]
  /\ failure = "none" /\ rejected = FALSE
  /\ workspace = [content |-> 0, state |-> "valid"]
  /\ files = [candidate |-> Nothing, verified |-> Nothing, result |-> None,
              card |-> NotScored]
  /\ hand = 0
  /\ history = [errors |-> 0, last |-> 0, content |-> Nothing, hand |-> 0]

\* Wall time runs out.
RunLate ==
  /\ pc \in Loop /\ ~late
  /\ late' = TRUE
  /\ UNCHANGED <<pc, task, env, tracker, agent, failure, rejected, workspace,
                 hand, files, history>>

\* The head of the loop.
LoopExhausted ==
  /\ pc = "loop"
  /\ ExhaustedBeforeTurn # None
  /\ Truncated(ExhaustedBeforeTurn)
  /\ UNCHANGED <<task, tracker, late, agent, files>>

LoopContinues ==
  /\ pc = "loop"
  /\ ExhaustedBeforeTurn = None
  /\ pc' = "act"
  /\ UNCHANGED <<task, env, tracker, late, agent, failure, rejected, workspace,
                 hand, files, history>>

-----------------------------------------------------------------------------
(* ModelGateway.generate and the harness that calls it.                    *)

\* Mutant: a used up budget is an infrastructure failure.
CallRefusedAsInfrastructure ==
  /\ pc = "act" /\ task.harness # "external"
  /\ ExhaustedBeforeModel # None
  /\ Terminated(ExhaustedBeforeModel, "infrastructure")
  /\ UNCHANGED <<task, tracker, late, agent, rejected, workspace, hand, files>>
  /\ Left(history)

\* The gateway refuses the call: ModelBudgetError.
CallRefused ==
  /\ pc = "act" /\ task.harness # "external"
  /\ ExhaustedBeforeModel # None
  /\ Terminated(ExhaustedBeforeModel, "candidate")
  /\ UNCHANGED <<task, tracker, late, agent, rejected, workspace, hand, files>>
  /\ Left(history)

\* The call is traced as authorized, counted and sent.
CallAuthorized ==
  /\ pc = "act" /\ task.harness # "external"
  /\ ExhaustedBeforeModel = None
  /\ tracker' = [tracker EXCEPT !.calls = @ + 1]
  /\ pc' = "model"
  /\ UNCHANGED <<task, env, late, agent, failure, rejected, workspace, hand,
                 files, history>>

\* Mutant: a call that failed is a failure of the candidate.
CallFailedByCandidate ==
  /\ pc = "model"
  /\ tracker' = [tracker EXCEPT !.tokens = Unknown]
  /\ Terminated("model_error", "candidate")
  /\ UNCHANGED <<task, late, agent, rejected, workspace, hand, files>>
  /\ Left([history EXCEPT !.errors = @ + 1])

\* ModelClientError, an answer to another request or an invalid plug-in event:
\* an error response, which loses the token counts.
CallFailed ==
  /\ pc = "model"
  /\ tracker' = [tracker EXCEPT !.tokens = Unknown]
  /\ Terminated("model_error", "infrastructure")
  /\ UNCHANGED <<task, late, agent, rejected, workspace, hand, files>>
  /\ Left([history EXCEPT !.errors = @ + 1])

\* Usage is recorded whatever the answer is worth.
Answer(tokens) ==
  /\ pc = "model"
  /\ tracker' = [tracker EXCEPT !.tokens = Accumulated(tokens)]

Usages == 0..MaxCallTokens \cup {Unknown}
Paid(tokens) ==
  [history EXCEPT !.last = IF tokens = Unknown THEN 0 ELSE tokens]

AnswerOverspent(tokens) ==
  /\ Answer(tokens)
  /\ ExhaustedAfterModel(Accumulated(tokens)) # None
  /\ Terminated(ExhaustedAfterModel(Accumulated(tokens)), "candidate")
  /\ UNCHANGED <<task, late, agent, rejected, workspace, hand, files>>
  /\ Left(Paid(tokens))

\* A well-formed answer: a ReAct action, or the one submission of ChatEval.
AnswerParsed(tokens) ==
  /\ Answer(tokens)
  /\ ExhaustedAfterModel(Accumulated(tokens)) = None
  /\ \E action \in IF task.harness = "react"
                     THEN {"final", "abort", "edit", "read"} ELSE {"final"} :
       agent' = [action |-> action, invalid |-> 0]
  /\ pc' = "step"
  /\ history' = Paid(tokens)
  /\ UNCHANGED <<task, env, late, failure, rejected, workspace, hand, files>>

\* A malformed one is answered with feedback ...
AnswerInvalid(tokens) ==
  /\ Answer(tokens)
  /\ ExhaustedAfterModel(Accumulated(tokens)) = None
  /\ task.harness = "react" /\ agent.invalid + 1 < MaxInvalidActions
  /\ agent' = [action |-> "message", invalid |-> agent.invalid + 1]
  /\ pc' = "step"
  /\ history' = Paid(tokens)
  /\ UNCHANGED <<task, env, late, failure, rejected, workspace, hand, files>>

\* ... unless ChatEval asked, or it was one too many in a row.
AnswerRejected(tokens) ==
  /\ Answer(tokens)
  /\ ExhaustedAfterModel(Accumulated(tokens)) = None
  /\ task.harness = "single_turn" \/ agent.invalid + 1 >= MaxInvalidActions
  /\ Terminated(IF task.harness = "react" THEN "invalid_action_limit"
                ELSE "model_output_invalid", "candidate")
  /\ agent' = [agent EXCEPT !.invalid = @ + 1]
  /\ UNCHANGED <<task, late, rejected, workspace, hand, files>>
  /\ Left(Paid(tokens))

-----------------------------------------------------------------------------
(* VeriGymEnv.step.                                                        *)

StepExhausted ==
  /\ pc = "step"
  /\ ExhaustedBeforeTurn # None
  /\ Truncated(ExhaustedBeforeTurn)
  /\ UNCHANGED <<task, tracker, late, agent, files>>

\* step passes exhausted_before_turn and consumes the turn.
Step(action) ==
  /\ pc = "step" /\ agent.action = action
  /\ ExhaustedBeforeTurn = None
  /\ UNCHANGED <<task, late, agent, hand, files>>

TurnConsumed == tracker' = [tracker EXCEPT !.turns = @ + 1]

StepMessage ==
  /\ Step("message") /\ TurnConsumed
  /\ pc' = "loop"
  /\ UNCHANGED <<env, failure, rejected, workspace, history>>

StepAbort ==
  /\ Step("abort") /\ TurnConsumed
  /\ Ended("failed", "agent_abort")
  /\ pc' = AfterLoop
  /\ UNCHANGED <<failure, rejected, workspace>>
  /\ Left(history)

\* A final submission of what is in the workspace.  Its observation reads the
\* tree, outside any handler: an unreadable one is HarnessFails.
StepFinal ==
  /\ Step("final") /\ TurnConsumed
  /\ task.harness # "single_turn" /\ workspace.state # "unreadable"
  /\ Ended("verifying", "final_submission")
  /\ pc' = AfterLoop
  /\ UNCHANGED <<failure, rejected, workspace>>
  /\ Left(history)

\* _materialize_final_submission: the files of the submission are written ...
StepSubmission ==
  /\ Step("final") /\ TurnConsumed
  /\ task.harness = "single_turn"
  /\ Ended("verifying", "final_submission")
  /\ workspace' = [workspace EXCEPT !.content = Submission]
  /\ pc' = AfterLoop
  /\ UNCHANGED <<failure, rejected>>
  /\ Left(history)

\* Mutant: what was written before the policy objected stays.
StepSubmissionKept ==
  /\ Step("final") /\ TurnConsumed
  /\ task.harness = "single_turn"
  /\ Ended("verifying", "policy_violation")
  /\ workspace' = [workspace EXCEPT !.content = Submission]
  /\ pc' = AfterLoop
  /\ UNCHANGED <<failure, rejected>>
  /\ Left(history)

\* ... or a path, the size of the patch or of the workspace is refused, and
\* what had been written is written back.
StepSubmissionRefused ==
  /\ Step("final") /\ TurnConsumed
  /\ task.harness = "single_turn"
  /\ Ended("verifying", "policy_violation")
  /\ pc' = AfterLoop
  /\ UNCHANGED <<failure, rejected, workspace>>
  /\ Left(history)

\* A tool call consumes its turn before it is refused for want of tool calls.
StepToolExhausted ==
  /\ \E action \in {"edit", "read"} : Step(action)
  /\ TurnConsumed
  /\ ExhaustedBeforeTool # None
  /\ Ended("verifying", ExhaustedBeforeTool)
  /\ pc' = AfterLoop
  /\ UNCHANGED <<failure, rejected, workspace>>
  /\ Left(history)

StepTool ==
  /\ \E action \in {"edit", "read"} : Step(action)
  /\ ExhaustedBeforeTool = None
  /\ tracker' = [tracker EXCEPT !.turns = @ + 1, !.tools = @ + 1]
  /\ pc' = "tool"
  /\ UNCHANGED <<env, failure, rejected, workspace, history>>

\* _execute_tool returns: denied, unknown, failed or successful.  An edit may
\* have written before it failed.
ToolReturns ==
  /\ pc = "tool"
  /\ \/ UNCHANGED workspace
     \/ /\ agent.action = "edit"
        /\ workspace' = [workspace EXCEPT !.content = @ + 1]
  /\ pc' = "loop"
  /\ UNCHANGED <<task, env, tracker, late, agent, failure, rejected, hand,
                 files, history>>

-----------------------------------------------------------------------------
(* An external harness: one act is a whole episode of another program, that *)
(* leaves the tree valid, against the workspace policy, or unreadable.  Its *)
(* adapter stops the repository tool broker, which waits two seconds for    *)
(* the serving thread and then goes on: a patch it still applies has writes *)
(* in hand when the act returns.                                            *)

Trees == {"valid", "violating", "unreadable"}

WorkLeft(tree) ==
  /\ workspace' = [content |-> 1, state |-> tree]
  /\ hand' \in 0..MaxLateWrites

\* Not every adapter asks for an accepted finish of the broker before it submits.
ExternalFinishes ==
  /\ pc = "act" /\ task.harness = "external"
  /\ \E tree \in Trees : WorkLeft(tree)
  /\ agent' = [agent EXCEPT !.action = "final"]
  /\ pc' = "step"
  /\ UNCHANGED <<task, env, tracker, late, failure, rejected, files, history>>

\* What an adapter makes of its process, its provider and the broker: a limit
\* and a deadline count against the candidate ...
CliEndings ==
  {Ending("policy_violation", "policy"), Ending("runtime_error", "infrastructure"),
   Ending("model_error", "infrastructure"), Ending("model_error", "candidate")}

\* ... and an adapter of an SDK reports a violation as a failure of the model.
SdkEndings ==
  {Ending("policy_violation", "candidate"), Ending("model_error", "infrastructure")}

\* terminate has set state and reason before its observation finds the tree
\* unreadable; a failure of kind policy rejects the workspace by itself.
ExternalTerminates ==
  /\ pc = "act" /\ task.harness = "external"
  /\ \E ending \in CliEndings \cup SdkEndings, tree \in Trees :
       /\ Terminated(ending.reason, ending.failure)
       /\ WorkLeft(tree)
       /\ rejected' = (ending.failure = "policy" \/ tree = "unreadable")
  /\ UNCHANGED <<task, tracker, late, agent, files>>
  /\ Left(history)

\* The abandoned call writes one file more, or writes one back.  Its paths have
\* passed the policy, the limits on the tree are checked behind the writes.  A
\* frozen session refuses a write, but a deletion does not ask it; a closed one
\* has no tree left.
LateWrite ==
  /\ hand > 0 /\ env.session # "closed"
  /\ hand' = hand - 1
  /\ \E tree \in IF workspace.state = "unreadable" THEN {"unreadable"}
                 ELSE {"valid", "violating"} :
       workspace' = [content |-> workspace.content + 1, state |-> tree]
  /\ UNCHANGED <<pc, task, env, tracker, late, agent, failure, rejected, files,
                 history>>

\* It returns, fails or is refused, and writes no more.
LateCallEnds ==
  /\ hand > 0
  /\ hand' = 0
  /\ UNCHANGED <<pc, task, env, tracker, late, agent, failure, rejected, workspace,
                 files, history>>

\* validate_workspace: a violation overrides the reason, not an earlier failure.
Validated ==
  /\ pc = "validate"
  /\ IF workspace.state = "valid"
       THEN UNCHANGED <<env, failure, rejected>>
       ELSE /\ Ended(env.state, "policy_violation")
            /\ failure' = IF failure = "none" THEN "policy" ELSE failure
            /\ rejected' = TRUE
  /\ pc' = "public"
  /\ UNCHANGED <<task, tracker, late, agent, workspace, hand, files, history>>

-----------------------------------------------------------------------------
(* Hand-over.                                                              *)

\* Mutant: the tests leave their products in the workspace.
PublicTestsInWorkspace ==
  /\ pc = "public"
  /\ workspace' = [workspace EXCEPT !.content = @ + 1]
  /\ pc' = "freeze"
  /\ UNCHANGED <<task, env, tracker, late, agent, failure, rejected, hand,
                 files, history>>

\* _run_repository_public_tests, before the session is frozen.  Their commands
\* build outside the workspace, as the shipped contracts have it.
\* Infrastructure that fails is a failure of the episode if it has none.
PublicTests ==
  /\ pc = "public"
  /\ \/ UNCHANGED failure
     \/ ~rejected /\ failure = "none" /\ failure' = "infrastructure"
  /\ pc' = "freeze"
  /\ UNCHANGED <<task, env, tracker, late, agent, rejected, workspace, hand,
                 files, history>>

Freeze ==
  /\ pc = "freeze"
  /\ env' = [env EXCEPT !.session = "frozen"]
  /\ pc' = "export"
  /\ UNCHANGED <<task, tracker, late, agent, failure, rejected, workspace, hand,
                 files, history>>

\* A rejected workspace is never read: its candidate is empty.  The code copies
\* file by file; no property tells a copy that a late write fell into from one
\* made before or after that write.
Export ==
  /\ pc = "export"
  /\ files' = [files EXCEPT !.candidate = IF rejected THEN Quarantine
                                          ELSE workspace.content]
  /\ pc' = "verify"
  /\ UNCHANGED <<task, env, tracker, late, agent, failure, rejected, workspace,
                 hand, history>>

\* verification_requires_final_submission
SubmissionMissing == task.submission /\ env.reason # "final_submission"

\* Every node is skipped, or the candidate is verified; files.result stands for
\* the nodes that correctness requires.
Verify ==
  /\ pc = "verify"
  /\ \/ /\ rejected \/ SubmissionMissing
        /\ files' = [files EXCEPT !.result = "skipped"]
     \/ /\ ~rejected /\ ~SubmissionMissing
        /\ \E result \in Statuses :
             files' = [files EXCEPT !.result = result, !.verified = files.candidate]
  /\ pc' = "score"
  /\ UNCHANGED <<task, env, tracker, late, agent, failure, rejected, workspace,
                 hand, history>>

\* The session is closed, the scorecard written, the state of the episode final.
Score ==
  LET card == Scorecard(Ending(env.reason, failure),
                        [n \in {"required"} |-> files.result], {"required"})
  IN  /\ pc = "score"
      /\ files' = [files EXCEPT !.card = card]
      /\ env' = [env EXCEPT !.session = "closed",
                   !.state = IF card.status = "completed" THEN "completed" ELSE "failed"]
      /\ pc' = "done"
      /\ UNCHANGED <<task, tracker, late, agent, failure, rejected, workspace, hand,
                     history>>

\* Any other exception, of a client, a plug-in, a tree that cannot be read or
\* the verifier's own bookkeeping: run's finally closes the session.
HarnessFails ==
  /\ \/ pc \in {"act", "model", "tool", "public", "freeze", "export", "verify"}
     \/ pc = "step" /\ agent.action = "final"
  /\ env' = [env EXCEPT !.session = "closed"]
  /\ pc' = "raised"
  /\ UNCHANGED <<task, tracker, late, agent, failure, rejected, workspace, hand,
                 files, history>>

EnvironmentStep ==
  \/ StepExhausted \/ StepMessage \/ StepAbort \/ StepFinal
  \/ StepSubmission \/ StepSubmissionRefused
  \/ StepToolExhausted \/ StepTool \/ ToolReturns

Next ==
  \/ RunLate \/ LoopExhausted \/ LoopContinues
  \/ CallRefused \/ CallAuthorized \/ CallFailed
  \/ \E tokens \in Usages :
       AnswerOverspent(tokens) \/ AnswerParsed(tokens) \/ AnswerInvalid(tokens)
       \/ AnswerRejected(tokens)
  \/ EnvironmentStep
  \/ ExternalFinishes \/ ExternalTerminates \/ LateWrite \/ LateCallEnds
  \/ Validated \/ PublicTests \/ Freeze \/ Export \/ Verify \/ Score
  \/ HarnessFails

Spec == Init /\ [][Next]_vars

-----------------------------------------------------------------------------
(* Properties.                                                             *)

TypeOK ==
  /\ pc \in Loop \cup HandOver \cup Over
  /\ task \in [harness : Harnesses, budget : Budgets, submission : BOOLEAN]
  /\ env \in [state : States, reason : Reasons \cup {None},
              session : {"open", "frozen", "closed"}]
  /\ tracker \in [turns : Nat, tools : Nat, calls : Nat, tokens : Nat \cup {Unknown}]
  /\ late \in BOOLEAN
  /\ agent \in [action : Actions, invalid : Nat]
  /\ failure \in Failures /\ rejected \in BOOLEAN
  /\ workspace \in [content : Int, state : Trees]
  /\ files \in [candidate : Int, verified : Int, result : Statuses \cup {None},
                card : Scorecards \cup {NotScored}]
  /\ hand \in Nat
  /\ history \in [errors : Nat, last : Nat, content : Int, hand : Nat]

\* No counter passes its limit, tokens pass theirs by the last answer at most,
\* and an episode is only ended for a budget that is used up: the last unit of
\* each can be used.  (core/episode.py: the four exhausted_ tests, which
\* different components call at different moments)
BudgetsAreExact ==
  /\ tracker.turns <= task.budget.turns
  /\ tracker.tools <= task.budget.tools
  /\ ~Overspent(task.budget.calls, tracker.calls)
  /\ ~Overspent(task.budget.tokens, tracker.tokens - history.last)
  /\ LET exhausted == [wall_time_exhausted   |-> late,
                       turn_budget_exhausted |-> tracker.turns = task.budget.turns,
                       tool_budget_exhausted |-> tracker.tools = task.budget.tools,
                       model_budget_exhausted |-> tracker.calls = task.budget.calls,
                       token_budget_exhausted |-> Spent(task.budget.tokens,
                                                        tracker.tokens)]
     IN  env.reason \in BudgetReasons => exhausted[env.reason]

\* What is verified is what the loop left, changed by nothing but the writes that
\* an abandoned call still had in hand; without one, in a tree that obeys the
\* policy.  Files of a submission only if the submission was accepted, and
\* nothing before a final submission that the task asks for.
\* (core/orchestrator.py, core/environment.py, core/repository_tool_broker.py)
OnlyAcceptedWorkIsVerified ==
  files.verified # Nothing =>
    /\ files.verified = files.candidate
    /\ files.candidate >= history.content
    /\ files.candidate <= history.content + history.hand
    /\ history.hand = 0 => workspace.state = "valid"
    /\ files.candidate = Submission => env.reason = "final_submission"
    /\ task.submission => env.reason = "final_submission"

\* A model call that failed, or a required node in error, is never counted for
\* or against the candidate.  (core/model_gateway.py, core/scoring.py)
BrokenToolsGiveNoVerdict ==
  pc = "done" /\ (history.errors > 0 \/ files.result = "error") =>
    Outcome(files.card) = "infrastructure_error"

\* A scored single-turn episode ends in a way the sampling of ChatEval runs
\* knows, whatever happened before.  (agents/single_turn.py; SampleSet assumes it)
ChatEndingsAreKnown ==
  pc = "done" /\ task.harness = "single_turn" => files.card.ending \in ChatEndings

\* An ended episode stays ended: no budget is consumed, its reason is replaced
\* only when the workspace is rejected, and its content changes only while the
\* session is there and only by the writes in hand when it ended: none at all
\* where no call was abandoned.
\* (core/environment.py, core/orchestrator.py, core/repository_tool_broker.py)
EndIsFinal ==
  [][env.reason # None =>
       /\ tracker' = tracker
       /\ env'.reason \in {env.reason, "policy_violation"}
       /\ \/ workspace' = workspace
          \/ /\ env.session # "closed"
             /\ workspace'.content <= history.content + history.hand]_vars
=============================================================================
