---------------------------- MODULE EpisodeProofs ----------------------------
(***************************************************************************)
(* For every budget, every limit on invalid actions and every choice of    *)
(* harnesses: an episode keeps its budgets, ends once, and what is handed  *)
(* over, verified and scored is what its end says.  The inductive          *)
(* invariant says what each place in a run knows of the episode.           *)
(***************************************************************************)
EXTENDS Episode, TLAPS

\* In the loop nothing has ended; behind it the episode has a reason, and a run
\* that is over has closed its session.
Control ==
  /\ pc \in Loop => env.reason = None /\ failure = "none" /\ ~rejected
  /\ pc \in HandOver \cup {"done"} => env.reason \in Reasons
  /\ pc = "validate" => task.harness = "external"
  /\ pc \in Over => env.session = "closed"

-----------------------------------------------------------------------------
(* Types.                                                                  *)

Tasks == [harness : Harnesses, budget : Budgets, submission : BOOLEAN]
Environments == [state : States, reason : Reasons \cup {None},
                 session : {"open", "frozen", "closed"}]
Trackers == [turns : Nat, tools : Nat, calls : Nat, tokens : Nat \cup {Unknown}]
Agents == [action : Actions, invalid : Nat]
Workspaces == [content : Int, state : Trees]
Files == [candidate : Int, verified : Int, result : Statuses \cup {None},
          card : Scorecards \cup {NotScored}]
Histories == [errors : Nat, last : Nat, content : Int, hand : Nat]

LEMMA Types ==
  TypeOK <=> /\ pc \in Loop \cup HandOver \cup Over
             /\ task \in Tasks /\ env \in Environments /\ tracker \in Trackers
             /\ late \in BOOLEAN /\ agent \in Agents
             /\ failure \in Failures /\ rejected \in BOOLEAN
             /\ workspace \in Workspaces /\ hand \in Nat
             /\ files \in Files /\ history \in Histories
  BY DEF TypeOK, Tasks, Environments, Trackers, Agents, Workspaces, Files, Histories

\* The reason a budget gives is the exhausted one, and that budget is used up.
LEMMA BudgetReasonsAreReasons == BudgetReasons \subseteq Reasons /\ None \notin Reasons
  BY DEF BudgetReasons, Reasons, None

\* Leaving the loop for a reason is well typed.
LEMMA LeavingTypes ==
  ASSUME TypeOK, NEW state \in States, NEW reason \in Reasons, NEW past \in Histories,
         Ended(state, reason), pc' = AfterLoop, Left(past), tracker' \in Trackers,
         workspace' \in Workspaces, hand' \in Nat, agent' \in Agents,
         failure' \in Failures, rejected' \in BOOLEAN, UNCHANGED <<task, late, files>>
  PROVE  TypeOK'
<1>1. env' \in Environments
  BY Types DEF Ended, Environments
<1>2. pc' \in HandOver
  BY DEF AfterLoop, HandOver
<1>3. history' \in Histories
  BY DEF Left, Histories, Workspaces
<1>4. TypeOK' <=> /\ pc' \in Loop \cup HandOver \cup Over
                  /\ task' \in Tasks /\ env' \in Environments /\ tracker' \in Trackers
                  /\ late' \in BOOLEAN /\ agent' \in Agents
                  /\ failure' \in Failures /\ rejected' \in BOOLEAN
                  /\ workspace' \in Workspaces /\ hand' \in Nat
                  /\ files' \in Files /\ history' \in Histories
  BY DEF TypeOK, Tasks, Environments, Trackers, Agents, Workspaces, Files, Histories
<1>5. QED BY <1>1, <1>2, <1>3, <1>4, Types

\* What a budget test answers is a reason to end, or none.
LEMMA ExhaustedReasons ==
  ASSUME NEW tokens
  PROVE  /\ ExhaustedBeforeTurn \in Reasons \cup {None}
         /\ ExhaustedBeforeTool \in Reasons \cup {None}
         /\ ExhaustedBeforeModel \in Reasons \cup {None}
         /\ ExhaustedAfterModel(tokens) \in Reasons \cup {None}
  BY DEF ExhaustedBeforeTurn, ExhaustedBeforeTool, ExhaustedBeforeModel, ExhaustedAfterModel,
         Reasons, BudgetReasons, None

LEMMA AccumulatedTypes ==
  ASSUME TypeOK, NEW tokens \in Usages
  PROVE  /\ Accumulated(tokens) \in Nat \cup {Unknown}
         /\ [tracker EXCEPT !.tokens = Accumulated(tokens)] \in Trackers
         /\ Paid(tokens) \in Histories
<1>1. tokens \in Nat \cup {Unknown}
  BY EpisodeAssumption DEF Usages
<1>2. Accumulated(tokens) \in Nat \cup {Unknown}
  BY <1>1, Types DEF Accumulated, Trackers, Unknown
<1>3. (IF tokens = Unknown THEN 0 ELSE tokens) \in Nat
  BY <1>1 DEF Unknown
<1>4. Paid(tokens) \in Histories
  BY <1>3, Types DEF Paid, Histories
<1>5. QED BY <1>2, <1>4, Types DEF Trackers

LEMMA ScorecardTypes ==
  ASSUME NEW reason \in Reasons, NEW kind \in Failures, NEW results, NEW required
  PROVE  Scorecard(Ending(reason, kind), results, required) \in Scorecards
<1> DEFINE infrastructure == \/ HasInfrastructureError(results, required)
                             \/ kind = "infrastructure"
           resolved == /\ kind = "none" /\ \A n \in required : results[n] = "passed"
                       /\ ~infrastructure
           status == IF infrastructure THEN "error"
                     ELSE IF kind = "none" THEN "completed" ELSE "failed"
<1>1. Ending(reason, kind) \in Endings
  BY DEF Ending, Endings
<1>2. resolved \in BOOLEAN /\ status \in {"error", "failed", "completed"}
  BY Zenon
<1>3. Scorecard(Ending(reason, kind), results, required)
        = [ending |-> Ending(reason, kind), resolved |-> resolved, status |-> status]
  BY DEF Scorecard, Ending
<1> HIDE DEF infrastructure, resolved, status
<1>4. QED BY <1>1, <1>2, <1>3 DEF Scorecards

-----------------------------------------------------------------------------
LEMMA TypeInit == ASSUME Init PROVE TypeOK /\ Control
<1>1. env \in Environments /\ tracker \in Trackers /\ agent \in Agents
  BY DEF Init, Environments, States, Trackers, Agents, Actions, None
<1>2. workspace \in Workspaces /\ files \in Files /\ history \in Histories
  BY DEF Init, Workspaces, Trees, Files, Histories, None, Nothing
<1>3. task \in Tasks /\ failure \in Failures
  BY DEF Init, Tasks, Failures
<1>4. QED BY <1>1, <1>2, <1>3, Types DEF Init, Control, Loop, HandOver, Over

\* A step that changes no more than the place, the late bit and the agent.
LEMMA TypesKept ==
  ASSUME TypeOK, pc' \in Loop \cup HandOver \cup Over, late' \in BOOLEAN, agent' \in Agents,
         tracker' \in Trackers, env' \in Environments, failure' \in Failures,
         rejected' \in BOOLEAN, workspace' \in Workspaces, hand' \in Nat,
         files' \in Files, history' \in Histories, UNCHANGED task
  PROVE  TypeOK'
<1>1. TypeOK' <=> /\ pc' \in Loop \cup HandOver \cup Over
                  /\ task' \in Tasks /\ env' \in Environments /\ tracker' \in Trackers
                  /\ late' \in BOOLEAN /\ agent' \in Agents
                  /\ failure' \in Failures /\ rejected' \in BOOLEAN
                  /\ workspace' \in Workspaces /\ hand' \in Nat
                  /\ files' \in Files /\ history' \in Histories
  BY DEF TypeOK, Tasks, Environments, Trackers, Agents, Workspaces, Files, Histories
<1>2. QED BY <1>1, Types

LEMMA TypeModel ==
  ASSUME TypeOK,
         \/ CallRefused \/ CallAuthorized \/ CallFailed
         \/ \E tokens \in Usages : \/ AnswerOverspent(tokens) \/ AnswerParsed(tokens)
                                    \/ AnswerInvalid(tokens) \/ AnswerRejected(tokens)
  PROVE  TypeOK'
<1> USE DEF Loop, HandOver, States, Failures
<1>1. CASE CallRefused
  <2>1. ExhaustedBeforeModel \in Reasons
    BY <1>1, ExhaustedReasons DEF CallRefused
  <2>2. QED BY <1>1, <2>1, LeavingTypes, Types DEF CallRefused, Terminated
<1>2. CASE CallAuthorized
  <2>1. tracker' \in Trackers
    BY <1>2, Types DEF CallAuthorized, Trackers
  <2>2. QED BY <1>2, <2>1, TypesKept, Types DEF CallAuthorized
<1>3. CASE CallFailed
  <2>1. tracker' \in Trackers /\ [history EXCEPT !.errors = @ + 1] \in Histories
    BY <1>3, Types DEF CallFailed, Trackers, Histories
  <2>2. "model_error" \in Reasons
    BY DEF Reasons
  <2>3. QED BY <1>3, <2>1, <2>2, LeavingTypes, Types DEF CallFailed, Terminated
<1>4. ASSUME NEW tokens \in Usages, AnswerOverspent(tokens) PROVE TypeOK'
  <2>1. ExhaustedAfterModel(Accumulated(tokens)) \in Reasons
    BY <1>4, ExhaustedReasons DEF AnswerOverspent
  <2>2. QED
    BY <1>4, <2>1, AccumulatedTypes, LeavingTypes, Types DEF AnswerOverspent, Answer, Terminated
<1>5. ASSUME NEW tokens \in Usages, AnswerParsed(tokens) PROVE TypeOK'
  <2>1. agent' \in Agents
    BY <1>5 DEF AnswerParsed, Agents, Actions
  <2>2. QED BY <1>5, <2>1, AccumulatedTypes, TypesKept, Types DEF AnswerParsed, Answer
<1>6. ASSUME NEW tokens \in Usages, AnswerInvalid(tokens) PROVE TypeOK'
  <2>1. agent' \in Agents
    BY <1>6, Types DEF AnswerInvalid, Agents, Actions
  <2>2. QED BY <1>6, <2>1, AccumulatedTypes, TypesKept, Types DEF AnswerInvalid, Answer
<1>7. ASSUME NEW tokens \in Usages, AnswerRejected(tokens) PROVE TypeOK'
  <2>1. agent' \in Agents
    BY <1>7, Types DEF AnswerRejected, Agents
  <2>2. (IF task.harness = "react" THEN "invalid_action_limit" ELSE "model_output_invalid")
          \in Reasons
    BY DEF Reasons
  <2>3. QED
    BY <1>7, <2>1, <2>2, AccumulatedTypes, LeavingTypes, Types
       DEF AnswerRejected, Answer, Terminated
<1>8. QED BY <1>1, <1>2, <1>3, <1>4, <1>5, <1>6, <1>7

LEMMA TypeEnvironment ==
  ASSUME TypeOK, LoopExhausted \/ EnvironmentStep PROVE TypeOK'
<1> USE DEF Loop, HandOver, States, Failures
<1>1. /\ {"agent_abort", "final_submission", "policy_violation"} \subseteq Reasons
      /\ [tracker EXCEPT !.turns = @ + 1] \in Trackers
      /\ [tracker EXCEPT !.turns = @ + 1, !.tools = @ + 1] \in Trackers
  <2>1. {"agent_abort", "final_submission", "policy_violation"} \subseteq Reasons
    BY DEF Reasons
  <2>2. tracker.turns + 1 \in Nat /\ tracker.tools + 1 \in Nat /\ tracker \in Trackers
    BY Types DEF Trackers
  <2>3. QED BY <2>1, <2>2 DEF Trackers
<1>2. CASE LoopExhausted \/ StepExhausted
  <2>1. ExhaustedBeforeTurn \in Reasons
    BY <1>2, ExhaustedReasons DEF LoopExhausted, StepExhausted
  <2>2. Truncated(ExhaustedBeforeTurn) /\ UNCHANGED <<task, tracker, late, agent, files>>
    BY <1>2 DEF LoopExhausted, StepExhausted
  <2>3. QED BY <2>1, <2>2, LeavingTypes, Types DEF Truncated
<1>3. CASE StepMessage
  BY <1>1, <1>3, TypesKept, Types DEF StepMessage, Step, TurnConsumed
<1>4. CASE StepAbort
  BY <1>1, <1>4, LeavingTypes, Types DEF StepAbort, Step, TurnConsumed
<1>5. CASE StepFinal
  BY <1>1, <1>5, LeavingTypes, Types DEF StepFinal, Step, TurnConsumed
<1>6. CASE StepSubmission
  <2>1. workspace' \in Workspaces
    BY <1>6, Types DEF StepSubmission, Workspaces, Submission
  <2>2. QED BY <1>1, <1>6, <2>1, LeavingTypes, Types DEF StepSubmission, Step, TurnConsumed
<1>7. CASE StepSubmissionRefused
  BY <1>1, <1>7, LeavingTypes, Types DEF StepSubmissionRefused, Step, TurnConsumed
<1>8. CASE StepToolExhausted
  <2>1. ExhaustedBeforeTool \in Reasons
    BY <1>8, ExhaustedReasons DEF StepToolExhausted
  <2>2. QED BY <1>1, <1>8, <2>1, LeavingTypes, Types DEF StepToolExhausted, Step, TurnConsumed
<1>9. CASE StepTool
  BY <1>1, <1>9, TypesKept, Types DEF StepTool, Step
<1>10. CASE ToolReturns
  <2>1. workspace' \in Workspaces
    BY <1>10, Types DEF ToolReturns, Workspaces
  <2>2. QED BY <1>10, <2>1, TypesKept, Types DEF ToolReturns
<1>11. QED
  BY <1>2, <1>3, <1>4, <1>5, <1>6, <1>7, <1>8, <1>9, <1>10 DEF EnvironmentStep

\* What an adapter raises, as a reason and a failure; never a budget.
LEMMA AdapterEndings ==
  ASSUME NEW ending \in CliEndings \cup SdkEndings
  PROVE  /\ ending.reason \in Reasons \ BudgetReasons
         /\ ending.failure \in Failures
  BY DEF CliEndings, SdkEndings, Ending, Reasons, BudgetReasons, Failures

LEMMA WorkLeftTypes ==
  ASSUME NEW tree \in Trees, WorkLeft(tree)
  PROVE  workspace' \in Workspaces /\ hand' \in Nat
  BY EpisodeAssumption DEF WorkLeft, Workspaces

LEMMA TypeExternal ==
  ASSUME TypeOK, ExternalFinishes \/ ExternalTerminates PROVE TypeOK'
<1> USE DEF Loop, HandOver, States
<1>1. CASE ExternalFinishes
  <2>1. workspace' \in Workspaces /\ hand' \in Nat
    BY <1>1, WorkLeftTypes DEF ExternalFinishes
  <2>2. agent' \in Agents
    BY <1>1, Types DEF ExternalFinishes, Agents, Actions
  <2>3. QED BY <1>1, <2>1, <2>2, TypesKept, Types DEF ExternalFinishes
<1>2. CASE ExternalTerminates
  <2>1. PICK ending \in CliEndings \cup SdkEndings, tree \in Trees :
          /\ Terminated(ending.reason, ending.failure)
          /\ WorkLeft(tree)
          /\ rejected' = (ending.failure = "policy" \/ tree = "unreadable")
    BY <1>2 DEF ExternalTerminates
  <2>2. ending.reason \in Reasons /\ ending.failure \in Failures
    BY AdapterEndings
  <2>3. workspace' \in Workspaces /\ hand' \in Nat /\ rejected' \in BOOLEAN
    BY <2>1, WorkLeftTypes
  <2>4. QED BY <1>2, <2>1, <2>2, <2>3, LeavingTypes, Types DEF ExternalTerminates, Terminated
<1>3. QED BY <1>1, <1>2

\* The writes of an abandoned call.
LateStep == LateWrite \/ LateCallEnds

LEMMA TypeLate == ASSUME TypeOK, LateStep PROVE TypeOK'
<1>1. /\ hand' \in Nat
      /\ UNCHANGED <<pc, task, env, tracker, late, agent, failure, rejected, files, history>>
  BY Types DEF LateStep, LateWrite, LateCallEnds
<1>2. workspace' \in Workspaces
  <2>1. CASE LateWrite
    BY <2>1, Types DEF LateWrite, Workspaces, Trees
  <2>2. CASE LateCallEnds
    BY <2>2, Types DEF LateCallEnds
  <2>3. QED BY <2>1, <2>2 DEF LateStep
<1>3. QED BY <1>1, <1>2, TypesKept, Types

HandingOver == Validated \/ PublicTests \/ Freeze \/ Export \/ Verify \/ Score

LEMMA TypeHandOver ==
  ASSUME TypeOK, Control, HandingOver PROVE TypeOK'
<1> USE DEF HandOver, Over, Failures
<1>1. CASE Validated
  <2>1. env' \in Environments
    BY <1>1, Types DEF Validated, Ended, Environments, Reasons
  <2>2. failure' \in Failures /\ rejected' \in BOOLEAN
    BY <1>1, Types DEF Validated
  <2>3. QED BY <1>1, <2>1, <2>2, TypesKept, Types DEF Validated
<1>2. CASE PublicTests
  BY <1>2, TypesKept, Types DEF PublicTests
<1>3. CASE Freeze
  <2>1. env' \in Environments
    BY <1>3, Types DEF Freeze, Environments
  <2>2. QED BY <1>3, <2>1, TypesKept, Types DEF Freeze
<1>4. CASE Export
  <2>1. files' \in Files
    BY <1>4, Types DEF Export, Files, Workspaces, Quarantine
  <2>2. QED BY <1>4, <2>1, TypesKept, Types DEF Export
<1>5. CASE Verify
  <2>1. files' \in Files
    BY <1>5, Types DEF Verify, Files, Statuses
  <2>2. QED BY <1>5, <2>1, TypesKept, Types DEF Verify
<1>6. CASE Score
  <2> DEFINE card == Scorecard(Ending(env.reason, failure),
                               [n \in {"required"} |-> files.result], {"required"})
             state == IF card.status = "completed" THEN "completed" ELSE "failed"
  <2>1. card \in Scorecards
    BY <1>6, ScorecardTypes, Types DEF Score, Control
  <2>2. state \in States
    BY DEF States
  <2>3. /\ files' = [files EXCEPT !.card = card]
        /\ env' = [env EXCEPT !.session = "closed", !.state = state]
        /\ pc' = "done"
        /\ UNCHANGED <<task, tracker, late, agent, failure, rejected, workspace, hand,
                       history>>
    BY <1>6 DEF Score
  <2> HIDE DEF card, state
  <2>4. files' \in Files
    BY <2>1, <2>3, Types DEF Files
  <2>5. env' \in Environments
    BY <2>2, <2>3, Types DEF Environments
  <2>6. QED BY <2>3, <2>4, <2>5, TypesKept, Types
<1>7. QED BY <1>1, <1>2, <1>3, <1>4, <1>5, <1>6 DEF HandingOver

LEMMA TypeOthers ==
  ASSUME TypeOK, RunLate \/ LoopContinues \/ HarnessFails \/ UNCHANGED vars PROVE TypeOK'
<1>1. CASE RunLate \/ LoopContinues
  BY <1>1, TypesKept, Types DEF RunLate, LoopContinues, Loop
<1>2. CASE HarnessFails
  <2>1. env' \in Environments
    BY <1>2, Types DEF HarnessFails, Environments
  <2>2. QED BY <1>2, <2>1, TypesKept, Types DEF HarnessFails, Over
<1>3. CASE UNCHANGED vars
  BY <1>3, TypesKept, Types DEF vars
<1>4. QED BY <1>1, <1>2, <1>3

-----------------------------------------------------------------------------
(* The steps of a run, by what they do to the episode: it goes on, it      *)
(* leaves the loop, it is handed over, an abandoned call goes on, or the   *)
(* harness fails.                                                          *)
GoesOn ==
  /\ pc \in Loop /\ pc' \in Loop
  /\ UNCHANGED <<task, env, failure, rejected, files>>
  /\ history'.errors = history.errors
  /\ workspace'.content \in {workspace.content, workspace.content + 1, 1}
  /\ task.harness # "external" => workspace'.state = workspace.state /\ hand' = hand

Leaves ==
  /\ pc \in Loop /\ pc' = AfterLoop
  /\ env'.reason \in Reasons /\ UNCHANGED <<task, files>>
  /\ history'.errors = history.errors \/ failure' = "infrastructure"
  /\ history'.content = workspace'.content /\ history'.hand = hand'
  /\ task.harness # "external"
       => rejected' = rejected /\ workspace'.state = workspace.state /\ hand' = hand
  /\ \/ workspace'.content \in {workspace.content, 1}
     \/ /\ workspace'.content = Submission /\ task.harness = "single_turn"
        /\ env'.reason = "final_submission"

ModelStep ==
  \/ CallRefused \/ CallAuthorized \/ CallFailed
  \/ \E tokens \in Usages : \/ AnswerOverspent(tokens) \/ AnswerParsed(tokens)
                             \/ AnswerInvalid(tokens) \/ AnswerRejected(tokens)

LoopStep ==
  \/ RunLate \/ LoopContinues \/ LoopExhausted \/ EnvironmentStep
  \/ ModelStep \/ ExternalFinishes \/ ExternalTerminates

LEMMA NextSteps == Next <=> LoopStep \/ HandingOver \/ LateStep \/ HarnessFails
  BY DEF Next, ModelStep, HandingOver, LoopStep, LateStep

\* How the loop is left: a reason is set, and the content is noted.
LEMMA Leaving ==
  ASSUME TypeOK, NEW state, NEW reason \in Reasons, NEW past \in Histories,
         Ended(state, reason), pc' = AfterLoop, Left(past), workspace' \in Workspaces
  PROVE  /\ env'.reason = reason /\ env'.reason \in Reasons
         /\ history'.content = workspace'.content /\ history'.hand = hand'
         /\ history'.errors = past.errors /\ history'.last = past.last
<1>1. env \in Environments
  BY Types
<1>2. env'.reason = reason
  BY <1>1 DEF Ended, Environments
<1>3. QED BY <1>2 DEF Left, Histories

LEMMA LoopCases ==
  ASSUME TypeOK, LoopStep PROVE GoesOn \/ Leaves
<1> USE DEF Loop
<1>1. /\ history \in Histories /\ [history EXCEPT !.errors = @ + 1] \in Histories
      /\ workspace \in Workspaces
      /\ \A tokens \in Usages : Paid(tokens) \in Histories /\ Paid(tokens).errors = history.errors
  <2>1. history \in Histories /\ workspace \in Workspaces
    BY Types
  <2>2. \A tokens \in Usages : Paid(tokens) \in Histories
    BY AccumulatedTypes
  <2>3. QED BY <2>1, <2>2 DEF Paid, Histories
<1>2. ASSUME RunLate \/ LoopContinues \/ StepMessage \/ StepTool \/ CallAuthorized PROVE GoesOn
  BY <1>2 DEF GoesOn, RunLate, LoopContinues, StepMessage, StepTool, CallAuthorized, Step
<1>3. CASE ToolReturns
  BY <1>1, <1>3 DEF GoesOn, ToolReturns, Workspaces
<1>4. CASE ExternalFinishes
  BY <1>4 DEF GoesOn, ExternalFinishes, WorkLeft
<1>5. ASSUME NEW tokens \in Usages, AnswerParsed(tokens) \/ AnswerInvalid(tokens) PROVE GoesOn
  BY <1>1, <1>5 DEF GoesOn, AnswerParsed, AnswerInvalid, Answer
<1>6. ASSUME LoopExhausted \/ StepExhausted PROVE Leaves
  <2>1. ExhaustedBeforeTurn \in Reasons
    BY <1>6, ExhaustedReasons DEF LoopExhausted, StepExhausted
  <2>2. /\ Truncated(ExhaustedBeforeTurn) /\ pc \in Loop
        /\ UNCHANGED <<task, tracker, late, agent, files>>
    BY <1>6 DEF LoopExhausted, StepExhausted
  <2>3. QED BY <1>1, <2>1, <2>2, Leaving DEF Truncated, Leaves
<1>7. ASSUME StepAbort \/ StepFinal \/ StepSubmissionRefused PROVE Leaves
  <2>1. {"agent_abort", "final_submission", "policy_violation"} \subseteq Reasons
    BY DEF Reasons
  <2>2. QED
    BY <1>1, <1>7, <2>1, Leaving DEF Leaves, StepAbort, StepFinal, StepSubmissionRefused, Step
<1>8. ASSUME StepSubmission PROVE Leaves
  <2>1. "final_submission" \in Reasons
    BY DEF Reasons
  <2>2. workspace' \in Workspaces /\ workspace'.content = Submission
        /\ workspace'.state = workspace.state
    BY <1>1, <1>8 DEF StepSubmission, Workspaces, Submission
  <2>3. QED BY <1>1, <1>8, <2>1, <2>2, Leaving DEF Leaves, StepSubmission, Step
<1>9. ASSUME StepToolExhausted PROVE Leaves
  <2>1. ExhaustedBeforeTool \in Reasons
    BY <1>9, ExhaustedReasons DEF StepToolExhausted
  <2>2. QED BY <1>1, <1>9, <2>1, Leaving DEF Leaves, StepToolExhausted, Step
<1>10. ASSUME CallRefused PROVE Leaves
  <2>1. ExhaustedBeforeModel \in Reasons
    BY <1>10, ExhaustedReasons DEF CallRefused
  <2>2. QED BY <1>1, <1>10, <2>1, Leaving DEF Leaves, CallRefused, Terminated
<1>11. ASSUME CallFailed PROVE Leaves
  <2>1. "model_error" \in Reasons
    BY DEF Reasons
  <2>2. QED BY <1>1, <1>11, <2>1, Leaving DEF Leaves, CallFailed, Terminated
<1>12. ASSUME NEW tokens \in Usages, AnswerOverspent(tokens) PROVE Leaves
  <2>1. ExhaustedAfterModel(Accumulated(tokens)) \in Reasons
    BY <1>12, ExhaustedReasons DEF AnswerOverspent
  <2>2. QED BY <1>1, <1>12, <2>1, Leaving DEF Leaves, AnswerOverspent, Answer, Terminated
<1>13. ASSUME NEW tokens \in Usages, AnswerRejected(tokens) PROVE Leaves
  <2> DEFINE reason == IF task.harness = "react" THEN "invalid_action_limit"
                       ELSE "model_output_invalid"
  <2>1. reason \in Reasons
    BY DEF Reasons
  <2>2. Terminated(reason, "candidate")
    BY <1>13 DEF AnswerRejected
  <2> HIDE DEF reason
  <2>3. QED BY <1>1, <1>13, <2>1, <2>2, Leaving DEF Leaves, AnswerRejected, Answer, Terminated
<1>14. ASSUME ExternalTerminates PROVE Leaves
  <2>1. PICK ending \in CliEndings \cup SdkEndings, tree \in Trees :
          Terminated(ending.reason, ending.failure) /\ WorkLeft(tree)
    BY <1>14 DEF ExternalTerminates
  <2>2. ending.reason \in Reasons /\ workspace' \in Workspaces /\ workspace'.content = 1
    BY <2>1, AdapterEndings, WorkLeftTypes DEF WorkLeft
  <2>3. QED BY <1>1, <1>14, <2>1, <2>2, Leaving DEF Leaves, ExternalTerminates, Terminated
<1>15. QED
  BY <1>2, <1>3, <1>4, <1>5, <1>6, <1>7, <1>8, <1>9, <1>10, <1>11, <1>12, <1>13, <1>14
     DEF LoopStep, EnvironmentStep, ModelStep

-----------------------------------------------------------------------------
(* Types and control, for every step.                                      *)

LEMMA ControlKept ==
  ASSUME TypeOK, Control, [Next]_vars PROVE Control'
<1> USE DEF Loop, HandOver, Over
<1>1. env \in Environments
  BY Types
<1>2. CASE GoesOn
  BY <1>2 DEF Control, GoesOn
<1>3. CASE Leaves
  <2>1. pc' \in HandOver /\ (pc' = "validate" => task.harness = "external")
    BY <1>3 DEF Leaves, AfterLoop
  <2>2. QED BY <1>3, <2>1 DEF Control, Leaves
<1>4. CASE Validated
  BY <1>1, <1>4 DEF Control, Validated, Ended, Environments, Reasons
<1>5. CASE PublicTests \/ Freeze \/ Export \/ Verify
  BY <1>1, <1>5 DEF Control, PublicTests, Freeze, Export, Verify, Environments
<1>6. CASE Score
  <2>1. env'.reason = env.reason /\ env'.session = "closed" /\ pc = "score" /\ pc' = "done"
    BY <1>1, <1>6 DEF Score, Environments
  <2>2. QED BY <2>1 DEF Control
<1>7. CASE HarnessFails
  BY <1>1, <1>7 DEF Control, HarnessFails, Environments
<1>8. CASE LateStep
  BY <1>8 DEF Control, LateStep, LateWrite, LateCallEnds
<1>9. CASE UNCHANGED vars
  BY <1>9 DEF Control, vars
<1>10. QED
  BY <1>2, <1>3, <1>4, <1>5, <1>6, <1>7, <1>8, <1>9, LoopCases, NextSteps DEF HandingOver

\* Every variable keeps its type, in the loop nothing has ended, behind it the
\* episode has a reason, and a run that is over has closed its session.
\* (core/orchestrator.py, core/environment.py)
THEOREM EpisodeTypes == Spec => [](TypeOK /\ Control)
<1>1. Init => TypeOK /\ Control
  BY TypeInit
<1>2. TypeOK /\ Control /\ [Next]_vars => (TypeOK /\ Control)'
  <2> SUFFICES ASSUME TypeOK, Control, [Next]_vars PROVE TypeOK'
    BY ControlKept
  <2>1. CASE ModelStep
    BY <2>1, TypeModel DEF ModelStep
  <2>2. CASE LoopExhausted \/ EnvironmentStep
    BY <2>2, TypeEnvironment
  <2>3. CASE ExternalFinishes \/ ExternalTerminates
    BY <2>3, TypeExternal
  <2>4. CASE HandingOver
    BY <2>4, TypeHandOver
  <2>5. CASE RunLate \/ LoopContinues \/ HarnessFails \/ UNCHANGED vars
    BY <2>5, TypeOthers
  <2>6. CASE LateStep
    BY <2>6, TypeLate
  <2>7. QED BY <2>1, <2>2, <2>3, <2>4, <2>5, <2>6, NextSteps DEF LoopStep
<1>3. QED BY <1>1, <1>2, PTL DEF Spec

-----------------------------------------------------------------------------
(* Budgets.  BudgetsAreExact is split into what a counter may reach and    *)
(* what a reason says of the counters, and strengthened by what a call in  *)
(* flight knows: before it, the tokens were not used up.                   *)

Within(t, last) ==
  /\ t.turns <= task.budget.turns
  /\ t.tools <= task.budget.tools
  /\ ~Overspent(task.budget.calls, t.calls)
  /\ ~Overspent(task.budget.tokens, t.tokens - last)

UsedUp(reason, t, over) ==
  /\ reason = "wall_time_exhausted" => over
  /\ reason = "turn_budget_exhausted" => t.turns = task.budget.turns
  /\ reason = "tool_budget_exhausted" => t.tools = task.budget.tools
  /\ reason = "model_budget_exhausted" => t.calls = task.budget.calls
  /\ reason = "token_budget_exhausted" => Spent(task.budget.tokens, t.tokens)

CallIsPaid == pc = "model" => ~Spent(task.budget.tokens, tracker.tokens)

Budgeted ==
  Within(tracker, history.last) /\ UsedUp(env.reason, tracker, late) /\ CallIsPaid

LEMMA BudgetParts ==
  ASSUME Budgeted PROVE BudgetsAreExact
<1> DEFINE exhausted == [wall_time_exhausted   |-> late,
                         turn_budget_exhausted |-> tracker.turns = task.budget.turns,
                         tool_budget_exhausted |-> tracker.tools = task.budget.tools,
                         model_budget_exhausted |-> tracker.calls = task.budget.calls,
                         token_budget_exhausted |-> Spent(task.budget.tokens,
                                                          tracker.tokens)]
<1>1. /\ exhausted["wall_time_exhausted"] = late
      /\ exhausted["turn_budget_exhausted"] = (tracker.turns = task.budget.turns)
      /\ exhausted["tool_budget_exhausted"] = (tracker.tools = task.budget.tools)
      /\ exhausted["model_budget_exhausted"] = (tracker.calls = task.budget.calls)
      /\ exhausted["token_budget_exhausted"] = Spent(task.budget.tokens, tracker.tokens)
  OBVIOUS
<1> HIDE DEF exhausted
<1>2. ASSUME env.reason \in BudgetReasons PROVE exhausted[env.reason]
  BY <1>1, <1>2, Zenon DEF Budgeted, UsedUp, BudgetReasons
<1>3. (env.reason \in BudgetReasons => exhausted[env.reason]) => BudgetsAreExact
  BY DEF Budgeted, Within, BudgetsAreExact, exhausted
<1>4. QED BY <1>2, <1>3

\* What the types say of limits and counters.
LEMMA BudgetTypes ==
  ASSUME TypeOK
  PROVE  /\ task.budget.turns \in Nat /\ task.budget.tools \in Nat
         /\ task.budget.calls \in Nat \cup {NoLimit}
         /\ task.budget.tokens \in Nat \cup {NoLimit}
         /\ tracker.turns \in Nat /\ tracker.tools \in Nat /\ tracker.calls \in Nat
         /\ tracker.tokens \in Nat \cup {Unknown} /\ history.last \in Nat
         /\ tracker \in Trackers
<1>1. task.budget \in [turns : Nat \ {0}, tools : Nat,
                       calls : Nat \cup {NoLimit}, tokens : Nat \cup {NoLimit}]
  BY Types, EpisodeAssumption DEF Tasks
<1>2. QED BY <1>1, Types DEF Trackers, Histories

\* A budget test that ends the episode tells the truth.
LEMMA TestsTellTheTruth ==
  ASSUME TypeOK, Budgeted
  PROVE  /\ UsedUp(ExhaustedBeforeTurn, tracker, late)
         /\ UsedUp(ExhaustedBeforeTool, [tracker EXCEPT !.turns = @ + 1], late)
         /\ UsedUp(ExhaustedBeforeModel, tracker, late)
<1> USE BudgetTypes DEF NoLimit, Unknown, None
<1>1. UsedUp(ExhaustedBeforeTurn, tracker, late)
  BY DEF UsedUp, ExhaustedBeforeTurn, Budgeted, Within
<1>2. /\ [tracker EXCEPT !.turns = @ + 1].tools = tracker.tools
      /\ [tracker EXCEPT !.turns = @ + 1].calls = tracker.calls
      /\ [tracker EXCEPT !.turns = @ + 1].tokens = tracker.tokens
  BY DEF Trackers
<1>3. UsedUp(ExhaustedBeforeTool, [tracker EXCEPT !.turns = @ + 1], late)
  BY <1>2 DEF UsedUp, ExhaustedBeforeTool, Budgeted, Within
<1>4. UsedUp(ExhaustedBeforeModel, tracker, late)
  BY DEF UsedUp, ExhaustedBeforeModel, Budgeted, Within, Spent, Overspent
<1>5. QED BY <1>1, <1>3, <1>4

\* One more turn, or turn and tool call, after the test that allows it.
LEMMA TurnsWithin ==
  ASSUME TypeOK, Budgeted, ExhaustedBeforeTurn = None
  PROVE  /\ Within([tracker EXCEPT !.turns = @ + 1], history.last)
         /\ ExhaustedBeforeTool = None
              => Within([tracker EXCEPT !.turns = @ + 1, !.tools = @ + 1], history.last)
<1> USE BudgetTypes DEF None
<1>1. tracker.turns + 1 <= task.budget.turns
  BY DEF ExhaustedBeforeTurn
<1>2. ExhaustedBeforeTool = None => tracker.tools + 1 <= task.budget.tools
  BY DEF ExhaustedBeforeTool
<1>3. Within([tracker EXCEPT !.turns = @ + 1], history.last)
  BY <1>1 DEF Trackers, Budgeted, Within
<1>4. ASSUME ExhaustedBeforeTool = None
      PROVE  Within([tracker EXCEPT !.turns = @ + 1, !.tools = @ + 1], history.last)
  <2> DEFINE t == [tracker EXCEPT !.turns = @ + 1, !.tools = @ + 1]
  <2>1. /\ t.turns = tracker.turns + 1 /\ t.tools = tracker.tools + 1
        /\ t.calls = tracker.calls /\ t.tokens = tracker.tokens
    BY DEF Trackers
  <2> HIDE DEF t
  <2>2. Within(t, history.last)
    BY <1>1, <1>2, <1>4, <2>1 DEF Budgeted, Within
  <2>3. QED BY <2>2 DEF t
<1>5. QED BY <1>3, <1>4

\* An answer to a call that was authorized passes the limit by itself at most.
LEMMA AnswerWithin ==
  ASSUME TypeOK, Budgeted, pc = "model", NEW tokens \in Usages
  PROVE  Within([tracker EXCEPT !.tokens = Accumulated(tokens)], Paid(tokens).last)
<1> USE BudgetTypes DEF NoLimit, Unknown
<1> DEFINE t == [tracker EXCEPT !.tokens = Accumulated(tokens)]
<1>1. /\ t.turns = tracker.turns /\ t.tools = tracker.tools
      /\ t.calls = tracker.calls /\ t.tokens = Accumulated(tokens)
  BY DEF Trackers
<1>2. Paid(tokens).last = IF tokens = Unknown THEN 0 ELSE tokens
  BY Types DEF Paid, Histories
<1>3. tokens \in Nat \cup {Unknown}
  BY EpisodeAssumption DEF Usages
<1> DEFINE before == Accumulated(tokens) - Paid(tokens).last
<1>4. before \in Int /\ (before = tracker.tokens \/ before < 0)
  BY <1>2, <1>3 DEF Accumulated
<1>5. ~Spent(task.budget.tokens, tracker.tokens)
  BY DEF Budgeted, CallIsPaid
<1> HIDE DEF before, t
<1>6. ~Overspent(task.budget.tokens, before)
  BY <1>4, <1>5 DEF Spent, Overspent
<1>7. Within(t, Paid(tokens).last)
  BY <1>1, <1>6 DEF Budgeted, Within, before
<1>8. QED BY <1>7 DEF t

LEMMA OtherReasons ==
  ASSUME NEW reason, reason \notin BudgetReasons, NEW t, NEW over
  PROVE  UsedUp(reason, t, over)
  BY DEF UsedUp, BudgetReasons

LEMMA BudgetedNext ==
  ASSUME UNCHANGED task, Within(tracker', history'.last),
         UsedUp(env'.reason, tracker', late'),
         pc' # "model" \/ ~Spent(task.budget.tokens, tracker'.tokens)
  PROVE  Budgeted'
  BY DEF Budgeted, Within, UsedUp, CallIsPaid, Overspent, Spent

LEMMA BudgetedByModel ==
  ASSUME TypeOK, Control, Budgeted, ModelStep PROVE Budgeted'
<1>1. /\ history \in Histories /\ workspace \in Workspaces /\ env \in Environments
      /\ Within(tracker, history.last)
  BY Types DEF Budgeted
<1>2. pc' = AfterLoop => pc' # "model"
  BY DEF AfterLoop
<1>3. pc \in Loop => env.reason \notin BudgetReasons
  BY BudgetReasonsAreReasons DEF Control
<1>4. CASE CallRefused
  <2>1. ExhaustedBeforeModel \in Reasons
    BY <1>4, ExhaustedReasons DEF CallRefused
  <2>2. /\ env'.reason = ExhaustedBeforeModel /\ history'.last = history.last
        /\ UNCHANGED <<task, tracker, late>> /\ pc' # "model"
    BY <1>1, <1>2, <1>4, <2>1, Leaving DEF CallRefused, Terminated
  <2>3. UsedUp(ExhaustedBeforeModel, tracker, late)
    BY TestsTellTheTruth
  <2>4. QED BY <1>1, <2>2, <2>3, BudgetedNext
<1>5. CASE CallAuthorized
  <2>1. /\ ~Spent(task.budget.calls, tracker.calls)
        /\ ~Spent(task.budget.tokens, tracker.tokens)
    BY <1>5 DEF CallAuthorized, ExhaustedBeforeModel, None
  <2>2. /\ tracker'.turns = tracker.turns /\ tracker'.tools = tracker.tools
        /\ tracker'.calls = tracker.calls + 1 /\ tracker'.tokens = tracker.tokens
    BY <1>5, BudgetTypes DEF CallAuthorized, Trackers
  <2>3. ~Overspent(task.budget.calls, tracker.calls + 1)
    BY <2>1, BudgetTypes DEF Spent, Overspent, NoLimit, Unknown
  <2>4. Within(tracker', history'.last)
    BY <1>1, <1>5, <2>2, <2>3 DEF Within, CallAuthorized
  <2>5. UsedUp(env'.reason, tracker', late')
    BY <1>3, <1>5, OtherReasons DEF CallAuthorized, Loop
  <2>6. QED BY <1>5, <2>1, <2>2, <2>4, <2>5, BudgetedNext DEF CallAuthorized
<1>6. CASE CallFailed
  <2>1. "model_error" \in Reasons \ BudgetReasons
    BY DEF Reasons, BudgetReasons
  <2>2. [history EXCEPT !.errors = @ + 1] \in Histories
    BY <1>1 DEF Histories
  <2>3. /\ env'.reason = "model_error" /\ history'.last = history.last
        /\ UNCHANGED <<task, late>> /\ pc' # "model"
    BY <1>1, <1>2, <1>6, <2>1, <2>2, Leaving DEF CallFailed, Terminated, Histories
  <2>4. /\ tracker'.turns = tracker.turns /\ tracker'.tools = tracker.tools
        /\ tracker'.calls = tracker.calls /\ tracker'.tokens = Unknown
    BY <1>6, BudgetTypes DEF CallFailed, Trackers
  <2>5. ~Overspent(task.budget.tokens, Unknown - history.last)
    BY BudgetTypes DEF Overspent, Unknown, NoLimit
  <2>6. Within(tracker', history'.last)
    BY <1>1, <2>3, <2>4, <2>5 DEF Within
  <2>7. QED BY <2>1, <2>3, <2>6, OtherReasons, BudgetedNext
<1>7. ASSUME NEW tokens \in Usages,
             \/ AnswerOverspent(tokens) \/ AnswerParsed(tokens)
             \/ AnswerInvalid(tokens) \/ AnswerRejected(tokens)
      PROVE  Budgeted'
  <2>1. /\ pc = "model" /\ tracker' = [tracker EXCEPT !.tokens = Accumulated(tokens)]
        /\ UNCHANGED <<task, late>>
    BY <1>7 DEF AnswerOverspent, AnswerParsed, AnswerInvalid, AnswerRejected, Answer
  <2>2. Within(tracker', Paid(tokens).last) /\ Paid(tokens) \in Histories
    BY <2>1, AnswerWithin, AccumulatedTypes
  <2>3. CASE AnswerParsed(tokens) \/ AnswerInvalid(tokens)
    <3>1. history' = Paid(tokens) /\ env' = env /\ pc' = "step"
      BY <2>3 DEF AnswerParsed, AnswerInvalid
    <3>2. UsedUp(env'.reason, tracker', late')
      BY <1>3, <2>1, <3>1, OtherReasons DEF Loop
    <3>3. QED BY <2>1, <2>2, <3>1, <3>2, BudgetedNext
  <2>4. CASE AnswerOverspent(tokens)
    <3> DEFINE reason == ExhaustedAfterModel(Accumulated(tokens))
    <3>1. reason \in Reasons
      BY <2>4, ExhaustedReasons DEF AnswerOverspent
    <3>2. Terminated(reason, "candidate") /\ Left(Paid(tokens)) /\ workspace' = workspace
      BY <2>4 DEF AnswerOverspent
    <3>3. tracker'.tokens = Accumulated(tokens)
      BY <2>1, BudgetTypes DEF Trackers
    <3>4. UsedUp(reason, tracker', late)
      <4>1. Accumulated(tokens) \in Nat \cup {Unknown}
        BY AccumulatedTypes
      <4>2. Overspent(task.budget.tokens, Accumulated(tokens))
              => Spent(task.budget.tokens, tracker'.tokens)
        BY <3>3, <4>1, BudgetTypes DEF Overspent, Spent, Unknown, NoLimit
      <4>3. QED BY <4>2 DEF UsedUp, ExhaustedAfterModel, None
    <3> HIDE DEF reason
    <3>5. env'.reason = reason /\ history'.last = Paid(tokens).last /\ pc' # "model"
      BY <1>1, <1>2, <2>2, <3>1, <3>2, Leaving DEF Terminated
    <3>6. QED BY <2>1, <2>2, <3>4, <3>5, BudgetedNext
  <2>5. CASE AnswerRejected(tokens)
    <3> DEFINE reason == IF task.harness = "react" THEN "invalid_action_limit"
                         ELSE "model_output_invalid"
    <3>1. reason \in Reasons \ BudgetReasons
      BY DEF Reasons, BudgetReasons
    <3>2. Terminated(reason, "candidate") /\ Left(Paid(tokens)) /\ workspace' = workspace
      BY <2>5 DEF AnswerRejected
    <3> HIDE DEF reason
    <3>3. env'.reason = reason /\ history'.last = Paid(tokens).last /\ pc' # "model"
      BY <1>1, <1>2, <2>2, <3>1, <3>2, Leaving DEF Terminated
    <3>4. QED BY <2>1, <2>2, <3>1, <3>3, OtherReasons, BudgetedNext
  <2>6. QED BY <1>7, <2>3, <2>4, <2>5
<1>8. QED BY <1>4, <1>5, <1>6, <1>7 DEF ModelStep

LEMMA BudgetedByEnvironment ==
  ASSUME TypeOK, Control, Budgeted, LoopExhausted \/ EnvironmentStep PROVE Budgeted'
<1> DEFINE turned == [tracker EXCEPT !.turns = @ + 1]
           called == [tracker EXCEPT !.turns = @ + 1, !.tools = @ + 1]
<1>1. /\ history \in Histories /\ workspace \in Workspaces /\ env \in Environments
      /\ Within(tracker, history.last)
  BY Types DEF Budgeted
<1>2. pc' = AfterLoop => pc' # "model"
  BY DEF AfterLoop
<1>3. pc \in Loop => env.reason \notin BudgetReasons
  BY BudgetReasonsAreReasons DEF Control
<1>4. ExhaustedBeforeTurn = None
        => /\ Within(turned, history.last)
           /\ ExhaustedBeforeTool = None => Within(called, history.last)
  BY TurnsWithin
<1>5. UsedUp(ExhaustedBeforeTurn, tracker, late) /\ UsedUp(ExhaustedBeforeTool, turned, late)
  BY TestsTellTheTruth
<1> HIDE DEF turned, called
<1>6. CASE LoopExhausted \/ StepExhausted
  <2>1. ExhaustedBeforeTurn \in Reasons
    BY <1>6, ExhaustedReasons DEF LoopExhausted, StepExhausted
  <2>2. Truncated(ExhaustedBeforeTurn) /\ UNCHANGED <<task, tracker, late, agent, files>>
    BY <1>6 DEF LoopExhausted, StepExhausted
  <2>3. env'.reason = ExhaustedBeforeTurn /\ history'.last = history.last /\ pc' # "model"
    BY <1>1, <1>2, <2>1, <2>2, Leaving DEF Truncated
  <2>4. QED BY <1>1, <1>5, <2>2, <2>3, BudgetedNext
<1>7. CASE StepMessage
  <2>1. /\ tracker' = turned /\ pc \in Loop /\ pc' # "model" /\ ExhaustedBeforeTurn = None
        /\ UNCHANGED <<task, env, late, history>>
    BY <1>7 DEF StepMessage, Step, TurnConsumed, Loop, turned
  <2>2. QED BY <1>3, <1>4, <2>1, OtherReasons, BudgetedNext
<1>8. ASSUME NEW reason \in {"agent_abort", "final_submission", "policy_violation"},
             NEW state, Ended(state, reason), TurnConsumed, ExhaustedBeforeTurn = None,
             pc' = AfterLoop, UNCHANGED <<task, late>>, Left(history), workspace' \in Workspaces
      PROVE  Budgeted'
  <2>1. reason \in Reasons \ BudgetReasons
    BY DEF Reasons, BudgetReasons
  <2>2. env'.reason = reason /\ history'.last = history.last /\ pc' # "model"
    BY <1>1, <1>2, <1>8, <2>1, Leaving
  <2>3. tracker' = turned
    BY <1>8 DEF TurnConsumed, turned
  <2>4. QED BY <1>4, <1>8, <2>1, <2>2, <2>3, OtherReasons, BudgetedNext
<1>9. CASE StepAbort \/ StepFinal \/ StepSubmissionRefused
  BY <1>1, <1>8, <1>9 DEF StepAbort, StepFinal, StepSubmissionRefused, Step
<1>10. CASE StepSubmission
  <2>1. workspace' \in Workspaces
    BY <1>1, <1>10 DEF StepSubmission, Workspaces, Submission
  <2>2. QED BY <1>8, <1>10, <2>1 DEF StepSubmission, Step
<1>11. CASE StepToolExhausted
  <2>1. ExhaustedBeforeTool \in Reasons
    BY <1>11, ExhaustedReasons DEF StepToolExhausted
  <2>2. /\ tracker' = turned /\ ExhaustedBeforeTurn = None
        /\ Ended("verifying", ExhaustedBeforeTool) /\ pc' = AfterLoop
        /\ UNCHANGED <<task, late, workspace>> /\ Left(history)
    BY <1>11 DEF StepToolExhausted, Step, TurnConsumed, turned
  <2>3. env'.reason = ExhaustedBeforeTool /\ history'.last = history.last /\ pc' # "model"
    BY <1>1, <1>2, <2>1, <2>2, Leaving
  <2>4. QED BY <1>4, <1>5, <2>2, <2>3, BudgetedNext
<1>12. CASE StepTool
  <2>1. /\ tracker' = called /\ pc \in Loop /\ pc' # "model"
        /\ ExhaustedBeforeTurn = None /\ ExhaustedBeforeTool = None
        /\ UNCHANGED <<task, env, late, history>>
    BY <1>12 DEF StepTool, Step, Loop, called
  <2>2. QED BY <1>3, <1>4, <2>1, OtherReasons, BudgetedNext
<1>13. CASE ToolReturns
  <2>1. pc \in Loop /\ pc' # "model" /\ UNCHANGED <<task, env, tracker, late, history>>
    BY <1>13 DEF ToolReturns, Loop
  <2>2. QED BY <1>1, <1>3, <2>1, OtherReasons, BudgetedNext
<1>14. QED
  BY <1>6, <1>7, <1>9, <1>10, <1>11, <1>12, <1>13 DEF EnvironmentStep

LEMMA BudgetedByOthers ==
  ASSUME TypeOK, Control, Budgeted,
         \/ RunLate \/ LoopContinues \/ ExternalFinishes \/ ExternalTerminates
         \/ HandingOver \/ LateStep \/ HarnessFails \/ UNCHANGED vars
  PROVE  Budgeted'
<1>1. /\ history \in Histories /\ workspace \in Workspaces /\ env \in Environments
      /\ Within(tracker, history.last) /\ UsedUp(env.reason, tracker, late)
  BY Types DEF Budgeted
<1>2. pc \in Loop => env.reason \notin BudgetReasons
  BY BudgetReasonsAreReasons DEF Control
<1>3. CASE RunLate
  <2>1. pc \in Loop /\ UNCHANGED <<pc, task, env, tracker, history>>
    BY <1>3 DEF RunLate
  <2>2. pc' # "model" \/ ~Spent(task.budget.tokens, tracker'.tokens)
    BY <2>1 DEF Budgeted, CallIsPaid
  <2>3. QED BY <1>1, <1>2, <2>1, <2>2, OtherReasons, BudgetedNext
<1>4. CASE LoopContinues \/ ExternalFinishes
  <2>1. pc \in Loop /\ pc' # "model" /\ UNCHANGED <<task, env, tracker, late, history>>
    BY <1>4 DEF LoopContinues, ExternalFinishes, Loop
  <2>2. QED BY <1>1, <1>2, <2>1, OtherReasons, BudgetedNext
<1>5. CASE ExternalTerminates
  <2>1. PICK ending \in CliEndings \cup SdkEndings, tree \in Trees :
          Terminated(ending.reason, ending.failure) /\ WorkLeft(tree)
    BY <1>5 DEF ExternalTerminates
  <2>2. ending.reason \in Reasons \ BudgetReasons /\ workspace' \in Workspaces
    BY <2>1, AdapterEndings, WorkLeftTypes
  <2>3. /\ env'.reason = ending.reason /\ history'.last = history.last /\ pc' # "model"
        /\ UNCHANGED <<task, tracker, late>>
    BY <1>1, <1>5, <2>1, <2>2, Leaving DEF ExternalTerminates, Terminated, AfterLoop
  <2>4. QED BY <1>1, <2>2, <2>3, OtherReasons, BudgetedNext
<1>6. CASE HandingOver \/ HarnessFails
  <2>1. /\ pc' # "model" /\ UNCHANGED <<task, tracker, late, history>>
        /\ env'.reason \in {env.reason, "policy_violation"}
    <3>1. CASE Score
      <4>1. /\ \E state : env' = [env EXCEPT !.session = "closed", !.state = state]
            /\ pc' = "done" /\ UNCHANGED <<task, tracker, late, history>>
        BY <3>1 DEF Score
      <4>2. QED BY <1>1, <4>1 DEF Environments
    <3>2. CASE Validated
      BY <1>1, <3>2 DEF Validated, Ended, Environments
    <3>3. CASE PublicTests \/ Freeze \/ Export \/ Verify \/ HarnessFails
      BY <1>1, <3>3 DEF PublicTests, Freeze, Export, Verify, HarnessFails, Environments
    <3>4. QED BY <1>6, <3>1, <3>2, <3>3 DEF HandingOver
  <2>2. "policy_violation" \notin BudgetReasons
    BY DEF BudgetReasons
  <2>3. QED BY <1>1, <2>1, <2>2, OtherReasons, BudgetedNext
<1>7. CASE LateStep \/ UNCHANGED vars
  <2>1. UNCHANGED <<pc, task, env, tracker, late, history>>
    BY <1>7 DEF LateStep, LateWrite, LateCallEnds, vars
  <2>2. pc' # "model" \/ ~Spent(task.budget.tokens, tracker'.tokens)
    BY <2>1 DEF Budgeted, CallIsPaid
  <2>3. QED BY <1>1, <2>1, <2>2, BudgetedNext
<1>8. QED BY <1>3, <1>4, <1>5, <1>6, <1>7

\* No counter passes its limit, tokens only by the last answer, and an episode
\* that ended for a budget has used that budget up, whatever the limits are.
\* (core/episode.py)
THEOREM BudgetsStayExact == Spec => []BudgetsAreExact
<1>1. ASSUME Init PROVE Budgeted
  <2>1. TypeOK
    BY <1>1, TypeInit
  <2>2. /\ tracker.turns = 0 /\ tracker.tools = 0 /\ tracker.calls = 0 /\ tracker.tokens = 0
        /\ history.last = 0 /\ env.reason = None /\ pc = "loop"
    BY <1>1 DEF Init
  <2>3. Within(tracker, history.last)
    BY <2>1, <2>2, BudgetTypes DEF Within, Overspent, NoLimit, Unknown
  <2>4. QED BY <2>2, <2>3, BudgetReasonsAreReasons, OtherReasons DEF Budgeted, CallIsPaid, None,
        BudgetReasons
<1>2. TypeOK /\ Control /\ Budgeted /\ [Next]_vars => Budgeted'
  <2> SUFFICES ASSUME TypeOK, Control, Budgeted, [Next]_vars PROVE Budgeted'
    OBVIOUS
  <2>1. CASE ModelStep
    BY <2>1, BudgetedByModel
  <2>2. CASE LoopExhausted \/ EnvironmentStep
    BY <2>2, BudgetedByEnvironment
  <2>3. CASE \/ RunLate \/ LoopContinues \/ ExternalFinishes \/ ExternalTerminates
             \/ HandingOver \/ LateStep \/ HarnessFails \/ UNCHANGED vars
    BY <2>3, BudgetedByOthers
  <2>4. QED BY <2>1, <2>2, <2>3, NextSteps DEF LoopStep
<1>3. Budgeted => BudgetsAreExact
  BY BudgetParts
<1>4. QED BY <1>1, <1>2, <1>3, EpisodeTypes, PTL DEF Spec

-----------------------------------------------------------------------------
(* What is handed over: what each place behind the loop knows of the       *)
(* workspace, the candidate and the failures on the way there.  What an    *)
(* abandoned call still writes is counted down while the content goes up.  *)

Behind == HandOver \cup {"done"}

ContentIsKnown ==
  /\ pc \in Loop => workspace.content \in Nat
  /\ task.harness # "external" => workspace.state = "valid" /\ ~rejected /\ hand = 0
  /\ pc \in Behind =>
       /\ \/ history.content \in Nat
          \/ /\ history.content = Submission /\ task.harness = "single_turn"
             /\ env.reason = "final_submission"
       /\ history.content <= workspace.content
       /\ workspace.content + hand <= history.content + history.hand
  /\ pc \in Behind \ {"validate"} /\ history.hand = 0 /\ workspace.state # "valid"
       => rejected

CandidateIsKnown ==
  /\ pc \in {"verify", "score", "done"} /\ ~rejected
       => history.content <= files.candidate /\ files.candidate <= workspace.content
  /\ files.verified # Nothing
       => /\ pc \in {"score", "done"} /\ ~rejected /\ ~SubmissionMissing
          /\ files.verified = files.candidate

ErrorsAreKnown ==
  /\ history.errors > 0 => failure = "infrastructure"
  /\ pc = "done" => files.card = Scorecard(Ending(env.reason, failure),
                                           [n \in {"required"} |-> files.result],
                                           {"required"})

Handed == ContentIsKnown /\ CandidateIsKnown /\ ErrorsAreKnown

LEMMA HandedInit == ASSUME Init PROVE Handed
  BY DEF Init, Handed, ContentIsKnown, CandidateIsKnown, ErrorsAreKnown, Behind, HandOver

\* The counts are numbers.
LEMMA CountTypes ==
  ASSUME TypeOK
  PROVE  /\ workspace \in Workspaces /\ workspace.content \in Int
         /\ hand \in Nat /\ history.content \in Int /\ history.hand \in Nat
         /\ files \in Files /\ files.candidate \in Int /\ env \in Environments
  BY Types DEF Workspaces, Histories, Files

LEMMA HandedInLoop ==
  ASSUME TypeOK, Control, Handed, GoesOn PROVE Handed'
<1> USE DEF Loop, HandOver, Behind
<1>1. pc \in Loop /\ pc' \in Loop /\ pc' \notin Behind /\ pc' # "done"
  BY DEF GoesOn
<1>2. ContentIsKnown'
  <2>1. workspace.content \in Nat
    BY <1>1 DEF Handed, ContentIsKnown
  <2>2. workspace'.content \in Nat
    BY <2>1 DEF GoesOn
  <2>3. QED BY <1>1, <2>2 DEF GoesOn, Handed, ContentIsKnown
<1>3. CandidateIsKnown'
  BY <1>1 DEF GoesOn, Handed, CandidateIsKnown, SubmissionMissing
<1>4. ErrorsAreKnown'
  BY <1>1 DEF GoesOn, Handed, ErrorsAreKnown
<1>5. QED BY <1>2, <1>3, <1>4 DEF Handed

LEMMA HandedAtTheEnd ==
  ASSUME TypeOK, TypeOK', Control, Handed, Leaves PROVE Handed'
<1> USE DEF Loop, HandOver, Behind
<1>1. /\ pc \in Loop /\ pc' \in {"validate", "public", "freeze"}
      /\ task' = task /\ files' = files
      /\ pc' = "validate" <=> task.harness = "external"
  BY DEF Leaves, AfterLoop
<1>2. ContentIsKnown'
  <2>1. workspace.content \in Nat
    BY <1>1 DEF Handed, ContentIsKnown
  <2>2. history'.content = workspace'.content /\ history'.hand = hand'
    BY DEF Leaves
  <2>3. \/ history'.content \in Nat
        \/ /\ history'.content = Submission /\ task.harness = "single_turn"
           /\ env'.reason = "final_submission"
    BY <2>1, <2>2 DEF Leaves
  <2>4. task.harness # "external" => workspace'.state = "valid" /\ ~rejected' /\ hand' = 0
    BY DEF Leaves, Handed, ContentIsKnown
  <2>5. workspace'.content \in Int /\ hand' \in Nat
    BY DEF TypeOK
  <2>6. QED BY <1>1, <2>2, <2>3, <2>4, <2>5 DEF ContentIsKnown
<1>3. CandidateIsKnown'
  BY <1>1 DEF Handed, CandidateIsKnown, SubmissionMissing
<1>4. ErrorsAreKnown'
  BY <1>1 DEF Leaves, Control, Handed, ErrorsAreKnown
<1>5. QED BY <1>2, <1>3, <1>4 DEF Handed

\* Only an external harness leaves a call behind, and what it still writes was
\* in hand when the loop ended.
LEMMA HandedLate ==
  ASSUME TypeOK, Control, Handed, LateStep PROVE Handed'
<1> USE DEF Loop, HandOver, Behind
<1>1. /\ UNCHANGED <<pc, task, env, failure, rejected, files, history>>
      /\ hand > 0 /\ task.harness = "external"
  BY CountTypes DEF LateStep, LateWrite, LateCallEnds, Handed, ContentIsKnown
<1>2. /\ workspace'.content >= workspace.content /\ workspace'.content \in Int
      /\ workspace'.content + hand' <= workspace.content + hand
      /\ workspace.content \in Nat => workspace'.content \in Nat
  BY CountTypes DEF LateStep, LateWrite, LateCallEnds
<1>3. pc \in Behind => history.hand # 0
  BY <1>1, CountTypes DEF Handed, ContentIsKnown
<1>4. hand' \in Nat
  BY CountTypes DEF LateStep, LateWrite, LateCallEnds
<1>5. ContentIsKnown'
  BY <1>1, <1>2, <1>3, <1>4, CountTypes DEF Handed, ContentIsKnown
<1>6. CandidateIsKnown'
  BY <1>1, <1>2, CountTypes DEF Handed, CandidateIsKnown, SubmissionMissing
<1>7. ErrorsAreKnown'
  BY <1>1 DEF Handed, ErrorsAreKnown
<1>8. QED BY <1>5, <1>6, <1>7 DEF Handed

LEMMA HandedOnwards ==
  ASSUME TypeOK, Control, Handed, HandingOver \/ HarnessFails \/ UNCHANGED vars
  PROVE  Handed'
<1> USE DEF Loop, HandOver, Behind
<1>1. env \in Environments /\ workspace \in Workspaces /\ files \in Files
  BY CountTypes
<1>2. CASE Validated
  <2>1. /\ pc = "validate" /\ pc' = "public" /\ task.harness = "external"
        /\ UNCHANGED <<task, workspace, hand, files, history>>
        /\ rejected' = (rejected \/ workspace.state # "valid")
        /\ failure = "infrastructure" => failure' = "infrastructure"
    BY <1>2, Types DEF Validated, Control
  <2>2. ContentIsKnown'
    BY <2>1 DEF Handed, ContentIsKnown
  <2>3. CandidateIsKnown' /\ ErrorsAreKnown'
    BY <2>1 DEF Handed, CandidateIsKnown, ErrorsAreKnown
  <2>4. QED BY <2>2, <2>3 DEF Handed
<1>3. CASE PublicTests \/ Freeze
  <2>1. /\ pc \in {"public", "freeze"} /\ pc' \in {"freeze", "export"}
        /\ UNCHANGED <<task, workspace, hand, files, history, rejected>>
        /\ failure = "infrastructure" => failure' = "infrastructure"
        /\ env'.reason = env.reason
    BY <1>1, <1>3 DEF PublicTests, Freeze, Environments
  <2>2. ContentIsKnown'
    BY <2>1 DEF Handed, ContentIsKnown
  <2>3. CandidateIsKnown' /\ ErrorsAreKnown'
    BY <2>1 DEF Handed, CandidateIsKnown, ErrorsAreKnown
  <2>4. QED BY <2>2, <2>3 DEF Handed
<1>4. CASE Export
  <2>1. /\ pc = "export" /\ pc' = "verify"
        /\ files'.candidate = IF rejected THEN Quarantine ELSE workspace.content
        /\ files'.verified = files.verified
        /\ UNCHANGED <<task, env, workspace, hand, history, rejected, failure>>
    BY <1>1, <1>4 DEF Export, Files
  <2>2. ContentIsKnown'
    BY <2>1 DEF Handed, ContentIsKnown
  <2>3. history.content <= workspace.content
    BY <2>1 DEF Handed, ContentIsKnown
  <2>4. CandidateIsKnown' /\ ErrorsAreKnown'
    BY <2>1, <2>3, CountTypes DEF Handed, CandidateIsKnown, ErrorsAreKnown
  <2>5. QED BY <2>2, <2>4 DEF Handed
<1>5. CASE Verify
  <2>1. /\ pc = "verify" /\ pc' = "score" /\ files'.candidate = files.candidate
        /\ UNCHANGED <<task, env, workspace, hand, history, rejected, failure>>
    BY <1>1, <1>5 DEF Verify, Files
  <2>2. \/ files'.verified = files.verified
        \/ ~rejected /\ ~SubmissionMissing /\ files'.verified = files.candidate
    BY <1>1, <1>5 DEF Verify, Files
  <2>3. ContentIsKnown' /\ ErrorsAreKnown'
    BY <2>1 DEF Handed, ContentIsKnown, ErrorsAreKnown
  <2>4. CandidateIsKnown'
    BY <2>1, <2>2 DEF Handed, CandidateIsKnown, SubmissionMissing
  <2>5. QED BY <2>3, <2>4 DEF Handed
<1>6. CASE Score
  <2> DEFINE card == Scorecard(Ending(env.reason, failure),
                               [n \in {"required"} |-> files.result], {"required"})
  <2>1. /\ pc = "score" /\ pc' = "done" /\ files' = [files EXCEPT !.card = card]
        /\ \E state : env' = [env EXCEPT !.session = "closed", !.state = state]
        /\ UNCHANGED <<task, workspace, hand, history, rejected, failure>>
    BY <1>6 DEF Score
  <2> HIDE DEF card
  <2>2. /\ files'.card = card /\ files'.candidate = files.candidate
        /\ files'.verified = files.verified /\ files'.result = files.result
        /\ env'.reason = env.reason
    BY <1>1, <2>1 DEF Files, Environments
  <2>3. ContentIsKnown'
    BY <2>1, <2>2 DEF Handed, ContentIsKnown
  <2>4. CandidateIsKnown'
    BY <2>1, <2>2 DEF Handed, CandidateIsKnown, SubmissionMissing
  <2>5. ErrorsAreKnown'
    BY <2>1, <2>2 DEF Handed, ErrorsAreKnown, card
  <2>6. QED BY <2>3, <2>4, <2>5 DEF Handed
<1>7. CASE HarnessFails
  <2>1. /\ pc' = "raised" /\ pc \notin {"score", "done"} /\ env'.reason = env.reason
        /\ UNCHANGED <<task, workspace, hand, history, rejected, failure, files>>
    BY <1>1, <1>7 DEF HarnessFails, Environments
  <2>2. ContentIsKnown'
    BY <2>1 DEF Handed, ContentIsKnown
  <2>3. CandidateIsKnown' /\ ErrorsAreKnown'
    BY <2>1 DEF Handed, CandidateIsKnown, ErrorsAreKnown
  <2>4. QED BY <2>2, <2>3 DEF Handed
<1>8. CASE UNCHANGED vars
  BY <1>8 DEF vars, Handed, ContentIsKnown, CandidateIsKnown, ErrorsAreKnown, SubmissionMissing
<1>9. QED BY <1>2, <1>3, <1>4, <1>5, <1>6, <1>7, <1>8 DEF HandingOver

LEMMA HandedAlways == Spec => []Handed
<1>1. TypeOK /\ TypeOK' /\ Control /\ Handed /\ [Next]_vars => Handed'
  BY HandedInLoop, HandedAtTheEnd, HandedLate, HandedOnwards, LoopCases, NextSteps
<1>2. QED BY <1>1, HandedInit, EpisodeTypes, PTL DEF Spec

\* What is verified is what the loop left but for the writes that an abandoned
\* call had in hand: exactly that, and within the policy, where there was none;
\* and it is the final submission where the task asks for one.
\* (core/orchestrator.py, core/environment.py, core/repository_tool_broker.py)
THEOREM VerifiedWorkWasAccepted == Spec => []OnlyAcceptedWorkIsVerified
<1>1. ASSUME TypeOK, Handed PROVE OnlyAcceptedWorkIsVerified
  <2> SUFFICES ASSUME files.verified # Nothing
               PROVE  /\ files.verified = files.candidate
                      /\ files.candidate >= history.content
                      /\ files.candidate <= history.content + history.hand
                      /\ history.hand = 0 => workspace.state = "valid"
                      /\ files.candidate = Submission => env.reason = "final_submission"
                      /\ task.submission => env.reason = "final_submission"
    BY DEF OnlyAcceptedWorkIsVerified
  <2>1. /\ pc \in {"score", "done"} /\ ~rejected /\ ~SubmissionMissing
        /\ files.verified = files.candidate
        /\ history.content <= files.candidate /\ files.candidate <= workspace.content
    BY <1>1 DEF Handed, CandidateIsKnown
  <2>2. /\ workspace.content + hand <= history.content + history.hand
        /\ history.hand = 0 => workspace.state = "valid"
        /\ history.content \in Nat \/ env.reason = "final_submission"
    BY <1>1, <2>1 DEF Handed, ContentIsKnown, Behind, HandOver
  <2>3. files.candidate <= history.content + history.hand
    BY <1>1, <2>1, <2>2, CountTypes
  <2>4. files.candidate = Submission => env.reason = "final_submission"
    BY <1>1, <2>1, <2>2, CountTypes DEF Submission
  <2>5. QED BY <1>1, <2>1, <2>2, <2>3, <2>4, CountTypes DEF SubmissionMissing
<1>2. QED BY <1>1, HandedAlways, EpisodeTypes, PTL

\* Every step behind the loop keeps what the episode spent, and what it left but
\* for the writes in hand.
LEMMA EndedStays ==
  ASSUME TypeOK, Control, Handed, Next, env.reason # None
  PROVE  /\ tracker' = tracker
         /\ env'.reason \in {env.reason, "policy_violation"}
         /\ \/ workspace' = workspace
            \/ /\ env.session # "closed"
               /\ workspace'.content <= history.content + history.hand
<1>1. pc \notin Loop /\ env \in Environments
  BY Types DEF Control
<1>2. CASE GoesOn \/ Leaves
  BY <1>1, <1>2 DEF GoesOn, Leaves
<1>3. CASE Validated
  BY <1>1, <1>3 DEF Validated, Ended, Environments
<1>4. CASE PublicTests \/ Freeze \/ Export \/ Verify
  BY <1>1, <1>4 DEF PublicTests, Freeze, Export, Verify, Environments
<1>5. CASE Score
  <2>1. /\ \E state : env' = [env EXCEPT !.session = "closed", !.state = state]
        /\ tracker' = tracker /\ workspace' = workspace
    BY <1>5 DEF Score
  <2>2. QED BY <1>1, <2>1 DEF Environments
<1>6. CASE HarnessFails
  BY <1>1, <1>6 DEF HarnessFails, Environments
<1>7. CASE LateWrite
  <2>1. /\ tracker' = tracker /\ env' = env /\ env.session # "closed" /\ hand > 0
        /\ workspace'.content = workspace.content + 1
    BY <1>7 DEF LateWrite
  <2>2. pc \in Behind
    BY <1>1, <2>1, Types DEF Control, Behind
  <2>3. workspace.content + hand <= history.content + history.hand
    BY <2>2 DEF Handed, ContentIsKnown
  <2>4. workspace'.content <= history.content + history.hand
    BY <2>1, <2>3, CountTypes
  <2>5. QED BY <2>1, <2>4
<1>8. CASE LateCallEnds
  BY <1>8 DEF LateCallEnds
<1>9. QED
  BY <1>2, <1>3, <1>4, <1>5, <1>6, <1>7, <1>8, LoopCases, NextSteps
     DEF HandingOver, LateStep

\* An episode that has ended stays ended: it consumes nothing, only a rejected
\* workspace replaces its reason, and its work changes by nothing but the writes
\* that an abandoned call had in hand when it ended.
\* (core/environment.py, core/orchestrator.py, core/repository_tool_broker.py)
THEOREM EndedEpisodeStaysEnded == Spec => EndIsFinal
<1>1. TypeOK /\ Control /\ Handed /\ [Next]_vars
        => [env.reason # None =>
              /\ tracker' = tracker
              /\ env'.reason \in {env.reason, "policy_violation"}
              /\ \/ workspace' = workspace
                 \/ /\ env.session # "closed"
                    /\ workspace'.content <= history.content + history.hand]_vars
  BY EndedStays
<1>2. QED BY <1>1, EpisodeTypes, HandedAlways, PTL DEF Spec, EndIsFinal

\* A model call that failed, or a required node in error, is counted neither for
\* nor against the candidate.  (core/model_gateway.py, core/scoring.py)
THEOREM BrokenToolsAreNeutral == Spec => []BrokenToolsGiveNoVerdict
<1>1. ASSUME Handed PROVE BrokenToolsGiveNoVerdict
  <2> SUFFICES ASSUME pc = "done", history.errors > 0 \/ files.result = "error"
               PROVE  Outcome(files.card) = "infrastructure_error"
    BY DEF BrokenToolsGiveNoVerdict
  <2> DEFINE results == [n \in {"required"} |-> files.result]
  <2>1. files.card = Scorecard(Ending(env.reason, failure), results, {"required"})
    BY <1>1 DEF Handed, ErrorsAreKnown
  <2>2. failure = "infrastructure" \/ HasInfrastructureError(results, {"required"})
    BY <1>1 DEF Handed, ErrorsAreKnown, HasInfrastructureError
  <2> HIDE DEF results
  <2>3. files.card.status = "error"
    BY <2>1, <2>2 DEF Scorecard, Ending
  <2>4. QED BY <2>3 DEF Outcome
<1>2. QED BY <1>1, HandedAlways, PTL

-----------------------------------------------------------------------------
(* Single-turn episodes: their only turn ends them, so the turn budget     *)
(* never does, and no tool, validation or public test is on the way.       *)

Chat ==
  task.harness = "single_turn" =>
    /\ pc \notin {"tool", "validate", "public"}
    /\ pc \in Loop => tracker.turns = 0
    /\ pc = "step" => agent.action = "final"
    /\ pc \in Behind => Ending(env.reason, failure) \in ChatEndings

\* An ending that sampling knows keeps the invariant.
LEMMA ChatLeaves ==
  ASSUME TypeOK, UNCHANGED task, NEW state, NEW reason \in Reasons, NEW past \in Histories,
         Ended(state, reason), pc' = AfterLoop, Left(past), workspace' \in Workspaces,
         Ending(reason, failure') \in ChatEndings
  PROVE  Chat'
<1>1. env'.reason = reason
  BY Leaving
<1>2. task.harness = "single_turn" => pc' = "freeze"
  BY DEF AfterLoop
<1>3. QED BY <1>1, <1>2 DEF Chat, Loop

LEMMA ChatEndingsListed ==
  /\ Ending("final_submission", "none") \in ChatEndings
  /\ Ending("policy_violation", "none") \in ChatEndings
  /\ Ending("wall_time_exhausted", "none") \in ChatEndings
  /\ Ending("wall_time_exhausted", "candidate") \in ChatEndings
  /\ Ending("token_budget_exhausted", "candidate") \in ChatEndings
  /\ Ending("model_budget_exhausted", "candidate") \in ChatEndings
  /\ Ending("model_output_invalid", "candidate") \in ChatEndings
  /\ Ending("model_error", "infrastructure") \in ChatEndings
  BY DEF ChatEndings

LEMMA ChatInLoop ==
  ASSUME TypeOK, Control, Chat, task.harness = "single_turn",
         RunLate \/ LoopContinues \/ LoopExhausted \/ EnvironmentStep
  PROVE  Chat'
<1>1. /\ history \in Histories /\ workspace \in Workspaces /\ tracker \in Trackers
      /\ pc \in Loop => failure = "none" /\ tracker.turns = 0
      /\ {"final_submission", "policy_violation", "wall_time_exhausted"} \subseteq Reasons
  BY Types DEF Control, Chat, Reasons, BudgetReasons
<1>2. task.budget.turns \in Nat \ {0}
  BY Types, EpisodeAssumption DEF Tasks
<1>3. pc \in Loop => ExhaustedBeforeTurn \in {None, "wall_time_exhausted"}
  BY <1>1, <1>2 DEF ExhaustedBeforeTurn
<1>4. CASE RunLate \/ LoopContinues
  BY <1>4 DEF RunLate, LoopContinues, Chat, Loop, Behind, HandOver
<1>5. CASE LoopExhausted \/ StepExhausted
  <2>1. Truncated("wall_time_exhausted") /\ UNCHANGED <<task, tracker, late, agent, files>>
    BY <1>3, <1>5 DEF LoopExhausted, StepExhausted, Loop
  <2>2. failure' = "none"
    BY <1>1, <1>5, <2>1 DEF Truncated, LoopExhausted, StepExhausted, Loop
  <2>3. QED BY <1>1, <2>1, <2>2, ChatLeaves, ChatEndingsListed DEF Truncated
<1>6. CASE StepSubmission
  <2>1. workspace' \in Workspaces
    BY <1>1, <1>6 DEF StepSubmission, Workspaces, Submission
  <2>2. failure' = "none"
    BY <1>1, <1>6 DEF StepSubmission, Step, Loop
  <2>3. QED
    BY <1>1, <1>6, <2>1, <2>2, ChatLeaves, ChatEndingsListed DEF StepSubmission, Step
<1>7. CASE StepSubmissionRefused
  <2>1. failure' = "none" /\ workspace' = workspace
    BY <1>1, <1>7 DEF StepSubmissionRefused, Step, Loop
  <2>2. QED
    BY <1>1, <1>7, <2>1, ChatLeaves, ChatEndingsListed DEF StepSubmissionRefused, Step
<1>8. CASE StepMessage \/ StepAbort \/ StepFinal \/ StepToolExhausted \/ StepTool \/ ToolReturns
  <2>1. FALSE
    BY <1>8 DEF Chat, StepMessage, StepAbort, StepFinal, StepToolExhausted, StepTool,
                ToolReturns, Step
  <2>2. QED BY <2>1
<1>9. QED BY <1>4, <1>5, <1>6, <1>7, <1>8 DEF EnvironmentStep

LEMMA ChatByModel ==
  ASSUME TypeOK, Control, Chat, task.harness = "single_turn", ModelStep PROVE Chat'
<1>1. /\ history \in Histories /\ workspace \in Workspaces /\ tracker \in Trackers
      /\ pc \in Loop => tracker.turns = 0
      /\ [history EXCEPT !.errors = @ + 1] \in Histories
      /\ {"wall_time_exhausted", "token_budget_exhausted", "model_budget_exhausted",
          "model_error", "model_output_invalid"} \subseteq Reasons
  <2>1. history \in Histories /\ workspace \in Workspaces /\ tracker \in Trackers
    BY Types
  <2>2. [history EXCEPT !.errors = @ + 1] \in Histories
    BY <2>1 DEF Histories
  <2>3. QED BY <2>1, <2>2 DEF Chat, Reasons, BudgetReasons
<1>2. CASE CallRefused
  <2>1. ExhaustedBeforeModel \in {"wall_time_exhausted", "token_budget_exhausted",
                                  "model_budget_exhausted"}
    BY <1>2 DEF CallRefused, ExhaustedBeforeModel
  <2>2. QED
    BY <1>1, <1>2, <2>1, ChatLeaves, ChatEndingsListed DEF CallRefused, Terminated
<1>3. CASE CallAuthorized
  <2>1. tracker'.turns = 0 /\ pc' = "model" /\ task' = task
    BY <1>1, <1>3 DEF CallAuthorized, Trackers, Loop
  <2>2. QED BY <2>1 DEF Chat, Behind, HandOver
<1>4. CASE CallFailed
  BY <1>1, <1>4, ChatLeaves, ChatEndingsListed DEF CallFailed, Terminated
<1>5. ASSUME NEW tokens \in Usages, AnswerOverspent(tokens) PROVE Chat'
  <2> DEFINE reason == ExhaustedAfterModel(Accumulated(tokens))
  <2>1. reason \in {"wall_time_exhausted", "token_budget_exhausted"}
    BY <1>5 DEF AnswerOverspent, ExhaustedAfterModel
  <2>2. /\ Terminated(reason, "candidate") /\ Left(Paid(tokens))
        /\ UNCHANGED <<task, workspace>> /\ Paid(tokens) \in Histories
    BY <1>5, AccumulatedTypes DEF AnswerOverspent
  <2> HIDE DEF reason
  <2>3. QED BY <1>1, <2>1, <2>2, ChatLeaves, ChatEndingsListed DEF Terminated
<1>6. ASSUME NEW tokens \in Usages, AnswerParsed(tokens) PROVE Chat'
  <2>1. tracker'.turns = 0 /\ pc' = "step" /\ task' = task /\ agent'.action = "final"
    BY <1>1, <1>6 DEF AnswerParsed, Answer, Trackers, Loop
  <2>2. QED BY <2>1 DEF Chat, Behind, HandOver
<1>7. ASSUME NEW tokens \in Usages, AnswerInvalid(tokens) PROVE Chat'
  BY <1>7 DEF AnswerInvalid
<1>8. ASSUME NEW tokens \in Usages, AnswerRejected(tokens) PROVE Chat'
  <2>1. /\ Terminated("model_output_invalid", "candidate") /\ Left(Paid(tokens))
        /\ UNCHANGED <<task, workspace>> /\ Paid(tokens) \in Histories
    BY <1>8, AccumulatedTypes DEF AnswerRejected
  <2>2. QED BY <1>1, <2>1, ChatLeaves, ChatEndingsListed DEF Terminated
<1>9. QED BY <1>2, <1>3, <1>4, <1>5, <1>6, <1>7, <1>8 DEF ModelStep

LEMMA ChatByOthers ==
  ASSUME TypeOK, Control, Chat, task.harness = "single_turn",
         \/ ExternalFinishes \/ ExternalTerminates
         \/ HandingOver \/ LateStep \/ HarnessFails \/ UNCHANGED vars
  PROVE  Chat'
<1>1. env \in Environments
  BY Types
<1>2. CASE ExternalFinishes \/ ExternalTerminates
  BY <1>2 DEF ExternalFinishes, ExternalTerminates
<1>3. CASE Validated \/ PublicTests
  BY <1>3 DEF Validated, PublicTests, Chat
<1>4. CASE Freeze \/ Export \/ Verify
  <2>1. /\ pc \in {"freeze", "export", "verify"} /\ pc' \in {"export", "verify", "score"}
        /\ env'.reason = env.reason /\ UNCHANGED <<task, failure>>
    BY <1>1, <1>4 DEF Freeze, Export, Verify, Environments
  <2>2. QED BY <2>1 DEF Chat, Loop, Behind, HandOver
<1>5. CASE Score
  <2>1. /\ pc = "score" /\ pc' = "done" /\ UNCHANGED <<task, failure>>
        /\ \E state : env' = [env EXCEPT !.session = "closed", !.state = state]
    BY <1>5 DEF Score
  <2>2. env'.reason = env.reason
    BY <1>1, <2>1 DEF Environments
  <2>3. QED BY <2>1, <2>2 DEF Chat, Loop, Behind, HandOver
<1>6. CASE HarnessFails
  BY <1>6 DEF HarnessFails, Chat, Loop, Behind, HandOver
<1>7. CASE LateStep \/ UNCHANGED vars
  BY <1>7 DEF LateStep, LateWrite, LateCallEnds, vars, Chat
<1>8. QED BY <1>2, <1>3, <1>4, <1>5, <1>6, <1>7 DEF HandingOver

LEMMA TaskKept == ASSUME TypeOK, [Next]_vars PROVE task' = task
<1>1. LoopStep => task' = task
  BY LoopCases DEF GoesOn, Leaves
<1>2. HandingOver => task' = task
  BY DEF HandingOver, Validated, PublicTests, Freeze, Export, Verify, Score
<1>3. LateStep \/ HarnessFails \/ UNCHANGED vars => task' = task
  BY DEF LateStep, LateWrite, LateCallEnds, HarnessFails, vars
<1>4. QED BY <1>1, <1>2, <1>3, NextSteps

\* Whatever a single-turn episode goes through, its scorecard ends in a way the
\* sampling of ChatEval runs knows.  (agents/single_turn.py, core/sampling.py)
THEOREM SampledEndingsAreKnown == Spec => []ChatEndingsAreKnown
<1>1. Init => Chat
  BY DEF Init, Chat, Behind, HandOver, Loop
<1>2. TypeOK /\ Control /\ Chat /\ [Next]_vars => Chat'
  <2> SUFFICES ASSUME TypeOK, Control, Chat, [Next]_vars, task.harness = "single_turn"
               PROVE  Chat'
    BY TaskKept DEF Chat
  <2>1. QED BY ChatInLoop, ChatByModel, ChatByOthers, NextSteps DEF LoopStep
<1>3. Chat /\ Handed => ChatEndingsAreKnown
  <2> SUFFICES ASSUME Chat, Handed, pc = "done", task.harness = "single_turn"
               PROVE  files.card.ending \in ChatEndings
    BY DEF ChatEndingsAreKnown
  <2>1. Ending(env.reason, failure) \in ChatEndings
    BY DEF Chat, Behind
  <2>2. files.card = Scorecard(Ending(env.reason, failure),
                               [n \in {"required"} |-> files.result], {"required"})
    BY DEF Handed, ErrorsAreKnown
  <2>3. QED BY <2>1, <2>2 DEF Scorecard
<1>4. QED BY <1>1, <1>2, <1>3, EpisodeTypes, HandedAlways, PTL DEF Spec
=============================================================================
