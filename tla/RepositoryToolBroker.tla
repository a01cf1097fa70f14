------------------------ MODULE RepositoryToolBroker ------------------------
(***************************************************************************)
(* One delegated AgentEval episode: the external agent process sends tool  *)
(* requests over a socket; the broker's serving thread answers them one at *)
(* a time, running each tool against the live workspace between two short  *)
(* critical sections; the orchestrator's thread waits for the process,     *)
(* stops the broker without waiting for a slow tool for long, classifies   *)
(* the episode from a snapshot of the broker's counters, submits or        *)
(* terminates, then validates, freezes and exports the workspace.          *)
(***************************************************************************)
EXTENDS Naturals

CONSTANTS
  CompileRequired,     \* the feedback contract's compile_required_for_finish
  MaxToolCalls, MaxPatchCalls, MaxRejected, MaxExploratory,
  PpaMaxExecutions,
  Reserve,             \* whether a finalization reserve is configured
  Backlog,             \* bound: connections waiting to be accepted
  CallBound            \* bound: calls the broker counts, the ones after finish included

ASSUME LimitsAssumption ==
  /\ {MaxToolCalls, MaxPatchCalls, MaxRejected, MaxExploratory, PpaMaxExecutions}
       \subseteq Nat \ {0}
  /\ MaxPatchCalls <= MaxToolCalls
  /\ {Backlog, CallBound} \subseteq Nat
  /\ {CompileRequired, Reserve} \subseteq BOOLEAN

VARIABLES
  process,    \* the external agent process, as the runner and its own stream see it
  backlog,    \* requests connected but not yet accepted
  serve,      \* the serving thread: where it is, and the call in hand
  broker,     \* RepositoryToolBroker's counters, evidence flags and failures
  env,        \* VeriGymEnv's mirror of the evidence flags
  feedback,   \* AgentFeedbackController: the compiled revision, PPA runs and cache
  workspace,  \* its content, as a revision number, and whether the session is frozen
  main,       \* the orchestrator's thread and what it decided
  late,       \* the finalization reserve has been entered
  stopping,   \* RepositoryToolBroker._stopping
  history     \* what was inspected, failed and finished, and when: only read by properties

vars == <<process, backlog, serve, broker, env, feedback, workspace, main, late,
          stopping, history>>

None == 0      \* no revision: revisions count from 1
Quarantined == MaxPatchCalls + 2     \* an export that is no revision

Tools == {"explore", "patch", "compile", "ppa", "diff", "finish"}
Tests == {"compile", "ppa"}
Idle == [at |-> "accept", tool |-> "none", outcome |-> "none"]

Failed == broker.policy \/ broker.infrastructure \/ broker.limit # "none"
FinalizationRequired ==
  ~broker.finished /\ (late \/ broker.exploratory >= MaxExploratory)

Init ==
  /\ process = [status |-> "running", answered |-> 0]
  /\ backlog = 0
  /\ serve = Idle
  /\ broker = [calls |-> 0, patches |-> 0, exploratory |-> 0,
               consecutive |-> 0, rejected |-> FALSE,
               patchApplied |-> FALSE, compilePassed |-> FALSE, diffObserved |-> FALSE,
               finished |-> FALSE, finishIndex |-> 0,
               policy |-> FALSE, infrastructure |-> FALSE, limit |-> "none",
               testFailed |-> FALSE, repairPending |-> FALSE, repaired |-> FALSE]
  /\ env = [patchApplied |-> FALSE, compilePassed |-> FALSE, diffObserved |-> FALSE]
  /\ feedback = [compiled |-> None, executions |-> 0, cache |-> {}]
  /\ workspace = [revision |-> 1, frozen |-> FALSE]
  /\ main = [at |-> "running", verdict |-> "none", outcome |-> "none",
             rejected |-> FALSE, diff |-> None, candidate |-> None]
  /\ late = FALSE /\ stopping = FALSE
  /\ history = [inspected |-> None, failedTest |-> None, finished |-> None]

-----------------------------------------------------------------------------
(* The external process. *)

Request ==
  /\ process.status = "running" /\ backlog < Backlog
  /\ backlog' = backlog + 1
  /\ UNCHANGED <<process, serve, broker, env, feedback, workspace, main, late, stopping, history>>

\* The runner's loop ends: the process left by itself, its deadline passed, the
\* broker cancelled it, or the runner lost the executable's identity.
ProcessEnds(status) ==
  /\ main.at = "running"
  /\ status = "cancelled" => Failed
  /\ status = "timed_out" => (Reserve => late)
  /\ process' = [process EXCEPT !.status = status]
  /\ main' = [main EXCEPT !.at = "stop"]
  /\ UNCHANGED <<backlog, serve, broker, env, feedback, workspace, late, stopping, history>>

\* The clock matters as long as the thread may still admit a call.
EnterReserve ==
  /\ Reserve /\ ~late /\ serve.at # "ended"
  /\ late' = TRUE
  /\ UNCHANGED <<process, backlog, serve, broker, env, feedback, workspace, main, stopping,
                 history>>

-----------------------------------------------------------------------------
(* The serving thread. *)

Accept(tool) ==
  /\ serve.at = "accept" /\ ~stopping /\ backlog > 0
  /\ broker.calls < CallBound
  /\ backlog' = backlog - 1
  /\ serve' = [Idle EXCEPT !.at = "admit", !.tool = tool]
  /\ UNCHANGED <<process, broker, env, feedback, workspace, main, late, stopping, history>>

ThreadEnds ==
  /\ serve.at = "accept" /\ stopping
  /\ serve' = [Idle EXCEPT !.at = "ended"]
  /\ UNCHANGED <<process, backlog, broker, env, feedback, workspace, main, late, stopping, history>>

\* A response goes out; a process that has gone does not see it.
Answered == IF process.status = "running" THEN process.answered + 1 ELSE process.answered

\* Mutant: PPA is let through without a passing compile.
StateFailureWithoutPpaGate(tool, evidence, finished) ==
  \/ finished
  \/ tool \in Tests \cup {"diff"} /\ ~evidence.patchApplied
  \/ /\ tool = "finish"
     /\ ~ /\ evidence.patchApplied /\ evidence.diffObserved
          /\ CompileRequired => evidence.compilePassed

\* Mutant: calls after an accepted finish are allowed.
StateFailureForgetsFinish(tool, evidence, finished) ==
  \/ tool \in Tests \cup {"diff"} /\ ~evidence.patchApplied
  \/ tool = "ppa" /\ ~evidence.compilePassed
  \/ /\ tool = "finish"
     /\ ~ /\ evidence.patchApplied /\ evidence.diffObserved
          /\ CompileRequired => evidence.compilePassed

\* Mutant: finish no longer needs the compile it requires.
StateFailureOfAnyPublicTest(tool, evidence, finished) ==
  \/ finished
  \/ tool \in Tests \cup {"diff"} /\ ~evidence.patchApplied
  \/ tool = "ppa" /\ ~evidence.compilePassed
  \/ tool = "finish" /\ ~(evidence.patchApplied /\ evidence.diffObserved)

\* repository_action_state_failure for state machine v3.
StateFailure(tool, evidence, finished) ==
  \/ finished
  \/ tool \in Tests \cup {"diff"} /\ ~evidence.patchApplied
  \/ tool = "ppa" /\ ~evidence.compilePassed
  \/ /\ tool = "finish"
     /\ ~ /\ evidence.patchApplied /\ evidence.diffObserved
          /\ CompileRequired => evidence.compilePassed

\* After a terminal failure every request is turned away uncounted.
TurnAway ==
  /\ serve.at = "admit" /\ Failed
  /\ serve' = Idle
  /\ UNCHANGED <<process, backlog, broker, env, feedback, workspace, main, late, stopping, history>>

\* Mutant: one call more than the limit.
FinalizedOneLate(b) ==
  LET consecutive == IF b.rejected THEN b.consecutive + 1 ELSE 0
      limit == IF b.limit # "none" \/ b.finished THEN b.limit
               ELSE IF consecutive >= MaxRejected THEN "rejections"
               ELSE IF b.calls > MaxToolCalls THEN "calls"
               ELSE "none"
  IN [b EXCEPT !.consecutive = consecutive, !.rejected = FALSE, !.limit = limit]

\* _finalize_call_locked on the counters b.
Finalized(b) ==
  LET consecutive == IF b.rejected THEN b.consecutive + 1 ELSE 0
      limit == IF b.limit # "none" \/ b.finished THEN b.limit
               ELSE IF consecutive >= MaxRejected THEN "rejections"
               ELSE IF b.calls >= MaxToolCalls THEN "calls"
               ELSE "none"
  IN [b EXCEPT !.consecutive = consecutive, !.rejected = FALSE, !.limit = limit]

\* The patch budget is spent: the call is rejected and the episode is over.
ExceedPatchLimit ==
  /\ serve.at = "admit" /\ ~Failed
  /\ serve.tool = "patch" /\ broker.patches >= MaxPatchCalls
  /\ broker' = Finalized([broker EXCEPT !.calls = @ + 1, !.rejected = TRUE, !.limit = "patches"])
  /\ process' = [process EXCEPT !.answered = Answered]
  /\ serve' = Idle
  /\ UNCHANGED <<backlog, env, feedback, workspace, main, late, stopping, history>>

\* The counted call of an open episode: malformed arguments and calls the state
\* machine refuses are rejected, exploration past its budget is answered with
\* what to do instead, and the rest goes on to its tool.
Admit(malformed) ==
  /\ serve.at = "admit" /\ ~Failed
  /\ ~(serve.tool = "patch" /\ broker.patches >= MaxPatchCalls)
  /\ LET guarded == serve.tool = "explore" /\ FinalizationRequired
         refused == ~guarded /\ StateFailure(serve.tool, broker, broker.finished)
         proceeds == ~malformed /\ ~guarded /\ ~refused
     IN
     /\ broker' = [broker EXCEPT
          !.calls = @ + 1,
          !.rejected = malformed \/ refused,
          !.exploratory = @ + IF serve.tool = "explore" /\ ~malformed /\ ~guarded THEN 1 ELSE 0,
          !.patches = @ + IF serve.tool = "patch" /\ proceeds THEN 1 ELSE 0]
     /\ serve' = [serve EXCEPT !.at = IF proceeds THEN "execute" ELSE "finalize"]
  /\ UNCHANGED <<process, backlog, env, feedback, workspace, main, late, stopping, history>>

-----------------------------------------------------------------------------
(* The tool itself, outside the broker's lock. *)

Return(outcome, at) == serve' = [serve EXCEPT !.outcome = outcome, !.at = at]

\* A patch is applied whole, refused before or rolled back after writing, or
\* breaks half way; a frozen session refuses writes, but files are deleted on
\* the host behind its back.
Patch(kind, outcome, changed) ==
  /\ serve.at = "execute" /\ serve.tool = "patch"
  /\ outcome = "ok" => changed
  /\ outcome \in {"rejected", "denied"} => ~changed
  /\ workspace.frozen /\ kind = "write" => ~changed
  /\ workspace' = [workspace EXCEPT !.revision = @ + IF changed THEN 1 ELSE 0]
  /\ Return(outcome, "mirror")
  /\ UNCHANGED <<process, backlog, broker, env, feedback, main, late, stopping, history>>

InspectDiff(outcome) ==
  /\ serve.at = "execute" /\ serve.tool = "diff"
  /\ history' = [history EXCEPT !.inspected = IF outcome = "ok" THEN workspace.revision ELSE @]
  /\ Return(outcome, "mirror")
  /\ UNCHANGED <<process, backlog, broker, env, feedback, workspace, main, late, stopping>>

Explore(outcome) ==
  /\ serve.at = "execute" /\ serve.tool = "explore"
  /\ Return(outcome, "record")
  /\ UNCHANGED <<process, backlog, broker, env, feedback, workspace, main, late, stopping, history>>

\* AgentFeedbackController.execute for the compile test.  "unclean" is a zero exit
\* code that the control plane spoiled (its container could not be removed).
Compile(outcome) ==
  /\ serve.at = "execute" /\ serve.tool = "compile"
  /\ feedback' = [feedback EXCEPT
       !.compiled = IF outcome = "ok" THEN workspace.revision ELSE None]
  /\ history' = [history EXCEPT
       !.failedTest = IF outcome = "failed" THEN workspace.revision ELSE @]
  /\ Return(outcome, "mirror")
  /\ UNCHANGED <<process, backlog, broker, env, workspace, main, late, stopping>>

\* The same for PPA when no synthesis is needed or allowed: the revision has no
\* passing compile, its result is cached, or the quota is spent.
PpaWithoutSynthesis(outcome) ==
  /\ serve.at = "execute" /\ serve.tool = "ppa"
  /\ \/ workspace.revision \in feedback.cache /\ feedback.compiled = workspace.revision
     \/ outcome = "failed" /\ \/ feedback.compiled # workspace.revision
                              \/ feedback.executions >= PpaMaxExecutions
  /\ Return(outcome, "mirror")
  /\ UNCHANGED <<process, backlog, broker, env, feedback, workspace, main, late, stopping, history>>

\* A synthesis counts once dispatched; only a verdict about the candidate is cached.
PpaSynthesis(outcome, dispatched) ==
  /\ serve.at = "execute" /\ serve.tool = "ppa"
  /\ feedback.compiled = workspace.revision
  /\ workspace.revision \notin feedback.cache
  /\ feedback.executions < PpaMaxExecutions
  /\ outcome # "infrastructure" => dispatched
  /\ feedback' = [feedback EXCEPT
       !.executions = @ + IF dispatched THEN 1 ELSE 0,
       !.cache = IF outcome = "infrastructure" THEN @ ELSE @ \cup {workspace.revision}]
  /\ Return(outcome, "mirror")
  /\ UNCHANGED <<process, backlog, broker, env, workspace, main, late, stopping, history>>

\* No result: the test is not declared, or it raises (a frozen session, a policy
\* error, any other error) to the dispatcher's handlers, past the mirror.
TestWithoutResult(outcome) ==
  /\ serve.at = "execute" /\ serve.tool \in Tests
  /\ Return(outcome, "record")
  /\ UNCHANGED <<process, backlog, broker, env, feedback, workspace, main, late, stopping, history>>

\* Mutant: an inspected diff is not mirrored.
MirrorWithoutDiff(valid) ==
  /\ serve.at = "mirror"
  /\ valid \/ serve.tool \in Tests
  /\ env' = CASE serve.tool = "patch" /\ serve.outcome = "ok" ->
                   [patchApplied |-> TRUE, compilePassed |-> FALSE, diffObserved |-> FALSE]
              [] serve.tool = "compile" ->
                   [env EXCEPT !.compilePassed = serve.outcome = "ok"]
              [] OTHER -> env
  /\ Return(IF valid THEN serve.outcome ELSE "denied", "record")
  /\ UNCHANGED <<process, backlog, broker, feedback, workspace, main, late, stopping, history>>

\* The bridge tells the environment what the tool did; after a test it also
\* validates the workspace, which may turn a good result into a policy error.
Mirror(valid) ==
  /\ serve.at = "mirror"
  /\ valid \/ serve.tool \in Tests
  /\ env' = CASE serve.tool = "patch" /\ serve.outcome = "ok" ->
                   [patchApplied |-> TRUE, compilePassed |-> FALSE, diffObserved |-> FALSE]
              [] serve.tool = "compile" ->
                   [env EXCEPT !.compilePassed = serve.outcome = "ok"]
              [] serve.tool = "diff" /\ serve.outcome = "ok" ->
                   [env EXCEPT !.diffObserved = TRUE]
              [] OTHER -> env
  /\ Return(IF valid THEN serve.outcome ELSE "denied", "record")
  /\ UNCHANGED <<process, backlog, broker, feedback, workspace, main, late, stopping, history>>

-----------------------------------------------------------------------------
(* The broker records the result under its lock, then finalizes the call. *)

Finish ==
  /\ serve.at = "execute" /\ serve.tool = "finish"
  /\ broker' = [broker EXCEPT !.finished = TRUE, !.finishIndex = broker.calls]
  /\ history' = [history EXCEPT !.finished = workspace.revision]
  /\ Return("ok", "finalize")
  /\ UNCHANGED <<process, backlog, env, feedback, workspace, main, late, stopping>>

\* Mutant: a patch does not invalidate the diff.
PatchRecordedKeepsDiff ==
  [broker EXCEPT !.patchApplied = TRUE, !.compilePassed = FALSE,
                 !.repairPending = @ \/ broker.testFailed, !.testFailed = FALSE]

\* Mutant: every patch counts as a repair.
PatchRecordedAsRepair ==
  [broker EXCEPT !.patchApplied = TRUE, !.compilePassed = FALSE, !.diffObserved = FALSE,
                 !.repairPending = TRUE, !.testFailed = FALSE]

PatchRecorded ==
  [broker EXCEPT !.patchApplied = TRUE, !.compilePassed = FALSE, !.diffObserved = FALSE,
                 !.repairPending = @ \/ broker.testFailed, !.testFailed = FALSE]

\* The broker goes by the exit code, the feedback controller does not.
CompileRecorded(outcome) ==
  [broker EXCEPT !.compilePassed = outcome \in {"ok", "unclean"},
                 !.testFailed = @ \/ outcome = "failed",
                 !.repaired = @ \/ (broker.repairPending /\ outcome \in {"ok", "unclean"}),
                 !.repairPending = FALSE,
                 !.infrastructure = @ \/ outcome \in {"infrastructure", "unclean"}]

Recorded ==
  LET outcome == serve.outcome IN
  CASE outcome = "denied"   -> [broker EXCEPT !.policy = TRUE]
    [] outcome = "crashed"  -> [broker EXCEPT !.infrastructure = TRUE]
    [] outcome = "rejected" -> [broker EXCEPT !.rejected = TRUE]
    [] outcome = "ok" /\ serve.tool = "patch" -> PatchRecorded
    [] outcome = "ok" /\ serve.tool = "diff"  -> [broker EXCEPT !.diffObserved = TRUE]
    [] outcome \in {"ok", "failed", "infrastructure", "unclean"} /\ serve.tool = "compile" ->
         CompileRecorded(outcome)
    [] outcome = "infrastructure" /\ serve.tool = "ppa" ->
         [broker EXCEPT !.infrastructure = TRUE]
    [] OTHER -> broker

Record ==
  /\ serve.at = "record"
  /\ broker' = Recorded
  /\ serve' = [serve EXCEPT !.at = "finalize"]
  /\ UNCHANGED <<process, backlog, env, feedback, workspace, main, late, stopping, history>>

Finalize ==
  /\ serve.at = "finalize"
  /\ broker' = Finalized(broker)
  /\ process' = [process EXCEPT !.answered = Answered]
  /\ serve' = Idle
  /\ UNCHANGED <<backlog, env, feedback, workspace, main, late, stopping, history>>

-----------------------------------------------------------------------------
(* The orchestrator's thread, once the process is gone. *)

\* Closing the server drops the connections nobody accepted.
Stop ==
  /\ main.at = "stop"
  /\ stopping' = TRUE /\ backlog' = 0
  /\ main' = [main EXCEPT !.at = "join"]
  /\ UNCHANGED <<process, serve, broker, env, feedback, workspace, late, history>>

\* Mutant: stop() waits for the thread without a timeout.
JoinForEver ==
  /\ main.at = "join" /\ serve.at = "ended"
  /\ main' = [main EXCEPT !.at = "classify"]
  /\ UNCHANGED <<process, backlog, serve, broker, env, feedback, workspace, late, stopping, history>>

\* The thread has ended, or its call outlasted the two seconds stop() waits.
Join ==
  /\ main.at = "join" /\ serve.at # "accept"
  /\ main' = [main EXCEPT !.at = "classify"]
  /\ UNCHANGED <<process, backlog, serve, broker, env, feedback, workspace, late, stopping, history>>

\* The event stream names exactly the broker's calls and the accepted finish is
\* the last of them.
Scorable ==
  /\ process.status = "exited"
  /\ process.answered = broker.calls
  /\ broker.finished /\ broker.finishIndex = broker.calls

\* Mutant: a policy failure is left to the event stream.
ClassifyWithoutPolicy(verdict) ==
  /\ main.at = "classify"
  /\ verdict = CASE process.status = "raised"    -> "boundary"
                 [] process.status # "raised" /\ broker.limit # "none" -> "limit"
                 [] process.status # "raised" /\ broker.limit = "none"
                      /\ broker.infrastructure -> "infrastructure"
                 [] process.status = "timed_out" /\ ~Failed -> "timeout"
                 [] OTHER -> IF verdict = "submit" /\ Scorable THEN "submit" ELSE "ineligible"
  /\ main' = [main EXCEPT !.verdict = verdict, !.at = "step"]
  /\ UNCHANGED <<process, backlog, serve, broker, env, feedback, workspace, late, stopping, history>>

\* Broker failures come first; a stream may be ineligible for reasons of its own.
Classify(verdict) ==
  /\ main.at = "classify"
  /\ verdict = CASE process.status = "raised"    -> "boundary"
                 [] process.status # "raised" /\ broker.limit # "none" -> "limit"
                 [] process.status # "raised" /\ broker.limit = "none" /\ broker.policy -> "policy"
                 [] process.status # "raised" /\ broker.limit = "none" /\ ~broker.policy
                      /\ broker.infrastructure -> "infrastructure"
                 [] process.status = "timed_out" /\ ~Failed -> "timeout"
                 [] OTHER -> IF verdict = "submit" /\ Scorable THEN "submit" ELSE "ineligible"
  /\ main' = [main EXCEPT !.verdict = verdict, !.at = "step"]
  /\ UNCHANGED <<process, backlog, serve, broker, env, feedback, workspace, late, stopping, history>>

\* env.step with the final submission, or env.terminate; a refused submission
\* makes the loop call the agent again, which terminates the episode.
Step(exhausted, unsafe) ==
  /\ main.at = "step"
  /\ exhausted => main.verdict = "submit"
  /\ unsafe => main.verdict # "submit"
  /\ main' = [main EXCEPT
       !.outcome = CASE main.verdict # "submit" -> "terminated"
                     [] main.verdict = "submit" /\ exhausted -> "truncated"
                     [] main.verdict = "submit" /\ ~exhausted ->
                          IF StateFailure("finish", env, FALSE) THEN "refused"
                                                                ELSE "final_submission",
       !.rejected = main.verdict = "policy" \/ unsafe,
       !.at = "validate"]
  /\ UNCHANGED <<process, backlog, serve, broker, env, feedback, workspace, late, stopping, history>>

Validate(valid) ==
  /\ main.at = "validate"
  /\ main' = [main EXCEPT !.rejected = @ \/ ~valid, !.at = "freeze"]
  /\ UNCHANGED <<process, backlog, serve, broker, env, feedback, workspace, late, stopping, history>>

Freeze ==
  /\ main.at = "freeze"
  /\ workspace' = [workspace EXCEPT !.frozen = TRUE]
  /\ main' = [main EXCEPT !.at = "diff"]
  /\ UNCHANGED <<process, backlog, serve, broker, env, feedback, late, stopping, history>>

Quarantine ==
  /\ main.at = "diff" /\ main.rejected
  /\ main' = [main EXCEPT !.candidate = Quarantined, !.at = "done"]
  /\ UNCHANGED <<process, backlog, serve, broker, env, feedback, workspace, late, stopping, history>>

WriteDiff ==
  /\ main.at = "diff" /\ ~main.rejected
  /\ main' = [main EXCEPT !.diff = workspace.revision, !.at = "export"]
  /\ UNCHANGED <<process, backlog, serve, broker, env, feedback, workspace, late, stopping, history>>

ExportCandidate ==
  /\ main.at = "export"
  /\ main' = [main EXCEPT !.candidate = workspace.revision, !.at = "done"]
  /\ UNCHANGED <<process, backlog, serve, broker, env, feedback, workspace, late, stopping, history>>

-----------------------------------------------------------------------------
Execute ==
  \/ \E kind \in {"write", "delete"}, outcome \in {"ok", "rejected", "denied", "crashed"},
        changed \in BOOLEAN : Patch(kind, outcome, changed)
  \/ \E outcome \in {"ok", "rejected", "denied", "crashed"} : InspectDiff(outcome)
  \/ \E outcome \in {"ok", "rejected", "denied", "crashed"} : Explore(outcome)
  \/ \E outcome \in {"ok", "failed", "infrastructure", "unclean"} : Compile(outcome)
  \/ \E outcome \in {"ok", "failed"} : PpaWithoutSynthesis(outcome)
  \/ \E outcome \in {"ok", "failed", "infrastructure"}, dispatched \in BOOLEAN :
       PpaSynthesis(outcome, dispatched)
  \/ \E outcome \in {"rejected", "denied", "crashed"} : TestWithoutResult(outcome)
  \/ Finish

Serve ==
  \/ \E tool \in Tools : Accept(tool)
  \/ ThreadEnds \/ TurnAway \/ ExceedPatchLimit
  \/ \E malformed \in BOOLEAN : Admit(malformed)
  \/ Execute
  \/ \E valid \in BOOLEAN : Mirror(valid)
  \/ Record \/ Finalize

Verdicts == {"boundary", "limit", "policy", "infrastructure", "timeout", "ineligible", "submit"}

Orchestrate ==
  \/ Stop \/ Join
  \/ \E verdict \in Verdicts : Classify(verdict)
  \/ \E exhausted, unsafe \in BOOLEAN : Step(exhausted, unsafe)
  \/ \E valid \in BOOLEAN : Validate(valid)
  \/ Freeze \/ Quarantine \/ WriteDiff \/ ExportCandidate

Statuses == {"exited", "timed_out", "cancelled", "raised"}

Next ==
  \/ Request \/ EnterReserve
  \/ \E status \in Statuses : ProcessEnds(status)
  \/ Serve
  \/ Orchestrate

Spec == Init /\ [][Next]_vars

\* The runner's deadline, the clock, the orchestrator's thread and the serving
\* thread's own loop go on; a tool need never return.
FairSpec ==
  /\ Spec
  /\ WF_vars(EnterReserve) /\ WF_vars(ProcessEnds("timed_out"))
  /\ WF_vars(ThreadEnds) /\ WF_vars(Orchestrate)

-----------------------------------------------------------------------------
(* Properties. *)

Outcomes ==
  {"none", "ok", "failed", "rejected", "denied", "crashed", "infrastructure", "unclean"}

ProcessState == [status : Statuses \cup {"running"}, answered : Nat]
Hand ==
  [at : {"accept", "admit", "execute", "mirror", "record", "finalize", "ended"},
   tool : Tools \cup {"none"}, outcome : Outcomes]
Counters ==
  [calls : Nat, patches : Nat, exploratory : Nat, consecutive : Nat, rejected : BOOLEAN,
   patchApplied : BOOLEAN, compilePassed : BOOLEAN, diffObserved : BOOLEAN,
   finished : BOOLEAN, finishIndex : Nat, policy : BOOLEAN, infrastructure : BOOLEAN,
   limit : {"none", "patches", "rejections", "calls"},
   testFailed : BOOLEAN, repairPending : BOOLEAN, repaired : BOOLEAN]
Flags == [patchApplied : BOOLEAN, compilePassed : BOOLEAN, diffObserved : BOOLEAN]
Feedback == [compiled : Nat, executions : Nat, cache : SUBSET Nat]
Workspace == [revision : Nat \ {0}, frozen : BOOLEAN]
Decisions ==
  [at : {"running", "stop", "join", "classify", "step", "validate", "freeze", "diff",
         "export", "done"},
   verdict : Verdicts \cup {"none"},
   outcome : {"none", "terminated", "truncated", "refused", "final_submission"},
   rejected : BOOLEAN, diff : Nat, candidate : Nat]
History == [inspected : Nat, failedTest : Nat, finished : Nat]

\* The shape of every variable.
TypeOK ==
  /\ process \in ProcessState /\ backlog \in Nat
  /\ serve \in Hand /\ broker \in Counters /\ env \in Flags
  /\ feedback \in Feedback /\ workspace \in Workspace
  /\ main \in Decisions
  /\ late \in BOOLEAN /\ stopping \in BOOLEAN
  /\ history \in History

Broken == broker.policy \/ broker.infrastructure

\* docs/rtl_agent_eval.md:26: "Every successful patch invalidates compile, PPA,
\* and diff evidence ... Finish requires a current diff and, when exposed, a
\* current compile pass": an accepted finish rests on a diff and a compile of
\* the very revision in the workspace, then and for ever after.
FinishRestsOnCurrentEvidence ==
  broker.finished =>
    /\ workspace.revision > 1
    /\ history.finished = workspace.revision
    /\ history.inspected = workspace.revision
    /\ CompileRequired => feedback.compiled = workspace.revision

\* The result in hand, until the broker records it: what it changes is known, and
\* what it leaves alone is still vouched for by the flags.
InHandIsKnown ==
  serve.at \in {"mirror", "record"} =>
    /\ serve.tool \in Tools /\ serve.outcome # "none"
    /\ serve.tool \in {"patch", "diff", "explore"} =>
         serve.outcome \in {"ok", "rejected", "denied", "crashed"}
    /\ serve.outcome = "ok" =>
         CASE serve.tool = "patch"   -> workspace.revision > 1
           [] serve.tool = "diff"    -> history.inspected = workspace.revision
           [] serve.tool = "compile" -> feedback.compiled = workspace.revision
           [] OTHER -> TRUE
    /\ broker.patchApplied => workspace.revision > 1
    /\ serve.tool # "patch" \/ serve.outcome = "rejected" =>
         (broker.diffObserved => history.inspected = workspace.revision)
    /\ serve.tool \notin {"patch", "compile"} \/ serve.outcome = "rejected" =>
         (broker.compilePassed => feedback.compiled = workspace.revision)

\* Between calls of an episode that no tool has broken, the flags speak of the
\* revision in the workspace; a call is only ever executed for an open episode
\* and in a state that allows it.  With InHandIsKnown and
\* FinishRestsOnCurrentEvidence this is inductive.
EvidenceIsCurrent ==
  /\ serve.at \notin {"mirror", "record"} /\ ~Broken =>
       /\ broker.compilePassed => feedback.compiled = workspace.revision
       /\ broker.diffObserved => history.inspected = workspace.revision
       /\ broker.patchApplied => workspace.revision > 1
  /\ serve.at \in {"execute", "mirror", "record"} => ~Broken /\ ~broker.finished
  /\ serve.at = "execute" =>
       serve.tool \in Tools /\ ~StateFailure(serve.tool, broker, broker.finished)
  /\ serve.at = "admit" => serve.tool \in Tools
  /\ InHandIsKnown

\* Two gates decide on a PPA run, the broker's flag and the controller's hash of
\* the compiled candidate: a call the first lets through never fails the second.
PpaGatesAgree ==
  serve.at = "execute" /\ serve.tool = "ppa" => feedback.compiled = workspace.revision

\* An episode classified as a clean finish is never refused by env.step, which
\* decides on its own flags, by then possibly behind the broker's.
CleanFinishIsAccepted == main.outcome # "refused"

\* What is exported for a submitted episode is one revision, in the diff as in
\* the candidate tree, and the one that was compiled, inspected and finished,
\* although the serving thread may have outlived stop().
SubmittedCandidateIsTheFinishedOne ==
  main.at = "done" /\ main.outcome = "final_submission" /\ ~main.rejected =>
    /\ main.candidate = history.finished /\ main.diff = history.finished
    /\ history.inspected = history.finished
    /\ CompileRequired => feedback.compiled = history.finished

\* A process the broker had cancelled is never classified by its stream or its
\* clock: the failure that cancelled it is in the snapshot, and an eligible
\* episode had no failure at all.
CancellationHasItsReason ==
  /\ process.status = "cancelled" /\ main.verdict # "none" =>
       main.verdict \in {"limit", "policy", "infrastructure"}
  /\ main.verdict = "submit" => ~Broken

\* The budgets of an episode: calls, consecutive rejections and exploration until
\* finish (what arrives after it is counted, and refused), patches and synthesis
\* always.
LimitsHold ==
  /\ ~broker.finished => /\ broker.calls <= MaxToolCalls
                         /\ broker.consecutive <= MaxRejected
                         /\ broker.exploratory <= MaxExploratory
  /\ broker.patches <= MaxPatchCalls
  /\ feedback.executions <= PpaMaxExecutions

\* A fail-then-repair-then-pass sequence is credited only when a real failure of
\* the compile test was followed by a patch and then a pass of what it made,
\* unless the very same call ends the episode with an infrastructure failure.
RepairIsEarned ==
  [][ broker'.repaired /\ ~broker.repaired /\ ~broker'.infrastructure =>
        /\ history.failedTest # None
        /\ history.failedTest < feedback.compiled
        /\ feedback.compiled = workspace.revision ]_vars

\* RuntimeSession.freeze promises to "Prevent further mutation before the
\* canonical candidate handoff" (runtimes/base.py): a frozen workspace stays put.
FreezeStopsMutation ==
  [][ workspace.frozen => workspace'.revision = workspace.revision ]_vars

\* The orchestrator always gets to its verdict and its export, even when a tool
\* never returns or the agent never stops by itself.
EpisodeEnds == <>(main.at = "done")

\* The episode implements the abstract candidate machine.
Evidence == INSTANCE CandidateEvidence WITH
  revision  <- workspace.revision,
  compiled  <- feedback.compiled,
  inspected <- history.inspected,
  submitted <- history.finished,
  exported  <- IF main.candidate = Quarantined THEN None ELSE main.candidate

ImplementsEvidence == Evidence!Spec
=============================================================================
