# VeriGym in TLA+

A verification project for VeriGym (`src/`, a benchmark-neutral evaluation environment for RTL
agents): TLA+ modules translated from its Python source, TLC runs on small instances, and theorems
checked by TLAPS. Paths are relative to the repository root; `runner.py` without a directory is
`src/verigym/experiments/runner.py`.

Files here: `*.tla` modules, `*.cfg` TLC configurations, `PROJECT.json` (components, runs, the map
from definitions to source lines, hazards, findings, theorems).

## 1. The system

VeriGym turns a benchmark task into a *run*: an agent acts in a workspace through policy-checked
tools, its candidate is verified by a graph of checks in a separate session, and a trace, a manifest
and a scorecard are written. An *experiment* (batch) expands a configuration into a frozen plan and
executes one run per plan item, in parallel if asked, and can be killed and resumed.

| Component | State it keeps | Operations | Interacts through | What makes it correct |
|---|---|---|---|---|
| Batch runner (`experiments/runner.py`, `state.py`) | parent files `experiment_manifest.json`, `state.json`, `events.jsonl`, `run_index.jsonl`, `process-ledger.jsonl`, `summary-checkpoints.jsonl`, `artifact_manifest.json`; a lock; a thread pool | run, prepare, resume; scheduled / started / authorize / terminal / replace / checkpoint / set_status | child executor (one run per item), reports, the file system over crashes | each model process launched at most once; budgets; no accepted work repeated; counters = index; breaker and fail-fast; sealed data is true; sessions end |
| Planner, identity, qualification, staging (`experiments/`) | none (the plan is frozen) | build, hash, validate | gives the plan to the runner | determinism, stable identities |
| Run lifecycle (`core/orchestrator.py`) | run directory, manifest, trace; the failure of the episode, whether the workspace was rejected | resolve, materialise, agent loop, validate, public tests, freeze, export, verify, score | environment, runtime, verifier | what is verified is what was accepted; broken infrastructure is no verdict; one scorecard per run |
| Episode (`core/environment.py`, `core/episode.py`) | episode state, termination reason, budgets, workspace evidence flags | reset, step, terminate, truncate, close | agent, tools, runtime session | budgets exact at their limits; nothing after the end; finish only on current evidence |
| Model gateway (`core/model_gateway.py`) | call and token counters | create_request, generate | model client, budget tracker | every call authorized, counted and answered once; a failed call is nobody's verdict |
| Repository tool broker (`core/repository_tool_broker.py`) | counters, evidence flags (patched, compiled, inspected), failures, a lock; one serving thread | read, list, patch, test, diff, finish; start, stop, stats | unix socket to an external agent process; the bridge (`core/external_agent.py`) to workspace, feedback controller and environment | finish only on evidence of the current revision; budgets; flags and mirrors agree; stop never hangs; nothing changes after finish |
| Agent feedback (`core/agent_feedback.py`) | hash of the compiled candidate, PPA quota and cache | compile, PPA | broker and environment, runtime | PPA only on a compiled candidate, within its quota |
| External agent adapters (`integrations/verigym-codex-cli`) | one process, its event stream | run, time out, cancel, classify | broker, orchestrator | a verdict that has its reason |
| Repository action protocol (`protocols/`) | none | parse, validate, state check | broker, environment, API agents | same verdict on both sides |
| Verifier DAG, scoring (`core/verifier_dag.py`, `scoring.py`) | result per node, executables supplied | execute, should_run, build_scorecard | runtime, tools | a resolved candidate is verified from the ground up |
| Sampling (`core/sampling.py`) | `sample_set_manifest.json`, `pass_at_k.json` | run_sample_set, classify, report, regenerate | runs, replay | pass@k equals its counting definition, is reported for whole sets only, and reports do not contradict each other |
| Docker runtime (`runtimes/docker/`) | containers, sessions, external processes, a stdio broker | create, exec, timeout, kill, remove | docker CLI | no container or process outlives its session |
| Evolution (`evolution/`) | append-only ledger, splits, versions | append, freeze, export | experiments, trainers | held-out data stays held out; ledger only grows |
| Campaign (`campaign/`) | campaign root | plan and run experiments | batch runner | each experiment once |
| Reporting (`reporting/`) | none | load, aggregate, render | parent files | replaced and invalid records excluded |
| Replay / integrity / redaction (`core/`) | none | validate directories | runner, reports | tampering is noticed |
| Official matrix (`scripts/collect_hwe_deepseek_harness_v170_official_matrix.py`, the matrix state of `hwe/deepseek_harness_campaign.py`) | an output root with attempts, progress, datasets, report; a Docker sidecar with a volume and a network | set up, one provider episode per task, seal, journal, stop by policy, clean up, report; a failure handler around all of it | docker CLI, `VeriGym.run`, the harness agent's public trace | no task paid for twice; the published journal is true and only grows; completed means clean; every consumed task is in the report |
| HWE pipeline otherwise (`hwe/`, most of `scripts/`) | frozen experiment identities | collectors, diagnostics, data builders | docker, providers | one-off research workflows |
| Agents, models, prompts, suites, tools, registry, CLI, integrations | plug-in local | adapters | all of the above | contracts checked by their callers |

What is hard to test here: the batch runner is multi-threaded, keeps its truth in several files that
are replaced one after another, is meant to be killed at any time, and pays for a model process that
must not be paid for twice; the broker runs its tools outside its lock on a thread that `stop()` may
abandon, next to an orchestrator that classifies, freezes and exports; the episode keeps
budgets and evidence that must be current when they are used; between the end of the agent's loop
and the scorecard several handlers overwrite each other's verdicts; a sample set rewrites its files in
place and rebuilds them from what can still be replayed; the official matrix drives some twenty Docker
commands, any of which may fail after it took effect, around episodes that cost money; the docker layer
races timeouts against completions. `PROJECT.json` lists the hazards by line.

## 2. Plan

Order: what costs money or falsifies results when it is wrong comes first.

1. **BatchRunner** + **ModelProcessLedger** (abstract) + proofs: done.
2. **RepositoryToolBroker** + **CandidateEvidence** (abstract) + proofs: done. Left: state machines
   v1 and v2.
3. **Episode** (environment, budget tracker, gateway, harnesses, hand-over) + proofs: done.
4. **Scoring**, **VerifierDag**, **SampleSet**: done. SampleSet composes the other two and takes the
   endings of its episodes from the set that Episode is proved to stay in.
5. **OfficialMatrix** + proofs: done.
6. **DockerSession**: container and external-process life cycle with timeouts and cleanup.
7. **EvolutionLedger / Splits**: append-only ledger and split assignment.
8. **RunLifecycle**: which files exist on each failure path of `VeriGym.run`, composed with
   BatchRunner's child states (it should refine the child's transitions assumed there).

Every safety property the runs check has a theorem now (section 6). Runs are kept few: one per
question.

## 3. Modules and how they correspond to the code

**BatchRunner.tla** models the controller process, its worker threads, its files, its children and
its death.

| Variable | Code |
|---|---|
| `mem` | the `_ParentArtifacts` object: manifest, state, events, records, ledger, checkpoints |
| `disk` | the same content as the files in the experiment root |
| `lock` | the `threading.Lock` of `_ParentArtifacts`: holder, and the files the holder has still to replace |
| `main` | the main thread: program counter and locals of `resume`, `_execute`, `_run_parallel` |
| `run` | one `_run_item` call per item: program counter, child serial, record, exception |
| `children` | the directories under `runs/` and what a validator would say of each |
| `launches` | history: model processes ever started per item |
| `sealed` | `artifact_manifest.json`: absent, matching the files, or stale |
| `root` | the experiment root: absent, partly initialised, ready |
| `sessions`, `tampers` | counters of the bounds |

A method of `_ParentArtifacts` is one step that takes the lock and changes `mem`, then one `Dump`
step per file it replaces (`atomic_dump_json`, `atomic_dump_jsonl`, which write a temporary file and
rename it). `Crash` may come between any two steps. An authorization and a checkpoint are appended
to their files, as in the code, not replaced. Between `run`'s parts: `Run`, `Initialize`, `Execute`,
`Prepare` (a new root); `Resume`, then `ReconcileChild` ... (`_reconcile_unindexed_children`),
`ReuseChild`, `DowngradeChild`, `SkipItem`, `Settle*` (`_validate_resume_children`); then
`RemoveArtifactManifest`, `SetRunning`, `PlanWork`, the pool's loop `Wait`, `Collect`, `Refill`,
`StopScheduling` (`_execute` with `_run_parallel`, or the sequential loop when `MaxWorkers = 1`),
the final checkpoint, `Verdict`, reports, `WriteArtifactManifest`, `Exit`. Workers: `Scheduled`,
`Started`, `ContractFails`, `Authorize` / `AuthorizationRefused`, `LaunchChild`, the child's own
steps, `AcceptResult` or `ChildRaises`, `Terminal`, `TerminalEvent`.

Abstractions. The index and the ledger are sets of records: their order is the order of appends
under the lock, and nothing reads it except ordinals, which are contiguous by construction.
`events.jsonl` is reduced to what `_recovered_state` reads: the number of scheduled events, the
running and highest active count, the attempts with a terminal event. Events of other types are a
step only when the rewritten file can be noticed, that is while a sealed artifact index still binds
the old content. A child directory is `opened`, `bound` (its manifest is written), `valid`,
`unvetted` (it replays and matches the plan, but its model-process record would be refused),
`mismatched` or `damaged`. Report generation is one step that succeeds or fails.

**ModelProcessLedger.tla** is the abstract promise: two sets, `consumed` and `started`; `Authorize`
adds an item to the first within the budget, `Launch` adds an authorized item to the second, once.
`BatchRunner!ImplementsLedger` instantiates it with the authorizations on disk and the launches that
really happened.

**MCBatchRunner.tla** gives constants their values for TLC.
**BatchRunnerProofs.tla**, **BatchRunnerIndexProofs.tla**, **BatchRunnerChildProofs.tla**,
**BatchRunnerOutcomeProofs.tla**, each of which extends the one before: section 6. The calls reserved by the ledger (`ReservedCalls`) are counted call
by call, as the size of a set of calls, so that the prover can reason about their number without
induction over the ledger.

**RepositoryToolBroker.tla** models one delegated AgentEval episode as the Codex adapter runs it
(`integrations/verigym-codex-cli/.../agenteval_agent.py`), on a Docker session, with the AgentEval
contract and state machine v3.

| Variable | Code |
|---|---|
| `process` | the agent process as `CodexCliProcessRunner.run` sees it, and the responses that reached it: the tool calls its event stream can name |
| `backlog` | connections in the listen queue |
| `serve` | the thread of `_serve`: where in `_dispatch` it is, the call in hand and what its tool returned |
| `broker` | the counters, evidence flags and failures of `RepositoryToolBroker` that a decision reads |
| `env` | `_agent_eval_*` of `VeriGymEnv`, the mirror of the flags |
| `feedback` | `AgentFeedbackController`: `_compile_passed_hash`, `_ppa_executions`, `_cache` |
| `workspace` | the content as a revision number, and `DockerSession._frozen` |
| `main` | the orchestrator's thread: what it does next, its verdict, what it exported |
| `late`, `stopping` | the finalization reserve is entered; `_stopping` |
| `history` | revisions inspected, failed and finished; only properties read it |

A call is `Accept`; then `TurnAway`, `ExceedPatchLimit` or `Admit` (the first critical section of
`_dispatch`); then one tool step outside the lock (`Explore`, `Patch`, `InspectDiff`, `Compile`,
`PpaWithoutSynthesis`, `PpaSynthesis`, `TestWithoutResult`, `Finish`); then `Mirror` (the bridge's
callback into the environment, with `validate_workspace` after a test), `Record` (the second
critical section) and `Finalize` (`_capture_response`, `_finalize_call_locked`, the response).
Between any two of them the other thread may run: `ProcessEnds`, `Stop`, `Join` (which may give up
on a call in hand), `Classify` (`stats()` and the adapter's order of failures), `Step`
(`env.step` or `env.terminate`), `Validate`, `Freeze`, then `Quarantine`, or `WriteDiff` and
`ExportCandidate`.

Abstractions. A revision stands for a content of the tree; a patch that restores an earlier content
gets a new number, which makes cached PPA results rarer than in the code but changes no decision of
the broker. Outcomes of a tool are those the broker tells apart: `rejected` (invalid request or
recoverable patch error), `denied` (policy), `crashed` (any internal error), `failed`,
`infrastructure`, and `unclean`: a compile that exits with 0 while the control plane fails, which
the broker records as a pass (and may credit as a repair) although the controller does not; the
same call ends the episode, so `RepairIsEarned` leaves it out. Malformed arguments are one bit.
Reasons for which an event stream is ineligible that do not depend on the broker (grammar, model
identity, output bound, usage) are the free choice of `ineligible` in `Classify`; that the stream's
tool names match the broker's is reduced to their number. A `finish` response the process did not
live to see makes the episode ineligible.

**CandidateEvidence.tla** is the promise: a candidate is submitted only while a compile (if required)
and a diff of its current revision hold, it does not change afterwards, and what is handed over is
what was submitted. **MCRepositoryToolBroker.tla** is the model-checking module.
**RepositoryToolBrokerProofs.tla**: section 6.

**Episode.tla** models one run in one process: the agent loop of `VeriGym.run`, `VeriGymEnv.step`, the
`BudgetTracker`, `ModelGateway.generate`, the ReAct and single-turn harnesses, an external harness by
what it leaves behind, also in the hands of a thread, and the way from the end of the loop to the scorecard.

| Variable | Code |
|---|---|
| `pc` | the statement that comes next: head of the loop, `agent.act`, an authorized model call, `env.step`, a tool, then the hand-over |
| `task` | the harness, the budget and `verification_requires_final_submission` |
| `env` | `VeriGymEnv`: state, termination reason, session open, frozen or closed |
| `tracker`, `late` | `BudgetTracker`; the wall time is a bit that may turn true between any two steps |
| `agent` | the last action and `invalid_actions` in a row |
| `failure`, `rejected` | the orchestrator's `episode_failure` and `external_workspace_rejected` |
| `workspace` | content as a number of edits, and whether the tree is valid, against policy or unreadable |
| `hand` | writes left to a broker call that `RepositoryToolBroker.stop` gave up waiting for |
| `files` | which content was exported and verified, its result, the scorecard |
| `history` | failed calls, tokens of the last answer, content and writes in hand when the loop ended; only properties read it |

`LoopExhausted`, `LoopContinues`: head of the loop. `CallRefused`, `CallAuthorized`, `CallFailed`,
`AnswerOverspent`, `AnswerParsed`, `AnswerInvalid`, `AnswerRejected`: the gateway and the harness that
called it. `Step...` and `ToolReturns`: the branches of `env.step`, with the submission that is written
back when policy refuses it. `ExternalFinishes` and `ExternalTerminates` are one `act` of an external
harness, which is a whole episode of another program; the second raises one of the endings the shipped
adapters make of their process, their provider and the broker (`CliEndings`, `SdkEndings`). Then `Validated`,
`PublicTests`, `Freeze`, `Export`, `Verify`, `Score`; `HarnessFails` is any other exception, after which
`run` raises.

An act that returns is not the end of the work: `stop()` joins the serving thread for two seconds and
goes on, so a patch still being applied may write afterwards. `hand` is how much it may still write,
`LateWrite` one such write (or, behind its checks, the return of a file to what it was) at any moment until
the session is closed, `LateCallEnds` its return. This happens in episodes that are submitted, too: an adapter need not ask for an
accepted finish of the broker before it submits (the Claude adapter submits when its process exits with 0). What the candidate may
then be is what `OnlyAcceptedWorkIsVerified` and `EndIsFinal` say: what the loop left plus writes of that one call,
none at all where no call was abandoned.

The four `exhausted_` tests are separate operators because different components call them at different
moments, and time may run out between two of them.

**Scoring.tla** holds what Episode and SampleSet share: endings, `Scorecard` (`build_scorecard`
without a synthesis profile) and `Outcome` (`classify_sample_outcome`).

**VerifierDag.tla** is `VerifierExecutor.execute` on a graph of a given set: `Skip`, `NoExecutable` and
`RunTool` for any node whose dependencies are done (every topological order), `CheckIntegrity` for
the result the orchestrator appends when a hidden input changed, `SkipVerification` when a required
final submission is missing. `WellDeclared` states what the graph's validator enforces, and that
conditions and executables refer to dependencies, which it does not enforce but every graph of the
repository satisfies.

**SampleSet.tla** is one `run_sample_set` with its files, and `regenerate_sample_report` any number of
times after it. An episode ends in one of `ChatEndings`, its graph runs through VerifierDag, `RecordSample`
appends the child and writes the manifest, `SampleRaises` loses it; `WriteManifest`, `WriteReport`;
`Kill` anywhere, which leaves a file torn if one was being written, since `dump_json` truncates in place;
`Damage` of a child at rest; `Regenerate`, `RewriteManifest`. pass@k is kept as the fraction it is
before `float()`. `Foundation` is what a node's result rests on; only a property uses it.

**OfficialMatrix.tla** is `collect` of the v170 script, from the new output root to the report.

| Variable | Code |
|---|---|
| `pc` | the statement of `collect`, of its failure handler or of `_best_effort_cleanup` that comes next |
| `matrix`, `details` | `DeepSeekHarnessMatrixState` and the list of attempts in memory |
| `ctl` | the other locals: started, named, network created, template, active binding, pending attempt, cleanup confirmed |
| `host` | what Docker holds: socket volume, sidecar, and inside it the network and task containers |
| `disk` | the output root: backing file, progress, the public trace, sealed attempt and dataset per task, report |
| `calls` | history: provider episodes begun per task |
| `faults`, `launches` | counters of the bounds |

Each Docker command and each file write is a step that succeeds, or fails having taken effect or not,
and goes to the handler (inside the handler's own cleanup: gives up, except that a failed `inspect`
counts as absence). `Kill` may come between any two steps, and `Launch` starts the script again, on the
same output root, which it refuses. `ProviderRequest` is the moment money is spent; `EpisodeEnds` is
where the public marker is written, or torn, or lost; `Judgement` is `_execute_one` from the scorecard on, over
every combination of `Findings`.

**MCEpisode.tla**, **MCSampleSet.tla** give constants their values for TLC; OfficialMatrix needs
only numbers. **EpisodeProofs.tla**, **SampleSetProofs.tla**, **OfficialMatrixProofs.tla**:
section 6.

Definitions that begin with a comment `Mutant:` are not part of the model. Each is a plausible bug
in the definition that follows it; replacing that definition by it breaks a property of a run, which
shows that the property can see the code.

## 4. Runs

The `Batch` runs use `MCBatchRunner`, the `Broker` runs `MCRepositoryToolBroker`, the `Sample` runs
`MCSampleSet`. `CHECK_DEADLOCK FALSE` everywhere: when all sessions or launches are used up no process is
started again, an episode ends with its export or its scorecard, and a killed sample set whose manifest
is torn can never be regenerated, so the systems do stop. The type invariants are not in the
configurations: those of BatchRunner, RepositoryToolBroker, Episode, SampleSet and OfficialMatrix are
theorems (section 6).

| Run | Instance | What it shows |
|---|---|---|
| BatchStrictParallel | 2 items, 2 workers, strict policy, 2 sessions | `ActiveCountIsExact`; `TerminalEventsAreIndexed`; `AuthorizationIsNeverConsumed`; `SealedExperimentIsComplete` |
| BatchLegacyBudgets | 2 items of weights 1 and 2, 2 workers, at most 2 processes and 2 calls, legacy policy, 2 sessions, fairness | `LaunchesAreAuthorizedOnce`; `BudgetsHold`; `ImplementsLedger`; `SessionsEnd` |
| BatchSequential | 2 items, 1 worker, fail-fast, 3 sessions, one child damaged between sessions | `NoWorkIsRepeated`; `FailFastBoundsFaults`; `AttemptsAreGapFree`; `FilesStayLoadable`; `CountersMatchIndex`; `IndexHistoryIsKept` |
| BatchBreaker | 3 items, 1 worker, total and per-category limits of 2, a checkpoint after each record, 2 sessions | `BreakerBoundsFaults`; `CheckpointsTrackTheIndex` |
| BatchStaleIndex, BatchUnvettedOrphan | one item | a statement of a document or comment that the code does not keep (section 5) |
| BrokerEvidence | 5 calls, 2 patches, 2 rejections, 1 exploration, 1 synthesis, compile required, fairness | `LimitsHold`; `FinishRestsOnCurrentEvidence`; `PpaGatesAgree`; `CleanFinishIsAccepted`; `SubmittedCandidateIsTheFinishedOne`; `CancellationHasItsReason`; `RepairIsEarned`; `ImplementsEvidence`; `EpisodeEnds` |
| BrokerFreeze | 3 calls, 1 patch | a docstring the code does not keep (section 5) |
| Episode | three harnesses, four budgets, 2 invalid actions, at most 2 tokens per answer, at most 2 late writes | `BudgetsAreExact`; `OnlyAcceptedWorkIsVerified`; `BrokenToolsGiveNoVerdict`; `ChatEndingsAreKnown`; `EndIsFinal` |
| SampleSet | 3 samples, k of 1, 2, 4, five graphs, two configurations, one child that raises, one damaged | `ResolvedMeansVerified`; `PassAtKIsExact`; `ValuesAreOfWholeSets`; `ReportsAgree` |
| SampleInfrastructure | 2 samples of the open-source graph | a document's promise the code does not keep (section 5) |
| OfficialMatrix | 4 tasks, 4 faults, 2 launches | `EpisodesFollowPolicy`; `JournalLagsByOne`; `CompletedMeansClean`; `MarkedTasksAreConsumed`; `CandidatesAreEvidenced`; `JournalOnlyGrows` |

Bounds of the `Batch` runs. `MaxSessions` bounds starts of a controller; two sessions contain every crash point followed
by a full resume, three contain a crash during a resume followed by another resume, which is where
attempts and orphans interact. `MaxTampers` bounds damage to finished children; one suffices for a
valid record to be downgraded and its item run again. Two items are the smallest plan on which
workers contend for the lock and for a budget, order matters to reconciliation, and fail-fast has
something to stop; three are needed for a breaker limit of 2 to be exceeded. Weights 1 and 2 with a
call budget of 2 make the call budget, not the process budget, the one that refuses. Items are not
symmetric (they are ordered, and weighted), so no symmetry is used. Constants must satisfy
`ConfigAssumption`, the constraints the schema enforces: in particular a circuit breaker implies one
worker, and the strict policy needs a process budget equal to the number of model-bearing items.
`ContractFailures` says how `_resolve_child_execution_contract` may fail before an item is authorized. All three
classes of `_run_item`'s handlers are there, except in BatchLegacyBudgets, where liveness leaves room for the
configuration error only; there the executor still fails in all three ways (`ChildRaises`). The proofs hold
for every set of them.

Bounds of the `Broker` runs. The limits are the code's own parameters. Five calls with two patches
contain patch, patch, compile, diff, finish and patch, compile, patch, diff, finish: a finish exactly at
the call limit, evidence that goes stale, and a finish refused because of it; and patch, compile, patch,
compile: a failure that is repaired. Only a finish after a repair needs a sixth call; liveness makes
that instance too large (6.7 million states), and `FinishRestsOnCurrentEvidence` is proved for every
limit. `CallBound` is one more than the limit, so that a call after an accepted finish is counted (and
refused). `Backlog` 1 suffices because
waiting connections are anonymous: what one asks for is chosen when it is accepted. `Reserve` is on,
which only adds behaviours.

Bounds of Episode. Each limit of a budget is the first to be reached in one of the four budgets, one
allows no call at all, and call and token limits can be reached by the same answer. Two invalid actions make the
limit of invalid actions one that can be approached and reset. Answers of 0 to 2 tokens or of an unknown
number let the last answer reach a limit or pass it. No bound limits the length of an episode: its turns do.
Two late writes let one fall before the export and one behind it, or both on one side; what a patch of more files adds is more of the same.

Bounds of the `Sample` runs. Three samples with k of 1, 2 and 4 contain k below, at and above the
number of failures, and k above n; two configurations (symmetric, and so declared) make a set homogeneous or mixed. The graphs
are the two shapes of the shipped suites and three that the schema admits: a node the score does not
require, and conditions on a failed dependency or on none. `MaxErrors` and `MaxDamages` of 1 are enough
for a child to be missing at first, or to become missing between two reports.

Bounds of OfficialMatrix. Four tasks are the least on which two attempts without progress in a row can
come after one that made progress, and still leave a task that must not begin. Four faults contain a failure
of the loop, of its handler, and of two commands of the cleanup. Two launches show that a second start pays for nothing.

Fairness of the batch runner. `FairSpec` adds `WF_vars(ControllerStep)`: while the controller process can take a step,
some thread of it eventually takes one. That is justified because a lock holder only writes files
and releases the lock, and a child returns because every runtime call below it has a wall-clock
limit. Nothing is assumed of crashes, interrupts, damage or new sessions. One weak fairness
condition on all of the controller's steps suffices for `SessionsEnd` because no thread can go on
for ever while others wait: each of its steps brings the session nearer to its end, which is
theorem `SessionsGetNearer` (section 6).

Fairness of the broker. Weak fairness of the clock (`EnterReserve`), of the runner's deadline
(`ProcessEnds("timed_out")`: its loop polls every 0.1 s), of `ThreadEnds` (the accept loop times out
every 0.2 s and then looks at `_stopping`) and of the orchestrator's steps, each of which is
sequential code without a wait other than `join(timeout=2.0)`. Nothing is assumed of the agent or of
any tool: a compile may never return, and the episode still ends.

The other modules have no liveness property. Episode, SampleSet and OfficialMatrix are sequential
programs whose waits are bounded by timeouts of the runtimes below them; that they end follows from
finite budgets, samples and schedules.

## 5. Disagreements found

* **A crash during a resume can make an experiment unresumable** (`BatchStaleIndex`). `resume`
  rewrites the parent's files (`runner.py:445-446`) while the artifact index of the earlier sealed
  session is still there; the index is removed only in `_execute` (546). Killed in between, every
  later `resume` fails at `verify_artifact_manifest` (365-370). `core/integrity.py:358` says the
  index is removed "before mutating a resumed parent".
* **An orphan escapes the strict check** (`BatchUnvettedOrphan`). A child that
  `_validate_model_process_result` would refuse (763-768) becomes a valid record if the controller
  dies before it looks: `_reconcile_unindexed_children` (949) does not call that check.
* **A frozen session still loses files** (`BrokerFreeze`). `runtimes/base.py:42` promises that
  `freeze()` prevents further mutation. `stop()` gives a call in hand two seconds; a patch that
  outlives them and deletes a file does so with `unlink` on the host (`tools/file_tools.py:592, 715`),
  past the check in `DockerSession.write_file`. `SubmittedCandidateIsTheFinishedOne` shows the reach of
  it for the Codex AgentEval adapter, which submits on an accepted finish only: its submitted candidates are not
  affected, because nothing is in hand that could change the workspace once a finish was accepted. An adapter that
  submits without one has no such protection, and what is verified then may contain writes made after the end of
  the loop (`LateWrite` in Episode).
* **An infrastructure error can be canonical** (`SampleInfrastructure`). `docs/verilog_eval.md:220-223`
  promises a canonical pass@k only when "no infrastructure result is present". A hidden input that
  changed during verification adds an error result under a node of its own (`orchestrator.py:1284`), and
  `build_scorecard` looks at the required nodes only (`scoring.py:83`): the sample counts as resolved.

Three more observations on the batch runner are visible in the model and have no run of their own. The legacy policy never
reruns a model-bearing item, although `docs/batch_runner.md:72-74` promises a new attempt for a partial,
corrupt or incompatible one: `authorize_model_process` (196) refuses any item with a ledger record.
In the same policy an authorization may stay without an outcome in a sealed experiment, when a crash after
the authorization meets a fail-fast stop in the next session: nothing settles what `_validate_resume_children`
did not complete. `SealedExperimentIsComplete` therefore asks for outcomes under the strict policy only.
And observed concurrency is inflated by a crash: `_recovered_state` (1648) forgets active items only at
an `experiment_interrupted` event, so after a kill they stay.

## 6. What is proved

### The batch runner

For every number of items, workers, sessions and every configuration that satisfies
`ConfigAssumption` (the only assumption):

* `TypeCorrectness`: `Spec => []TypeOK`. `TypeOK` is not inductive: that counters stay natural and
  that records stay in range needs that index, ledger and children are finite sets, that the
  attempts in an index are bounded (so that a next one exists), and that a worker which has launched a child has its directory.
  `TypeInv` adds these; the proof is one lemma per action, collected in `TypeInvariance`.
* `LedgerInvariance`: `Spec => []LedgerInv`. The argument that no process is paid for twice: the
  ledger file is only appended to and the live controller's copy equals it; an authorization exists
  at most once per item; an item at its launch has an authorization which no launch has used; no
  worker outlives its process; a root that is not ready has an empty ledger and no launches. The
  proof first shows (`StepCases`) that every step appends one authorization, launches one child, or
  is quiet: it leaves ledger and launches alone and brings no worker to its launch.
* `AuthorizedLaunches`: `Spec => []LaunchesAreAuthorizedOnce`, from the two above.
* `LedgerRefinement`: `Spec => ImplementsLedger`. Initial states map to initial states; an append
  maps to `Authorize` (the process budget of the abstract ledger counts items, that of the code
  counts records: `SameCardinality` shows they agree because items are authorized once), a launch to
  `Launch`, everything else to a stutter.
* `IndexInvariance`: `Spec => []IndexInv`. None of the index properties is inductive alone. The file
  lags the memory by at most the change whose author still owns the lock (`FilesInv`), so a crash
  loses one change and not two; that author is between two of its own writes (`Threads`, which also
  says that the pool has no worker while a resume edits the index); an attempt that was handed out and
  not recorded has the number after the recorded ones (`OpenInv`); who is about to report an end has
  recorded it (`RecordedInv`); and directories and authorizations belong to a recorded attempt or the one after
  (`FollowInv`), which is what makes the attempt a resume gives an orphan the next one. From it
  `ReportedEndsAreRecorded`, `AttemptsStayGapFree`, `CampaignsStayLoadable` and the action property
  `IndexHistory`.
* `CountersInvariance` and `CountersAreRecounted`: the counters kept by `_add_index` and
  `_replace_index` one by one are those of a recount. One lemma for each way to change an index
  (`Added`, `Replaced`) says what it does to each counted set; every other step is `Uncounted`.
* `BudgetInvariance` and `BudgetsAlwaysHold`: a budget is tested on the ledger in memory, which
  is the one on disk while the controller lives, and each authorization adds exactly its item's calls,
  since an item is authorized once.
* `ActiveInvariance`: `Spec => []ActiveInv`; `ActiveItemsAreCounted` follows. An exception takes a worker
  straight to its end, and an interrupt is the one that skips the terminal event (`Raised`): such an item
  stays active.
* `SerialInvariance`: run directories of an item are numbered as they are made, and records of
  index and workers refer to existing ones.
* `ChildInvariance`: `Spec => [](ChildInv /\ ResumeInv)`, the argument that no accepted work is done
  twice. `ChildInv` relates directories to records: a directory that could be accepted is its item's last
  one (`LastInv`) and accepted by the latest record, unindexed, or of an item whose authorization is spent (`AccountInv`); an item
  whose turn has come has none (`TurnInv`); a running or returned worker has the last one in hand
  (`AttendInv`), and one with a record accepts what can be accepted (`AnswerInv`). `ResumeInv` follows a resume from its orphans to its
  plan: after reconciliation nothing is unindexed, the validation has dealt with every item up to its
  cursor, after it every item is completed, idle or spent, and after settling the spent ones are completed. So what is
  scheduled is idle and not authorized. A strict item keeps its one process and hence its one
  directory; a damaged one makes room for a second, which is why the property counts directories that replay.
* `WorkIsNotRepeated` and `AuthorizationsAreSettled` follow.
* `PointsInvariance`, `CheckpointsAreTrue`: while no thread owns the lock the files are those in memory
  (`AgreeInv`); from the removal of the artifact manifest to its replacement nothing is sealed, and once it
  is replaced no thread is left that could write (`SealInv`).
* `OutcomeInvariance` and `SealedExperimentsAreComplete`. An item the validation completed has an accepted
  latest record (`CompletedInv`); a worker that ended without an exception has recorded an accepted
  result, a fault or an internal failure (`EndInv`); the pool never holds more futures than workers and is
  left empty (`CrewInv`). Hence each item is pending, in a worker's hands or recorded, unless scheduling
  was halted by an internal failure, a fault that stays in the index, or an open breaker (`CoverInv`; for the
  authorizations of the strict policy `LedgerCoverInv`). `TruthInv` carries this over the verdict.
* `SpreadInvariance`, `FaultsStopFailFast`, `FaultsOpenTheBreaker`: the number of faults on disk is not
  bounded by induction on itself, because a crash can leave faults that only the next session finds.
  The induction is on sets of items: `Reach`, the items with an accepted fault in an index or with a
  directory a resume would accept, and every future; `Exposure`, the same for any infrastructure failure,
  and the strict authorizations a resume would settle as one. The index on disk lacks at most the record
  whose author owns the lock (`LagInv`), and an unindexed directory that replays has a worker that
  is about to record it (`OrphanInv`). In a fail-fast pool what is hit is then among the futures, or
  scheduling has stopped, or nothing is left to do (`FailFastInv`): at most one item per worker. A run with the total breaker has
  one worker; what no worker has in hand has been counted, and the next item is submitted only while there is
  room for one more (`BreakerInv`). The second bound needs that nobody damages a finished child: a valid
  record keeps its directory (`KeptInv`), so a resume downgrades nothing into an unpaid authorization.
* `SessionsGetNearer` and `SomebodyIsReady`: what can be said without fairness of how a session ends.
  `Remainder` has four counters, compared lexicographically: the stage of the main thread (the loop of the pool is
  one); what this stage has left, which is the unindexed directories, the items to validate, the authorizations
  to settle, or the turns the items still have to take (`Ahead`: pending, then each place of the worker, the
  end of its child included); the place within the loop; and the files the lock holder has still to
  replace. Every step that leaves the controller alive makes it smaller. That the second counter is that of
  a finite set that really loses an element rests on `LedgerInv`, `IndexInv` and `SerialInv`: an indexed directory is
  not indexed again, and a settled authorization stays settled. `Ready` restates the guards of the actions:
  a lock holder has a file to replace, a worker waits only for the lock, and the main thread has what its
  place needs. `ExpectInv` is the part of the invariant for it: the batch to collect is not empty, and an item
  the cursor has passed is completed or its newest record is not valid, so each unsettled authorization
  falls under one of the cases `_validate_resume_children` has code for.

### The delegated episode

For every choice of limits that satisfies `LimitsAssumption`:

* `BrokerTypes`: `Spec => []TypeOK`; it is inductive as it stands. `FinalizedCounters` and
  `RecordedCounters` say what the two updates of the counters preserve.
* `EvidenceInvariance`: `Spec => []EvidenceInv`, where `EvidenceInv` is `EvidenceIsCurrent` with
  `FinishRestsOnCurrentEvidence`. That a finish rests on current evidence is not inductive: it needs
  that the flags speak of the current revision whenever no result is in hand (`EvidenceIsCurrent`),
  and for the time between a tool's effect and its record that the result in hand says exactly what
  became stale (`InHandIsKnown`). There is one lemma per stage of a call (`EvidenceAdmit`,
  `EvidenceExecute`, `EvidenceMirror`, `EvidenceRecord`); steps of the other thread leave it alone
  (`EvidenceUntouched`).
* `FinishOnCurrentEvidence` and `PpaGatesNeverDisagree` follow.
* `BudgetInvariance`, `LimitsAlwaysHold`: a call in hand was within its limits when it was admitted, and
  an open broker between two calls has one left (`CallsAreBudgeted`); a revision was paid for by a patch
  (`RevisionsAreCounted`).
* `MirrorInvariance`: the environment's flags are the broker's, or between `Mirror` and `Record` those the
  broker is about to have (`MirrorAgrees`), unless a failure of policy or infrastructure is on record; and
  finish is the last word (`FinishIsFinal`).
* `HandoverInvariance`: what the main thread may have decided where (`DecisionsInOrder`), and that what
  it wrote down is the revision that was finished (`HandedOver`), although the serving thread may still be
  executing a call. From both, `CleanFinishIsAlwaysAccepted`, `TheFinishedCandidateIsSubmitted` and
  `CancellationsHaveTheirReason`.
* `RepairInvariance`, `RepairsAreEarned`: a failed test the broker remembers is a real one at an earlier
  revision than the workspace has once a patch made the repair pending; the exception is a
  second failure that is in hand and not recorded.
* `EvidenceRefinement`: `Spec => ImplementsEvidence`. Tools map to the steps of the abstract machine while
  nothing is finished (no tool runs after it), `ExportCandidate` to its hand-over, and a
  quarantined candidate to none: that `Quarantined` is never the number of a revision needs `RevisionsAreCounted`.

### The episode

For every set of harnesses, every budget, every limit of invalid actions, every size of an answer and
every number of late writes that satisfy `EpisodeAssumption`:

* `EpisodeTypes`: `Spec => [](TypeOK /\ Control)`. `Control` says that in
  the loop nothing has ended (no reason, no failure, no rejection), that behind it the episode has a
  reason, that only an external harness is validated, and that a run that is over has closed its session;
  every other proof needs it.
* `BudgetsStayExact`: `Spec => []BudgetsAreExact`. Not inductive: a tool or call is counted after its
  test, so the proof carries that a turn about to be consumed is left (`Within`), that an ending names
  a budget that is used up (`UsedUp`) and stays so since nothing is consumed afterwards, and that an
  authorized call still has tokens to spend (`CallIsPaid`).
* `VerifiedWorkWasAccepted`, `BrokenToolsAreNeutral`: from `Handed`, which follows the content, the
  candidate and the failed calls from the end of the loop to the scorecard: that what was written since
  and what is still in hand together never exceed what was in hand at the end, that nothing but that call writes, that the
  tree is valid behind validation where no call was abandoned, that a submission's files are there only after an
  accepted submission, and that a failed call has made the failure of the episode an infrastructure failure,
  which nothing replaces.
* `EndedEpisodeStaysEnded`: the action property `EndIsFinal`, from `Handed` (what a late write may add) and
  `Control` (a closed session receives none).
* `SampledEndingsAreKnown` (from `Chat`) is the interface to
  SampleSet, whose first action draws an ending from the same set.

### Verification and sample sets

For every number of samples, set of k, family of declared graphs, set of configurations and number of
errors and damages:

* `SampleInvariance`: `Spec => []SampleInv`. It contains the types; that a passed node of the graph being
  verified rests on passed nodes only (`Grounded`, by the closure of `Foundation`: the lemma
  `FoundationIsBelow` gives its defining equation, without induction on the graph); that refs in memory and
  in the manifest, torn, lost or rebuilt, are those of samples that ran (`Faithful`); that nothing is recorded of
  the samples still to come (`Ahead`); and that a value in a report is that of a whole set, after which no
  sample is recorded (`Reported`). A set of faithful refs as large as the set of samples is of all of
  them, which is why a rebuilt report agrees.
* `ResolvedIsVerified`, `ValuesNeedAWholeSet` and the action property `ReportsNeverContradict` follow.
* `ValuesCountDraws`: `Spec => []PassAtKIsExact`, for every number of samples and every k. What remains
  after `Reported` is arithmetic: that the quotient of factorials is the number of draws. Induction is
  replaced by least counterexamples: `FactorialSteps` gives the recursive definition a solution,
  `DrawsSplit` splits the draws by one element, `Pascal` is the arithmetic of that step, and
  `DrawsAreCounted` takes the least set that would be miscounted; `LuckyDraws` counts the complement.

### The official matrix

For every length of the schedule and every number of faults and launches:

* `EpisodesStayWithinPolicy`: `Spec => []EpisodesFollowPolicy`. Its inductive invariant is `MInv`: while
  the script lives, what is sealed on disk is what it has in memory, the policy's state says of the
  sealed prefix what it should (`PolicyState`), the current task is the next one of the schedule
  (`Placed`), and of the tasks with no recorded attempt only the current one may have been begun
  (`Begun`). What the next start needs is that an output root which does not exist has no history
  (`Untouched`): one that exists is refused.
* `MatrixTypeCorrectness`: `Spec => []TypeOK`, which includes that memory, progress file and report all list
  the tasks in schedule order.
* `JournalNeverLagsByTwo` and `JournalIsAppendOnly`: from `Published` (the progress file is the attempts in
  memory, or those without the last) and `Lagging`, which keeps what is needed of it after death.
* `ReportInvariance`: `Spec => []ReportInv`, for the report. While the script lives, every sealed
  attempt has the evidence its outcome claims, of the tasks not sealed only the active one has a trace
  (`Handed`), and on the way to a report without a failure what was removed is gone (`Removed`); a trace
  with an event is that of a provider episode (`Provided`). `CompletedMatricesAreClean`, `MarkedTasksStayConsumed` and
  `CandidatesHaveEvidence` follow; they speak of the report on disk, so they must survive the death of the script
  and a second launch (`Unreported`).

### Only model-checked

* `SessionsEnd` and `EpisodeEnds`: liveness under fairness is out of the prover's reach. Of `SessionsEnd` two halves
  are proved for every instance, the decreasing measure and that some thread is always ready. That a ready thread
  makes `ControllerStep` enabled (`ENABLED`), and the induction along the measure, stay with TLC.

## 7. Not modelled

* In the batch runner: tampering with the stored plan or configuration and with symbolic links,
  `_assert_persisted_plan`, torn writes after a power loss, log text, report contents.
* In the delegated episode: the wording and size of responses, training capture, accounting and
  evidence files; the runs of public tests the orchestrator makes itself before it freezes; the other
  agents that use the broker (Claude, OpenHands, teacher and functional variants) and state machines
  v1 and v2; sessions on the host (`LocalSession`, whose `freeze` does nothing).
* In the episode: the calls an external harness makes of its broker, and whose they are
  (RepositoryToolBroker has them for one adapter; Episode has what they leave); a copy of the candidate that a
  late write falls into (`Export` is one step, and no property tells such a copy from one before or after that
  write); a tool denied in chat mode (no chat harness calls one), the rejection of AgentEval
  transitions inside `env.step` for in-process agents, PPA and synthesis profiles in scoring. Public
  tests are assumed to build outside the workspace, as the shipped contracts have it. That a child run's
  directory appears, gets its manifest and is completed or not is an assumption of BatchRunner, not yet
  connected to Episode.
* In sampling: the `task_ids` of children, which the loop sets alike, and what replay looks at.
* In the official matrix: the validation of arguments and frozen inputs before the output root exists
  (it changes nothing), hashes and receipts. The marker of a provider call may be lost between the end
  of the helper process and the public event: that is a fault of the model, as it is one of the code.
* Planner, reporting, replay, evolution, campaign, other HWE scripts, adapters and the CLI: see the
  reasons in `PROJECT.json`. Mostly they are sequential data transformations or glue to external
  services; the planned modules of section 2 are the exceptions. Most of the repository's lines are
  collectors, canaries and data builders for single frozen experiments, many of them earlier versions of
  one another with constants baked in; the v170 collector stands for its family here, and modelling its
  predecessors again would say nothing new.
