----------------------------- MODULE SampleSet -----------------------------
(***************************************************************************)
(* pass@k of one task: N independent ChatEval runs, each an episode (its   *)
(* ending is one that Episode can have), a verifier graph and a scorecard; *)
(* the manifest and the report on disk; a kill at any point; and the       *)
(* report rebuilt from the children that can still be replayed.            *)
(* (core/sampling.py)                                                      *)
(***************************************************************************)
EXTENDS Integers, FiniteSets, FiniteSetsExt, Combinatorics, VerifierDag

CONSTANTS
  N,              \* samples
  RequestedK,     \* pass_k
  RequiredNodes,  \* correctness_required_nodes of each graph
  StrictGraphs,   \* graphs of tasks that are verified after a final submission only
  Fingerprints,   \* configurations a child may turn out to have
  MaxErrors,      \* bound: children that raise
  MaxDamages      \* bound: child directories damaged at rest

ASSUME SampleAssumption ==
  /\ N \in Nat \ {0}
  /\ RequestedK \subseteq Nat \ {0}
  /\ DOMAIN RequiredNodes = Graphs
  /\ \A g \in Graphs : RequiredNodes[g] \subseteq DOMAIN g
  /\ StrictGraphs \subseteq Graphs
  /\ MaxErrors \in Nat /\ MaxDamages \in Nat

NotYet == "not_yet"
NoHash == "no_hash"

\* The file a kill left half written: no later regeneration can load it.
Torn == [children |-> {}, errors |-> 0, hash |-> "torn"]

VARIABLES
  pc,        \* where run_sample_set, or regenerate_sample_report, is
  index,     \* sample_index of the loop
  ending,    \* how the episode of the current child ended
  children,  \* SampleRunRefs in memory: a set, no child is read by its place
  errors,    \* errors in memory: how many children are missing
  manifest,  \* sample_set_manifest.json
  report,    \* pass_at_k.json
  damaged,   \* children that can no longer be replayed
  runs       \* history: what each sample really came to

own == <<pc, index, ending, children, errors, manifest, report, damaged, runs>>
vars == <<own, dagVars>>

Samples == 0..N-1
NoReport == [entries |-> [k \in RequestedK |-> <<>>], reason |-> NotYet]
NotRun == [outcome |-> NotYet, fingerprint |-> NoHash, clean |-> FALSE,
           founded |-> FALSE]

-----------------------------------------------------------------------------
(* The report.                                                             *)

\* Mutant: the last case of the estimator is missed.
PassAtKOffByOne(n, c, k) ==
  LET failures == IF k >= n - c THEN 0 ELSE choose(n - c, k)
  IN  <<choose(n, k) - failures, choose(n, k)>>

\* compute_pass_at_k for k <= n, as the fraction it is before float()
PassAtK(n, c, k) ==
  LET failures == IF k > n - c THEN 0 ELSE choose(n - c, k)
  IN  <<choose(n, k) - failures, choose(n, k)>>

Count(refs, outcomes) ==
  Cardinality({r \in refs : r.outcome \in outcomes})

\* Mutant: a child is missed only when its error was recorded.
InvalidReasonByErrors(m) ==
  LET found == {r.fingerprint : r \in m.children}
  IN  IF \/ Cardinality(found) > 1
         \/ m.hash # NoHash /\ found # {} /\ found # {m.hash}
        THEN "mixed_configuration"
      ELSE IF m.errors > 0 THEN "missing_child_results"
      ELSE IF Count(m.children, {"infrastructure_error"}) > 0 THEN "infrastructure_error"
      ELSE IF Count(m.children, {"cancelled_truncated"}) > 0 THEN "cancelled_or_truncated"
      ELSE "none"

\* base_invalid_reason: the first that applies
InvalidReason(m) ==
  LET found == {r.fingerprint : r \in m.children}
  IN  IF \/ Cardinality(found) > 1
         \/ m.hash # NoHash /\ found # {} /\ found # {m.hash}
        THEN "mixed_configuration"
      ELSE IF Cardinality(m.children) # N THEN "missing_child_results"
      ELSE IF Count(m.children, {"infrastructure_error"}) > 0 THEN "infrastructure_error"
      ELSE IF Count(m.children, {"cancelled_truncated"}) > 0 THEN "cancelled_or_truncated"
      ELSE "none"

\* Mutant: the report is about the children there are.
ReportOnChildren(m) ==
  LET reason == InvalidReason(m)
      c      == Count(m.children, {"resolved"})
      n      == Cardinality(m.children)
  IN  [reason  |-> IF reason = "missing_child_results" THEN "none" ELSE reason,
       entries |-> [k \in RequestedK |->
         IF reason \in {"none", "missing_child_results"} /\ k <= n
           THEN PassAtK(n, c, k) ELSE <<>>]]

\* build_pass_at_k_report; an entry without a value is invalid
Report(m) ==
  LET reason == InvalidReason(m)
      c      == Count(m.children, {"resolved"})
  IN  [reason  |-> reason,
       entries |-> [k \in RequestedK |->
         IF reason = "none" /\ k <= N THEN PassAtK(N, c, k) ELSE <<>>]]

Submitted == Ending("final_submission", "none")
NewManifest == [children |-> {}, errors |-> 0, hash |-> NoHash]

Init ==
  /\ DagInit
  /\ pc = "next" /\ index = 0 /\ ending = Submitted
  /\ children = {} /\ errors = 0
  /\ manifest = NewManifest /\ report = NoReport
  /\ damaged = {} /\ runs = [s \in Samples |-> NotRun]

-----------------------------------------------------------------------------
(* run_sample_set.                                                         *)

\* service.run: the episode of the next child ends, and its candidate waits.
EpisodeEnds ==
  /\ pc = "next" /\ index < N
  /\ ending' \in ChatEndings
  /\ pc' = "verify"
  /\ UNCHANGED <<index, children, errors, manifest, report, damaged, runs, dagVars>>

SubmissionMissing ==
  graph \in StrictGraphs /\ ending.reason # "final_submission"

NotVerified ==
  /\ pc = "verify" /\ SubmissionMissing
  /\ SkipVerification
  /\ pc' = "record"
  /\ UNCHANGED <<index, ending, children, errors, manifest, report, damaged, runs>>

VerifyNode ==
  /\ pc = "verify" /\ ~SubmissionMissing
  /\ ExecuteNode
  /\ UNCHANGED own

VerificationEnds ==
  /\ pc = "verify" /\ ~SubmissionMissing
  /\ CheckIntegrity
  /\ pc' = "record"
  /\ UNCHANGED <<index, ending, children, errors, manifest, report, damaged, runs>>

Required == RequiredNodes[graph]

Card == Scorecard(ending, results, Required)

\* _sample_ref, and the manifest written after each child.  clean: no result
\* was an error; founded: all that the required results rest on has passed.
RecordSample ==
  /\ pc = "record"
  /\ \E fingerprint \in Fingerprints :
       /\ children' = children \cup {[index |-> index, outcome |-> Outcome(Card),
                                      fingerprint |-> fingerprint]}
       /\ runs' = [runs EXCEPT ![index] =
            [outcome |-> Outcome(Card), fingerprint |-> fingerprint,
             clean   |-> ~HasInfrastructureError(results, Executed),
             founded |-> \A n \in UNION {Foundation[q] : q \in Required} :
                           results[n] = "passed"]]
  /\ manifest' = [manifest EXCEPT !.children = children', !.errors = errors]
  /\ index' = index + 1
  /\ results' = NoResults /\ artifacts' = {}
  /\ ending' = Submitted
  /\ pc' = "next"
  /\ UNCHANGED <<errors, report, damaged, graph>>

\* The child raised: the loop goes on, nothing is written.
SampleRaises ==
  /\ \/ pc \in {"verify", "record"}
     \/ pc = "next" /\ index < N
  /\ errors < MaxErrors
  /\ errors' = errors + 1
  /\ index' = index + 1
  /\ results' = NoResults /\ artifacts' = {}
  /\ ending' = Submitted
  /\ pc' = "next"
  /\ UNCHANGED <<children, manifest, report, damaged, runs, graph>>

\* After the last child: the hash of a homogeneous set, and the manifest.
Found == {r.fingerprint : r \in children}

WriteManifest ==
  /\ pc = "next" /\ index = N
  /\ manifest' = [children |-> children, errors |-> errors,
                  hash |-> IF Cardinality(Found) = 1
                             THEN CHOOSE f \in Found : TRUE ELSE NoHash]
  /\ pc' = "report"
  /\ UNCHANGED <<index, ending, children, errors, report, damaged, runs, dagVars>>

WriteReport ==
  /\ pc = "report"
  /\ report' = Report(manifest)
  /\ children' = {} /\ errors' = 0
  /\ pc' = "rest"
  /\ UNCHANGED <<index, ending, manifest, damaged, runs, dagVars>>

\* What a killed process was writing: dump_json truncates the file in place.
WritingManifest == pc \in {"record", "rewrite"} \/ (pc = "next" /\ index = N)
WritingReport == pc = "report"

\* The process is killed: what it has in memory is lost.
Kill ==
  /\ pc # "rest"
  /\ \/ UNCHANGED <<manifest, report>>
     \/ WritingManifest /\ manifest' = Torn /\ UNCHANGED report
     \/ WritingReport /\ report' = NoReport /\ UNCHANGED manifest
  /\ pc' = "rest"
  /\ index' = N /\ children' = {} /\ errors' = 0
  /\ results' = NoResults /\ artifacts' = {}
  /\ ending' = Submitted
  /\ UNCHANGED <<damaged, runs, graph>>

-----------------------------------------------------------------------------
(* At rest, and regenerate_sample_report.                                  *)

Damage ==
  /\ pc = "rest"
  /\ Cardinality(damaged) < MaxDamages
  /\ \E r \in manifest.children : damaged' = damaged \cup {r.index}
  /\ UNCHANGED <<pc, index, ending, children, errors, manifest, report, runs, dagVars>>

\* replay_run of the frozen children; one that cannot be replayed is dropped.
Replayable(refs) == {r \in refs : r.index \notin damaged}

Regenerate ==
  /\ pc = "rest" /\ manifest # Torn
  /\ children' = Replayable(manifest.children)
  /\ errors' = manifest.errors + Cardinality(manifest.children \ children')
  /\ pc' = "rewrite"
  /\ UNCHANGED <<index, ending, manifest, report, damaged, runs, dagVars>>

RewriteManifest ==
  /\ pc = "rewrite"
  /\ manifest' = [manifest EXCEPT !.children = children, !.errors = errors]
  /\ pc' = "report"
  /\ UNCHANGED <<index, ending, children, errors, report, damaged, runs, dagVars>>

Next ==
  \/ EpisodeEnds \/ NotVerified \/ VerifyNode \/ VerificationEnds
  \/ RecordSample \/ SampleRaises \/ WriteManifest \/ WriteReport
  \/ Kill \/ Damage \/ Regenerate \/ RewriteManifest

Spec == Init /\ [][Next]_vars

-----------------------------------------------------------------------------
(* Properties.                                                             *)

Valid(k) == report.entries[k] # <<>>

\* A resolved sample is verified from the ground up: no result its required
\* nodes rest on was skipped, failed or in error.  (core/verifier_dag.py: an
\* upstream node that did not pass; core/scoring.py)
ResolvedMeansVerified ==
  \A s \in Samples : runs[s].outcome = "resolved" => runs[s].founded

\* A valid value for k is the fraction of the k-element subsets of the planned
\* samples in which some sample is resolved.  (core/sampling.py:
\* compute_pass_at_k, at its limits)
PassAtKIsExact ==
  \A k \in RequestedK : Valid(k) =>
    LET resolved == {s \in Samples : runs[s].outcome = "resolved"}
        draws    == kSubset(k, Samples)
        lucky    == {d \in draws : d \cap resolved # {}}
    IN  report.entries[k][1] * Cardinality(draws)
          = report.entries[k][2] * Cardinality(lucky)

\* A report has values only for a whole set: every planned sample has a verdict
\* on its candidate, all in one configuration.  (core/sampling.py:
\* build_pass_at_k_report after errors, kills and lost children)
ValuesAreOfWholeSets ==
  (\E k \in RequestedK : Valid(k)) =>
    /\ \A s \in Samples : runs[s].outcome \in Verdicts
    /\ Cardinality({runs[s].fingerprint : s \in Samples}) = 1

\* A report never contradicts an earlier one: what was valid keeps its value or
\* becomes invalid.  (core/sampling.py: regenerate_sample_report)
ReportsAgree ==
  [][\A k \in RequestedK : Valid(k) /\ Valid(k)' =>
       report'.entries[k] = report.entries[k]]_vars

\* No error of a sample's verification is counted as a verdict: a report has
\* values only when no result of any sample was an error.  (docs/verilog_eval.md:
\* "no infrastructure result is present"; core/scoring.py looks at the required
\* nodes only, which the integrity check of the orchestrator is not)
NoInfrastructureResultIsCanonical ==
  (\E k \in RequestedK : Valid(k)) => \A s \in Samples : runs[s].clean
=============================================================================
