--------------------- MODULE RepositoryToolBrokerProofs ---------------------
(***************************************************************************)
(* For every limit, every backlog and either kind of feedback contract: the *)
(* broker accepts finish only on current evidence, and the candidate stays  *)
(* as it was.  The inductive invariant adds to FinishRestsOnCurrentEvidence *)
(* what the flags mean while no call is in hand, and what is still missing  *)
(* from them while one is (EvidenceIsCurrent, with InHandIsKnown).  Three   *)
(* more inductive invariants follow, each with what the last one leaves     *)
(* open: what the broker counts, what the environment's mirror says when    *)
(* the orchestrator submits and what is handed over, and which repairs are  *)
(* credited; then the refinement of CandidateEvidence.                      *)
(***************************************************************************)
EXTENDS RepositoryToolBroker, TLAPS

EvidenceInv == EvidenceIsCurrent /\ FinishRestsOnCurrentEvidence

-----------------------------------------------------------------------------
(* Finalizing a call keeps the shape of the counters, the evidence flags   *)
(* and the failures a tool caused.                                         *)
LEMMA FinalizedCounters ==
  ASSUME LimitsAssumption, NEW b \in Counters
  PROVE  /\ Finalized(b) \in Counters
         /\ Finalized(b).patchApplied = b.patchApplied
         /\ Finalized(b).compilePassed = b.compilePassed
         /\ Finalized(b).diffObserved = b.diffObserved
         /\ Finalized(b).finished = b.finished
         /\ Finalized(b).policy = b.policy
         /\ Finalized(b).infrastructure = b.infrastructure
<1> DEFINE consecutive == IF b.rejected THEN b.consecutive + 1 ELSE 0
           limit == IF b.limit # "none" \/ b.finished THEN b.limit
                    ELSE IF consecutive >= MaxRejected THEN "rejections"
                    ELSE IF b.calls >= MaxToolCalls THEN "calls"
                    ELSE "none"
<1>1. consecutive \in Nat
  BY DEF Counters
<1>2. limit \in {"none", "patches", "rejections", "calls"}
  <2>1. b.limit \in {"none", "patches", "rejections", "calls"}
    BY DEF Counters
  <2> HIDE DEF consecutive
  <2>2. QED BY <2>1
<1>3. Finalized(b) = [b EXCEPT !.consecutive = consecutive, !.rejected = FALSE, !.limit = limit]
  BY DEF Finalized
<1> HIDE DEF consecutive, limit
<1> DEFINE z == [b EXCEPT !.consecutive = consecutive, !.rejected = FALSE, !.limit = limit]
<1>4. z \in Counters
  BY <1>1, <1>2 DEF Counters
<1>5. /\ z.patchApplied = b.patchApplied /\ z.compilePassed = b.compilePassed
      /\ z.diffObserved = b.diffObserved /\ z.finished = b.finished
      /\ z.policy = b.policy /\ z.infrastructure = b.infrastructure
  BY DEF Counters
<1> HIDE DEF z
<1>6. Finalized(b) = z
  BY <1>3 DEF z
<1>7. QED BY <1>4, <1>5, <1>6

(* So does recording a result.                                             *)
LEMMA RecordedCounters ==
  ASSUME broker \in Counters, serve \in Hand
  PROVE  Recorded \in Counters
<1>1. PatchRecorded \in Counters
  <2> DEFINE pending == broker.repairPending \/ broker.testFailed
  <2>1. pending \in BOOLEAN
    OBVIOUS
  <2>2. PatchRecorded =
          [broker EXCEPT !.patchApplied = TRUE, !.compilePassed = FALSE, !.diffObserved = FALSE,
                         !.repairPending = pending, !.testFailed = FALSE]
    BY DEF PatchRecorded, Counters
  <2> HIDE DEF pending
  <2> DEFINE b1 == [broker EXCEPT !.patchApplied = TRUE, !.compilePassed = FALSE]
             b2 == [b1 EXCEPT !.diffObserved = FALSE, !.repairPending = pending]
  <2>3. b1 \in Counters
    BY DEF Counters
  <2>4. PatchRecorded = [b2 EXCEPT !.testFailed = FALSE]
    BY <2>2
  <2> HIDE DEF b1
  <2>5. b2 \in Counters
    BY <2>1, <2>3 DEF Counters
  <2> HIDE DEF b2
  <2>6. QED
    BY <2>4, <2>5 DEF Counters
<1>2. ASSUME NEW outcome PROVE CompileRecorded(outcome) \in Counters
  <2> DEFINE passed == outcome \in {"ok", "unclean"}
             failed == broker.testFailed \/ outcome = "failed"
             repaired == broker.repaired \/ (broker.repairPending /\ outcome \in {"ok", "unclean"})
             infra == broker.infrastructure \/ outcome \in {"infrastructure", "unclean"}
  <2>1. passed \in BOOLEAN /\ failed \in BOOLEAN /\ repaired \in BOOLEAN /\ infra \in BOOLEAN
    OBVIOUS
  <2>2. CompileRecorded(outcome) =
          [broker EXCEPT !.compilePassed = passed, !.testFailed = failed, !.repaired = repaired,
                         !.repairPending = FALSE, !.infrastructure = infra]
    BY DEF CompileRecorded
  <2> HIDE DEF passed, failed, repaired, infra
  <2> DEFINE b1 == [broker EXCEPT !.compilePassed = passed, !.testFailed = failed]
             b2 == [b1 EXCEPT !.repaired = repaired, !.repairPending = FALSE]
  <2>3. b1 \in Counters
    BY <2>1 DEF Counters
  <2>4. CompileRecorded(outcome) = [b2 EXCEPT !.infrastructure = infra]
    BY <2>2
  <2> HIDE DEF b1
  <2>5. b2 \in Counters
    BY <2>1, <2>3 DEF Counters
  <2> HIDE DEF b2
  <2>6. QED
    BY <2>1, <2>4, <2>5 DEF Counters
<1>3. /\ [broker EXCEPT !.policy = TRUE] \in Counters
      /\ [broker EXCEPT !.infrastructure = TRUE] \in Counters
      /\ [broker EXCEPT !.rejected = TRUE] \in Counters
      /\ [broker EXCEPT !.diffObserved = TRUE] \in Counters
  BY DEF Counters
<1>4. QED BY <1>1, <1>2, <1>3 DEF Recorded

-----------------------------------------------------------------------------
(* Types *)

LEMMA TypeInit ==
  ASSUME LimitsAssumption, Init PROVE TypeOK
<1>1. process \in ProcessState /\ backlog \in Nat
  BY DEF Init, ProcessState
<1>2. serve \in Hand
  BY DEF Init, Hand, Idle, Outcomes
<1>3. broker \in Counters
  BY DEF Init, Counters
<1>4. env \in Flags /\ feedback \in Feedback
  BY DEF Init, Flags, Feedback, None
<1>5. workspace \in Workspace /\ main \in Decisions /\ history \in History
  BY DEF Init, Workspace, Decisions, History, None
<1>6. QED BY <1>1, <1>2, <1>3, <1>4, <1>5 DEF Init, TypeOK

LEMMA TypeIdle == /\ Idle \in Hand
                  /\ [Idle EXCEPT !.at = "ended"] \in Hand
                  /\ \A tool \in Tools : [Idle EXCEPT !.at = "admit", !.tool = tool] \in Hand
  BY DEF Idle, Hand, Outcomes

LEMMA TypeAnswered ==
  ASSUME process \in ProcessState
  PROVE  [process EXCEPT !.answered = Answered] \in ProcessState
  BY DEF ProcessState, Answered

(* A tool leaves its outcome in the thread's hand.                         *)
LEMMA TypeReturn ==
  ASSUME serve \in Hand, NEW outcome \in Outcomes, NEW at \in {"mirror", "record", "finalize"},
         Return(outcome, at)
  PROVE  serve' \in Hand
  BY DEF Return, Hand

LEMMA TypeExecute ==
  ASSUME TypeOK, Execute PROVE TypeOK'
<1> USE DEF Outcomes
<1>1. ASSUME NEW kind \in {"write", "delete"},
             NEW outcome \in {"ok", "rejected", "denied", "crashed"},
             NEW changed \in BOOLEAN, Patch(kind, outcome, changed)
      PROVE  TypeOK'
  <2>1. workspace' \in Workspace
    BY <1>1 DEF Patch, TypeOK, Workspace
  <2>2. QED BY <1>1, <2>1, TypeReturn DEF Patch, TypeOK
<1>2. ASSUME NEW outcome \in {"ok", "rejected", "denied", "crashed"}, InspectDiff(outcome)
      PROVE  TypeOK'
  <2>1. history' \in History
    BY <1>2 DEF InspectDiff, TypeOK, History, Workspace
  <2>2. QED BY <1>2, <2>1, TypeReturn DEF InspectDiff, TypeOK
<1>3. ASSUME NEW outcome \in {"ok", "rejected", "denied", "crashed"}, Explore(outcome)
      PROVE  TypeOK'
  BY <1>3, TypeReturn DEF Explore, TypeOK
<1>4. ASSUME NEW outcome \in {"ok", "failed", "infrastructure", "unclean"}, Compile(outcome)
      PROVE  TypeOK'
  <2>1. feedback' \in Feedback /\ history' \in History
    BY <1>4 DEF Compile, TypeOK, History, Workspace, Feedback, None
  <2>2. QED BY <1>4, <2>1, TypeReturn DEF Compile, TypeOK
<1>5. ASSUME NEW outcome \in {"ok", "failed"}, PpaWithoutSynthesis(outcome)
      PROVE  TypeOK'
  BY <1>5, TypeReturn DEF PpaWithoutSynthesis, TypeOK
<1>6. ASSUME NEW outcome \in {"ok", "failed", "infrastructure"}, NEW dispatched \in BOOLEAN,
             PpaSynthesis(outcome, dispatched)
      PROVE  TypeOK'
  <2>1. feedback' \in Feedback
    <3> DEFINE executions == feedback.executions + IF dispatched THEN 1 ELSE 0
               cache == IF outcome = "infrastructure" THEN feedback.cache
                        ELSE feedback.cache \cup {workspace.revision}
    <3>1. feedback \in Feedback /\ workspace.revision \in Nat
      BY DEF TypeOK, Workspace
    <3>2. executions \in Nat /\ cache \in SUBSET Nat
      BY <3>1 DEF Feedback
    <3>3. feedback' = [feedback EXCEPT !.executions = executions, !.cache = cache]
      BY <1>6 DEF PpaSynthesis
    <3> HIDE DEF executions, cache
    <3>4. QED BY <3>1, <3>2, <3>3 DEF Feedback
  <2>2. QED BY <1>6, <2>1, TypeReturn DEF PpaSynthesis, TypeOK
<1>7. ASSUME NEW outcome \in {"rejected", "denied", "crashed"}, TestWithoutResult(outcome)
      PROVE  TypeOK'
  BY <1>7, TypeReturn DEF TestWithoutResult, TypeOK
<1>8. CASE Finish
  <2>1. broker' \in Counters /\ history' \in History
    BY <1>8 DEF Finish, TypeOK, Counters, History, Workspace
  <2>2. QED BY <1>8, <2>1, TypeReturn DEF Finish, TypeOK
<1>9. QED BY <1>1, <1>2, <1>3, <1>4, <1>5, <1>6, <1>7, <1>8 DEF Execute

LEMMA TypeServe ==
  ASSUME LimitsAssumption, TypeOK, Serve PROVE TypeOK'
<1>1. ASSUME NEW tool \in Tools, Accept(tool) PROVE TypeOK'
  <2>1. [Idle EXCEPT !.at = "admit", !.tool = tool] \in Hand
    BY TypeIdle
  <2>2. serve' \in Hand
    BY <1>1, <2>1 DEF Accept
  <2>3. backlog' \in Nat
    BY <1>1 DEF Accept, TypeOK
  <2>4. QED BY <1>1, <2>2, <2>3 DEF TypeOK, Accept
<1>2. CASE ThreadEnds
  BY <1>2, TypeIdle DEF TypeOK, ThreadEnds
<1>3. CASE TurnAway
  BY <1>3, TypeIdle DEF TypeOK, TurnAway
<1>4. CASE ExceedPatchLimit
  <2> DEFINE b == [broker EXCEPT !.calls = @ + 1, !.rejected = TRUE, !.limit = "patches"]
  <2>1. b \in Counters
    <3>1. broker \in Counters
      BY DEF TypeOK
    <3>2. broker.calls + 1 \in Nat
      BY <3>1 DEF Counters
    <3>3. b = [broker EXCEPT !.calls = broker.calls + 1, !.rejected = TRUE, !.limit = "patches"]
      OBVIOUS
    <3> HIDE DEF b
    <3>4. QED BY <3>1, <3>2, <3>3 DEF Counters
  <2>2. broker' = Finalized(b)
    BY <1>4 DEF ExceedPatchLimit
  <2> HIDE DEF b
  <2>3. QED BY <1>4, <2>1, <2>2, FinalizedCounters, TypeIdle, TypeAnswered DEF TypeOK, ExceedPatchLimit
<1>5. ASSUME NEW malformed \in BOOLEAN, Admit(malformed) PROVE TypeOK'
  <2>1. broker' \in Counters
    <3>1. broker \in Counters
      BY DEF TypeOK
    <3>2. PICK rejected \in BOOLEAN, explored \in Nat, patched \in Nat :
            broker' = [broker EXCEPT !.calls = @ + 1, !.rejected = rejected,
                                     !.exploratory = @ + explored, !.patches = @ + patched]
      BY <1>5 DEF Admit
    <3>3. broker.calls + 1 \in Nat
      BY <3>1 DEF Counters
    <3>4. broker.exploratory + explored \in Nat /\ broker.patches + patched \in Nat
      BY <3>1 DEF Counters
    <3>5. QED BY <3>1, <3>2, <3>3, <3>4 DEF Counters
  <2>2. serve' \in Hand
    BY <1>5 DEF Admit, TypeOK, Hand
  <2>3. QED BY <1>5, <2>1, <2>2 DEF Admit, TypeOK
<1>6. CASE Execute
  BY <1>6, TypeExecute
<1>7. ASSUME NEW valid \in BOOLEAN, Mirror(valid) PROVE TypeOK'
  <2>1. env' \in Flags
    BY <1>7 DEF Mirror, TypeOK, Flags
  <2>2. (IF valid THEN serve.outcome ELSE "denied") \in Outcomes
    BY DEF TypeOK, Hand, Outcomes
  <2>3. serve' \in Hand
    BY <1>7, <2>2, TypeReturn DEF Mirror, TypeOK
  <2>4. QED BY <1>7, <2>1, <2>3 DEF Mirror, TypeOK
<1>8. CASE Record
  <2>1. serve' \in Hand
    BY <1>8 DEF Record, TypeOK, Hand
  <2>2. QED BY <1>8, <2>1, RecordedCounters DEF TypeOK, Record
<1>9. CASE Finalize
  BY <1>9, FinalizedCounters, TypeIdle, TypeAnswered DEF TypeOK, Finalize
<1>10. QED
  BY <1>1, <1>2, <1>3, <1>4, <1>5, <1>6, <1>7, <1>8, <1>9 DEF Serve

LEMMA TypeOrchestrate ==
  ASSUME LimitsAssumption, TypeOK, Orchestrate PROVE TypeOK'
<1>1. CASE Stop
  <2>1. main' \in Decisions
    BY <1>1 DEF Stop, TypeOK, Decisions
  <2>2. QED BY <1>1, <2>1 DEF Stop, TypeOK
<1>2. CASE Join
  <2>1. main' \in Decisions
    BY <1>2 DEF Join, TypeOK, Decisions
  <2>2. QED BY <1>2, <2>1 DEF Join, TypeOK
<1>3. ASSUME NEW verdict \in Verdicts, Classify(verdict) PROVE TypeOK'
  <2>1. main' = [main EXCEPT !.verdict = verdict, !.at = "step"]
    BY <1>3 DEF Classify
  <2>2. main' \in Decisions
    BY <2>1 DEF TypeOK, Decisions
  <2>3. QED BY <1>3, <2>2 DEF Classify, TypeOK
<1>4. ASSUME NEW exhausted \in BOOLEAN, NEW unsafe \in BOOLEAN, Step(exhausted, unsafe)
      PROVE  TypeOK'
  <2>1. main' \in Decisions
    BY <1>4 DEF Step, TypeOK, Decisions
  <2>2. QED BY <1>4, <2>1 DEF Step, TypeOK
<1>5. ASSUME NEW valid \in BOOLEAN, Validate(valid) PROVE TypeOK'
  <2>1. main' \in Decisions
    BY <1>5 DEF Validate, TypeOK, Decisions
  <2>2. QED BY <1>5, <2>1 DEF Validate, TypeOK
<1>6. CASE Freeze
  <2>1. main' \in Decisions
    BY <1>6 DEF Freeze, TypeOK, Decisions
  <2>2. workspace' \in Workspace
    BY <1>6 DEF Freeze, TypeOK, Workspace
  <2>3. QED BY <1>6, <2>1, <2>2 DEF Freeze, TypeOK
<1>7. CASE Quarantine
  <2>1. Quarantined \in Nat
    BY DEF Quarantined, LimitsAssumption
  <2>2. main' \in Decisions
    BY <1>7, <2>1 DEF Quarantine, TypeOK, Decisions
  <2>3. QED BY <1>7, <2>2 DEF Quarantine, TypeOK
<1>8. CASE WriteDiff
  <2>1. main' \in Decisions
    BY <1>8 DEF WriteDiff, TypeOK, Decisions, Workspace
  <2>2. QED BY <1>8, <2>1 DEF WriteDiff, TypeOK
<1>9. CASE ExportCandidate
  <2>1. main' \in Decisions
    BY <1>9 DEF ExportCandidate, TypeOK, Decisions, Workspace
  <2>2. QED BY <1>9, <2>1 DEF ExportCandidate, TypeOK
<1>10. QED
  BY <1>1, <1>2, <1>3, <1>4, <1>5, <1>6, <1>7, <1>8, <1>9 DEF Orchestrate

(* TypeOK is inductive as it stands.                                       *)
THEOREM BrokerTypes == Spec => []TypeOK
<1>1. Init => TypeOK
  BY LimitsAssumption, TypeInit
<1>2. TypeOK /\ [Next]_vars => TypeOK'
  <2> SUFFICES ASSUME TypeOK, [Next]_vars PROVE TypeOK'
    OBVIOUS
  <2>1. CASE Request
    BY <2>1 DEF TypeOK, Request
  <2>2. CASE EnterReserve
    BY <2>2 DEF TypeOK, EnterReserve
  <2>3. ASSUME NEW status \in Statuses, ProcessEnds(status) PROVE TypeOK'
    <3>1. process' \in ProcessState
      BY <2>3 DEF ProcessEnds, TypeOK, ProcessState
    <3>2. main' \in Decisions
      BY <2>3 DEF ProcessEnds, TypeOK, Decisions
    <3>3. QED BY <2>3, <3>1, <3>2 DEF ProcessEnds, TypeOK
  <2>4. CASE Serve
    BY <2>4, LimitsAssumption, TypeServe
  <2>5. CASE Orchestrate
    BY <2>5, LimitsAssumption, TypeOrchestrate
  <2>6. CASE UNCHANGED vars
    BY <2>6 DEF TypeOK, vars
  <2>7. QED BY <2>1, <2>2, <2>3, <2>4, <2>5, <2>6 DEF Next
<1>3. QED BY <1>1, <1>2, PTL DEF Spec

-----------------------------------------------------------------------------
(* Evidence *)

(* What the argument reads of the workspace is its revision.               *)
LEMMA EvidenceUntouched ==
  ASSUME EvidenceInv,
         UNCHANGED <<serve, broker, feedback, history>>,
         workspace'.revision = workspace.revision
  PROVE  EvidenceInv'
  BY DEF EvidenceInv, EvidenceIsCurrent, InHandIsKnown, FinishRestsOnCurrentEvidence, Broken,
         StateFailure

(* The counters may change as long as flags and failures do not, and the   *)
(* thread may go on to a place where it has neither a tool nor a result.   *)
LEMMA EvidenceBetweenCalls ==
  ASSUME EvidenceInv,
         UNCHANGED <<feedback, workspace, history>>,
         serve.at \notin {"mirror", "record"},
         serve'.at \in {"accept", "admit", "finalize", "ended"},
         serve'.at = "admit" => serve'.tool \in Tools,
         broker'.patchApplied = broker.patchApplied,
         broker'.compilePassed = broker.compilePassed,
         broker'.diffObserved = broker.diffObserved,
         broker'.finished = broker.finished,
         broker'.policy = broker.policy,
         broker'.infrastructure = broker.infrastructure
  PROVE  EvidenceInv'
  BY DEF EvidenceInv, EvidenceIsCurrent, InHandIsKnown, FinishRestsOnCurrentEvidence, Broken

(* A call is let through to its tool only in a state that allows it.       *)
LEMMA EvidenceAdmit ==
  ASSUME TypeOK, EvidenceInv, NEW malformed \in BOOLEAN, Admit(malformed)
  PROVE  EvidenceInv'
<1>1. /\ broker'.patchApplied = broker.patchApplied
      /\ broker'.compilePassed = broker.compilePassed
      /\ broker'.diffObserved = broker.diffObserved
      /\ broker'.finished = broker.finished
      /\ broker'.policy = broker.policy
      /\ broker'.infrastructure = broker.infrastructure
  BY DEF Admit, TypeOK, Counters
<1>2. serve'.tool = serve.tool /\ serve'.at \in {"execute", "finalize"}
  BY DEF Admit, TypeOK, Hand
<1>3. CASE serve'.at = "finalize"
  BY <1>1, <1>3, EvidenceBetweenCalls DEF Admit
<1>4. CASE serve'.at = "execute"
  <2>1. ~StateFailure(serve.tool, broker, broker.finished) /\ ~Broken
    BY <1>4 DEF Admit, Failed, Broken, TypeOK, Hand
  <2>2. ~broker.finished
    BY <2>1 DEF StateFailure
  <2>3. ~StateFailure(serve.tool, broker, broker.finished)'
    BY <1>1, <1>2, <2>1 DEF StateFailure
  <2>4. EvidenceIsCurrent'
    BY <1>1, <1>2, <1>4, <2>1, <2>2, <2>3
       DEF Admit, EvidenceInv, EvidenceIsCurrent, InHandIsKnown, Broken
  <2>5. QED BY <1>1, <2>2, <2>4 DEF EvidenceInv, FinishRestsOnCurrentEvidence
<1>5. QED BY <1>2, <1>3, <1>4

(* A tool makes stale only what its own result is about to correct.        *)
LEMMA EvidenceExecute ==
  ASSUME TypeOK, EvidenceInv, Execute
  PROVE  EvidenceInv'
<1>1. /\ serve.at = "execute" /\ serve.tool \in Tools
      /\ ~Broken /\ ~broker.finished
      /\ broker.compilePassed => feedback.compiled = workspace.revision
      /\ broker.diffObserved => history.inspected = workspace.revision
      /\ broker.patchApplied => workspace.revision > 1
      /\ ~StateFailure(serve.tool, broker, broker.finished)
  <2>1. serve.at = "execute"
    BY DEF Execute, Patch, InspectDiff, Explore, Compile, PpaWithoutSynthesis, PpaSynthesis,
           TestWithoutResult, Finish
  <2>2. QED BY <2>1 DEF EvidenceInv, EvidenceIsCurrent
<1>2. workspace.revision \in Nat \ {0}
  BY DEF TypeOK, Workspace
<1>3. ASSUME NEW outcome, NEW at, Return(outcome, at)
      PROVE  serve'.at = at /\ serve'.outcome = outcome /\ serve'.tool = serve.tool
  BY <1>3 DEF Return, TypeOK, Hand
<1>4. ASSUME NEW kind \in {"write", "delete"},
             NEW outcome \in {"ok", "rejected", "denied", "crashed"},
             NEW changed \in BOOLEAN, Patch(kind, outcome, changed)
      PROVE  EvidenceInv'
  <2>1. serve'.at = "mirror" /\ serve'.outcome = outcome /\ serve'.tool = "patch"
    BY <1>4, <1>3 DEF Patch
  <2>2. workspace'.revision = workspace.revision + IF changed THEN 1 ELSE 0
    BY <1>4 DEF Patch, TypeOK, Workspace
  <2>3. /\ outcome = "ok" => workspace'.revision > 1
        /\ outcome = "rejected" => workspace'.revision = workspace.revision
        /\ broker.patchApplied => workspace'.revision > 1
    BY <1>1, <1>2, <1>4, <2>2 DEF Patch
  <2>4. UNCHANGED <<broker, feedback, history>>
    BY <1>4 DEF Patch
  <2>5. InHandIsKnown'
    BY <1>1, <2>1, <2>3, <2>4 DEF InHandIsKnown, Tools
  <2>6. QED
    BY <1>1, <2>1, <2>4, <2>5
       DEF EvidenceInv, EvidenceIsCurrent, FinishRestsOnCurrentEvidence, Broken
<1>5. ASSUME NEW outcome \in {"ok", "rejected", "denied", "crashed"}, InspectDiff(outcome)
      PROVE  EvidenceInv'
  <2>1. serve'.at = "mirror" /\ serve'.outcome = outcome /\ serve'.tool = "diff"
    BY <1>5, <1>3 DEF InspectDiff
  <2>2. /\ history'.inspected = IF outcome = "ok" THEN workspace.revision ELSE history.inspected
        /\ history'.finished = history.finished
    BY <1>5 DEF InspectDiff, TypeOK, History
  <2>3. UNCHANGED <<broker, feedback, workspace>>
    BY <1>5 DEF InspectDiff
  <2>4. InHandIsKnown'
    BY <1>1, <2>1, <2>2, <2>3 DEF InHandIsKnown, Tools
  <2>5. QED
    BY <1>1, <2>1, <2>2, <2>3, <2>4
       DEF EvidenceInv, EvidenceIsCurrent, FinishRestsOnCurrentEvidence, Broken
<1>6. ASSUME NEW outcome \in {"ok", "rejected", "denied", "crashed"}, Explore(outcome)
      PROVE  EvidenceInv'
  <2>1. serve'.at = "record" /\ serve'.outcome = outcome /\ serve'.tool = "explore"
    BY <1>6, <1>3 DEF Explore
  <2>2. UNCHANGED <<broker, feedback, workspace, history>>
    BY <1>6 DEF Explore
  <2>3. InHandIsKnown'
    BY <1>1, <2>1, <2>2 DEF InHandIsKnown, Tools
  <2>4. QED
    BY <1>1, <2>1, <2>2, <2>3
       DEF EvidenceInv, EvidenceIsCurrent, FinishRestsOnCurrentEvidence, Broken
<1>7. ASSUME NEW outcome \in {"ok", "failed", "infrastructure", "unclean"}, Compile(outcome)
      PROVE  EvidenceInv'
  <2>1. serve'.at = "mirror" /\ serve'.outcome = outcome /\ serve'.tool = "compile"
    BY <1>7, <1>3 DEF Compile
  <2>2. /\ outcome = "ok" => feedback'.compiled = workspace.revision
        /\ history'.inspected = history.inspected
    BY <1>7 DEF Compile, TypeOK, History, Feedback
  <2>3. UNCHANGED <<broker, workspace>>
    BY <1>7 DEF Compile
  <2>4. InHandIsKnown'
    BY <1>1, <2>1, <2>2, <2>3 DEF InHandIsKnown, Tools
  <2>5. QED
    BY <1>1, <2>1, <2>3, <2>4
       DEF EvidenceInv, EvidenceIsCurrent, FinishRestsOnCurrentEvidence, Broken
<1>8. ASSUME NEW outcome \in {"ok", "failed", "infrastructure"},
             Return(outcome, "mirror"), serve.tool = "ppa",
             UNCHANGED <<broker, workspace, history>>, feedback'.compiled = feedback.compiled
      PROVE  EvidenceInv'
  <2>1. serve'.at = "mirror" /\ serve'.outcome = outcome /\ serve'.tool = "ppa"
    BY <1>8, <1>3
  <2>2. InHandIsKnown'
    BY <1>1, <1>8, <2>1 DEF InHandIsKnown, Tools
  <2>3. QED
    BY <1>1, <1>8, <2>1, <2>2
       DEF EvidenceInv, EvidenceIsCurrent, FinishRestsOnCurrentEvidence, Broken
<1>9. ASSUME NEW outcome \in {"ok", "failed"}, PpaWithoutSynthesis(outcome)
      PROVE  EvidenceInv'
  BY <1>8, <1>9 DEF PpaWithoutSynthesis
<1>10. ASSUME NEW outcome \in {"ok", "failed", "infrastructure"}, NEW dispatched \in BOOLEAN,
              PpaSynthesis(outcome, dispatched)
       PROVE  EvidenceInv'
  <2>1. feedback'.compiled = feedback.compiled
    BY <1>10 DEF PpaSynthesis, TypeOK, Feedback
  <2>2. QED BY <1>8, <1>10, <2>1 DEF PpaSynthesis
<1>11. ASSUME NEW outcome \in {"rejected", "denied", "crashed"}, TestWithoutResult(outcome)
       PROVE  EvidenceInv'
  <2>1. serve'.at = "record" /\ serve'.outcome = outcome /\ serve'.tool \in Tests
    BY <1>11, <1>3 DEF TestWithoutResult
  <2>2. UNCHANGED <<broker, feedback, workspace, history>>
    BY <1>11 DEF TestWithoutResult
  <2>3. InHandIsKnown'
    BY <1>1, <2>1, <2>2 DEF InHandIsKnown, Tools, Tests
  <2>4. QED
    BY <1>1, <2>1, <2>2, <2>3
       DEF EvidenceInv, EvidenceIsCurrent, FinishRestsOnCurrentEvidence, Broken
<1>12. CASE Finish
  <2>1. serve'.at = "finalize" /\ serve.tool = "finish"
    BY <1>12, <1>3 DEF Finish
  <2>2. /\ broker.patchApplied /\ broker.diffObserved
        /\ CompileRequired => broker.compilePassed
    BY <1>1, <2>1 DEF StateFailure
  <2>3. history'.finished = workspace.revision /\ history'.inspected = history.inspected
    BY <1>12 DEF Finish, TypeOK, History
  <2>4. /\ broker'.patchApplied = broker.patchApplied
        /\ broker'.compilePassed = broker.compilePassed
        /\ broker'.diffObserved = broker.diffObserved
        /\ broker'.policy = broker.policy
        /\ broker'.infrastructure = broker.infrastructure
    BY <1>12 DEF Finish, TypeOK, Counters
  <2>5. UNCHANGED <<feedback, workspace>>
    BY <1>12 DEF Finish
  <2>6. FinishRestsOnCurrentEvidence'
    BY <1>1, <2>2, <2>3, <2>5 DEF FinishRestsOnCurrentEvidence
  <2>7. QED
    BY <1>1, <2>1, <2>3, <2>4, <2>5, <2>6
       DEF EvidenceInv, EvidenceIsCurrent, InHandIsKnown, Broken
<1>13. QED
  BY <1>4, <1>5, <1>6, <1>7, <1>9, <1>10, <1>11, <1>12 DEF Execute

(* A failed validation turns a test's result into a policy failure.        *)
LEMMA EvidenceMirror ==
  ASSUME TypeOK, EvidenceInv, NEW valid \in BOOLEAN, Mirror(valid)
  PROVE  EvidenceInv'
<1>1. /\ serve.at = "mirror" /\ serve'.at = "record" /\ serve'.tool = serve.tool
      /\ serve'.outcome = IF valid THEN serve.outcome ELSE "denied"
      /\ valid \/ serve.tool \in Tests
  BY DEF Mirror, Return, TypeOK, Hand
<1>2. UNCHANGED <<broker, feedback, workspace, history>>
  BY DEF Mirror
<1>3. InHandIsKnown
  BY DEF EvidenceInv, EvidenceIsCurrent
<1>4. InHandIsKnown'
  <2>1. CASE valid
    BY <1>1, <1>2, <1>3, <2>1 DEF InHandIsKnown
  <2>2. CASE ~valid
    BY <1>1, <1>2, <1>3, <2>2 DEF InHandIsKnown, Tests
  <2>3. QED BY <2>1, <2>2
<1>5. QED
  BY <1>1, <1>2, <1>4 DEF EvidenceInv, EvidenceIsCurrent, FinishRestsOnCurrentEvidence, Broken

(* Recording brings the flags up to date, or closes the broker.            *)
LEMMA EvidenceRecord ==
  ASSUME TypeOK, EvidenceInv, Record
  PROVE  EvidenceInv'
<1>1. serve.at = "record" /\ serve'.at = "finalize" /\ broker' = Recorded
  BY DEF Record, TypeOK, Hand
<1>2. UNCHANGED <<feedback, workspace, history>>
  BY DEF Record
<1>3. InHandIsKnown /\ ~broker.finished /\ broker \in Counters /\ serve \in Hand
  BY <1>1 DEF EvidenceInv, EvidenceIsCurrent, TypeOK
<1>4. ~broker'.finished
  BY <1>1, <1>3 DEF Recorded, PatchRecorded, CompileRecorded, Counters
<1>5. ASSUME ~Broken'
      PROVE  /\ broker'.compilePassed => feedback.compiled = workspace.revision
             /\ broker'.diffObserved => history.inspected = workspace.revision
             /\ broker'.patchApplied => workspace.revision > 1
  <2>1. CASE serve.outcome \in {"denied", "crashed"}
    BY <1>1, <1>3, <1>5, <2>1 DEF Recorded, Broken, Counters
  <2>2. CASE serve.outcome = "rejected"
    <3>1. broker' = [broker EXCEPT !.rejected = TRUE]
      BY <1>1, <2>2 DEF Recorded
    <3>2. QED BY <1>1, <1>3, <2>2, <3>1 DEF InHandIsKnown, Counters
  <2>3. CASE serve.outcome = "ok" /\ serve.tool = "patch"
    <3>1. broker' = PatchRecorded
      BY <1>1, <2>3 DEF Recorded
    <3>2. ~broker'.compilePassed /\ ~broker'.diffObserved
      BY <1>3, <3>1 DEF PatchRecorded, Counters
    <3>3. workspace.revision > 1
      BY <1>1, <1>3, <2>3 DEF InHandIsKnown
    <3>4. QED BY <3>2, <3>3
  <2>4. CASE serve.outcome = "ok" /\ serve.tool = "diff"
    <3>1. broker' = [broker EXCEPT !.diffObserved = TRUE]
      BY <1>1, <2>4 DEF Recorded
    <3>2. history.inspected = workspace.revision
      BY <1>1, <1>3, <2>4 DEF InHandIsKnown
    <3>3. QED BY <1>1, <1>3, <2>4, <3>1, <3>2 DEF InHandIsKnown, Counters
  <2>5. CASE serve.outcome \in {"ok", "failed", "infrastructure"} /\ serve.tool = "compile"
    <3>1. broker' = CompileRecorded(serve.outcome)
      BY <1>1, <2>5 DEF Recorded
    <3>2. /\ broker'.compilePassed = (serve.outcome = "ok")
          /\ broker'.diffObserved = broker.diffObserved
          /\ broker'.patchApplied = broker.patchApplied
      BY <1>3, <2>5, <3>1 DEF CompileRecorded, Counters
    <3>3. QED BY <1>1, <1>3, <2>5, <3>2 DEF InHandIsKnown
  <2>5b. CASE serve.outcome = "unclean"
    <3>1. CASE serve.tool = "compile"
      <4>1. broker' = CompileRecorded(serve.outcome)
        BY <1>1, <2>5b, <3>1 DEF Recorded
      <4>2. broker'.infrastructure
        BY <1>3, <2>5b, <4>1 DEF CompileRecorded, Counters
      <4>3. QED BY <1>5, <4>2 DEF Broken
    <3>2. CASE serve.tool # "compile"
      <4>1. broker' = broker
        BY <1>1, <2>5b, <3>2 DEF Recorded
      <4>2. QED BY <1>1, <1>3, <2>5b, <3>2, <4>1 DEF InHandIsKnown
    <3>3. QED BY <3>1, <3>2
  <2>6. CASE /\ serve.outcome \in {"ok", "failed", "infrastructure"}
             /\ serve.tool \in {"explore", "ppa", "finish"}
    <3>1. /\ broker'.compilePassed = broker.compilePassed
          /\ broker'.diffObserved = broker.diffObserved
          /\ broker'.patchApplied = broker.patchApplied
      BY <1>1, <1>3, <2>6 DEF Recorded, Counters
    <3>2. QED BY <1>1, <1>3, <2>6, <3>1 DEF InHandIsKnown
  <2>7. QED
    BY <1>1, <1>3, <2>1, <2>2, <2>3, <2>4, <2>5, <2>5b, <2>6 DEF InHandIsKnown, Hand, Outcomes, Tools
<1>6. QED
  BY <1>1, <1>2, <1>4, <1>5
     DEF EvidenceInv, EvidenceIsCurrent, InHandIsKnown, FinishRestsOnCurrentEvidence, Broken

LEMMA EvidenceServe ==
  ASSUME LimitsAssumption, TypeOK, EvidenceInv, Serve
  PROVE  EvidenceInv'
<1>1. ASSUME NEW tool \in Tools, Accept(tool) PROVE EvidenceInv'
  BY <1>1, EvidenceBetweenCalls DEF Accept, Idle
<1>2. CASE ThreadEnds
  BY <1>2, EvidenceBetweenCalls DEF ThreadEnds, Idle
<1>3. CASE TurnAway
  BY <1>3, EvidenceBetweenCalls DEF TurnAway, Idle
<1>4. CASE ExceedPatchLimit
  <2> DEFINE b == [broker EXCEPT !.calls = @ + 1, !.rejected = TRUE, !.limit = "patches"]
  <2>1. /\ b \in Counters
        /\ b.patchApplied = broker.patchApplied /\ b.compilePassed = broker.compilePassed
        /\ b.diffObserved = broker.diffObserved /\ b.finished = broker.finished
        /\ b.policy = broker.policy /\ b.infrastructure = broker.infrastructure
    <3>1. broker \in Counters
      BY DEF TypeOK
    <3>2. broker.calls + 1 \in Nat
      BY <3>1 DEF Counters
    <3>3. b = [broker EXCEPT !.calls = broker.calls + 1, !.rejected = TRUE, !.limit = "patches"]
      OBVIOUS
    <3> HIDE DEF b
    <3>4. QED BY <3>1, <3>2, <3>3 DEF Counters
  <2>2. broker' = Finalized(b)
    BY <1>4 DEF ExceedPatchLimit
  <2> HIDE DEF b
  <2>3. QED
    BY <1>4, <2>1, <2>2, FinalizedCounters, EvidenceBetweenCalls DEF ExceedPatchLimit, Idle
<1>5. ASSUME NEW malformed \in BOOLEAN, Admit(malformed) PROVE EvidenceInv'
  BY <1>5, EvidenceAdmit
<1>6. CASE Execute
  BY <1>6, EvidenceExecute
<1>7. ASSUME NEW valid \in BOOLEAN, Mirror(valid) PROVE EvidenceInv'
  BY <1>7, EvidenceMirror
<1>8. CASE Record
  BY <1>8, EvidenceRecord
<1>9. CASE Finalize
  BY <1>9, FinalizedCounters, EvidenceBetweenCalls DEF TypeOK, Finalize, Idle
<1>10. QED
  BY <1>1, <1>2, <1>3, <1>4, <1>5, <1>6, <1>7, <1>8, <1>9 DEF Serve

(* docs/rtl_agent_eval.md: a patch invalidates the evidence, and finish     *)
(* requires it to be current.  The invariant of the serving thread.        *)
THEOREM EvidenceInvariance == Spec => []EvidenceInv
<1>1. Init => EvidenceInv
  BY DEF Init, EvidenceInv, EvidenceIsCurrent, InHandIsKnown, FinishRestsOnCurrentEvidence, Broken,
         Idle
<1>2. TypeOK /\ EvidenceInv /\ [Next]_vars => EvidenceInv'
  <2> SUFFICES ASSUME TypeOK, EvidenceInv, [Next]_vars PROVE EvidenceInv'
    OBVIOUS
  <2>1. CASE Request
    BY <2>1, EvidenceUntouched DEF Request
  <2>2. CASE EnterReserve
    BY <2>2, EvidenceUntouched DEF EnterReserve
  <2>3. ASSUME NEW status \in Statuses, ProcessEnds(status) PROVE EvidenceInv'
    BY <2>3, EvidenceUntouched DEF ProcessEnds
  <2>4. CASE Serve
    BY <2>4, LimitsAssumption, EvidenceServe
  <2>5. CASE Orchestrate
    <3>1. UNCHANGED <<serve, broker, feedback, history>>
      BY <2>5 DEF Orchestrate, Stop, Join, Classify, Step, Validate, Freeze, Quarantine, WriteDiff,
                  ExportCandidate
    <3>2. workspace'.revision = workspace.revision
      BY <2>5 DEF Orchestrate, Stop, Join, Classify, Step, Validate, Freeze, Quarantine, WriteDiff,
                  ExportCandidate, TypeOK, Workspace
    <3>3. QED BY <3>1, <3>2, EvidenceUntouched
  <2>6. CASE UNCHANGED vars
    BY <2>6, EvidenceUntouched DEF vars
  <2>7. QED BY <2>1, <2>2, <2>3, <2>4, <2>5, <2>6 DEF Next
<1>3. QED BY <1>1, <1>2, BrokerTypes, PTL DEF Spec

(* An accepted finish rests on a diff, and where required a compile, of    *)
(* the revision that is in the workspace from then on.                     *)
THEOREM FinishOnCurrentEvidence == Spec => []FinishRestsOnCurrentEvidence
<1>1. EvidenceInv => FinishRestsOnCurrentEvidence
  BY DEF EvidenceInv
<1>2. QED BY <1>1, EvidenceInvariance, PTL

(* The broker's flag and the feedback controller's hash of the compiled    *)
(* candidate never disagree about a PPA run the broker lets through.       *)
THEOREM PpaGatesNeverDisagree == Spec => []PpaGatesAgree
<1>1. EvidenceInv => PpaGatesAgree
  BY DEF EvidenceInv, EvidenceIsCurrent, PpaGatesAgree, StateFailure
<1>2. QED BY <1>1, EvidenceInvariance, PTL

-----------------------------------------------------------------------------
(* What the broker counts and the main thread hands over.                  *)

InHand == serve.at \in {"execute", "mirror", "record", "finalize"}

\* The evidence flags of the broker, as the environment keeps its own.
FlagsOf(b) ==
  [patchApplied |-> b.patchApplied, compilePassed |-> b.compilePassed,
   diffObserved |-> b.diffObserved]

-----------------------------------------------------------------------------
(* A tool's return and a finalized call, seen from outside.                *)

(* Whatever the tool, executing a call leaves the orchestrator, the        *)
(* process and the mirror alone and hands its outcome on.                  *)
LEMMA ExecuteReturns ==
  ASSUME TypeOK, Execute
  PROVE  /\ serve.at = "execute" /\ serve'.at \in {"mirror", "record", "finalize"}
         /\ serve'.tool = serve.tool
         /\ UNCHANGED <<process, backlog, env, main, late, stopping>>
         /\ workspace'.revision >= workspace.revision
         /\ serve.tool # "finish" => broker' = broker /\ history'.finished = history.finished
         /\ serve.tool # "patch" => workspace' = workspace
<1>1. ASSUME NEW outcome, NEW at, Return(outcome, at)
      PROVE  serve'.at = at /\ serve'.tool = serve.tool
  BY <1>1 DEF Return, TypeOK, Hand
<1>2. workspace \in Workspace /\ history \in History /\ workspace.revision \in Nat
  BY DEF TypeOK, Workspace
<1>3. ASSUME NEW kind \in {"write", "delete"},
             NEW outcome \in {"ok", "rejected", "denied", "crashed"},
             NEW changed \in BOOLEAN, Patch(kind, outcome, changed)
      PROVE  workspace'.revision >= workspace.revision
  BY <1>2, <1>3 DEF Patch, Workspace
<1>4. ASSUME NEW outcome, InspectDiff(outcome)
      PROVE  history'.finished = history.finished
  BY <1>2, <1>4 DEF InspectDiff, History
<1>5. ASSUME NEW outcome, Compile(outcome)
      PROVE  history'.finished = history.finished
  BY <1>2, <1>5 DEF Compile, History
<1>6. /\ serve.at = "execute" /\ serve'.at \in {"mirror", "record", "finalize"}
      /\ serve'.tool = serve.tool
  BY <1>1 DEF Execute, Patch, InspectDiff, Explore, Compile, PpaWithoutSynthesis, PpaSynthesis,
              TestWithoutResult, Finish
<1>7. UNCHANGED <<process, backlog, env, main, late, stopping>>
  BY DEF Execute, Patch, InspectDiff, Explore, Compile, PpaWithoutSynthesis, PpaSynthesis,
         TestWithoutResult, Finish
<1>8. workspace'.revision >= workspace.revision /\ (serve.tool # "patch" => workspace' = workspace)
  <2>1. workspace' = workspace => workspace'.revision >= workspace.revision
    BY <1>2
  <2>2. QED
    BY <1>3, <2>1 DEF Execute, Patch, InspectDiff, Explore, Compile, PpaWithoutSynthesis,
                      PpaSynthesis, TestWithoutResult, Finish
<1>9. serve.tool # "finish" => broker' = broker /\ history'.finished = history.finished
  BY <1>4, <1>5 DEF Execute, Patch, InspectDiff, Explore, Compile, PpaWithoutSynthesis,
                    PpaSynthesis, TestWithoutResult, Finish
<1>10. QED BY <1>6, <1>7, <1>8, <1>9

(* Finalizing counts a rejection or forgets the ones before; unless the    *)
(* episode has finished, it goes on only within both limits.               *)
LEMMA FinalizedBudget ==
  ASSUME LimitsAssumption, NEW b \in Counters
  PROVE  /\ Finalized(b).calls = b.calls /\ Finalized(b).patches = b.patches
         /\ Finalized(b).exploratory = b.exploratory
         /\ Finalized(b).testFailed = b.testFailed
         /\ Finalized(b).repairPending = b.repairPending
         /\ Finalized(b).repaired = b.repaired
         /\ Finalized(b).consecutive \in {0, b.consecutive + 1}
         /\ b.limit # "none" => Finalized(b).limit = b.limit
         /\ b.limit = "none" /\ ~b.finished /\ Finalized(b).limit = "none" =>
              Finalized(b).consecutive < MaxRejected /\ b.calls < MaxToolCalls
<1> DEFINE consecutive == IF b.rejected THEN b.consecutive + 1 ELSE 0
           limit == IF b.limit # "none" \/ b.finished THEN b.limit
                    ELSE IF consecutive >= MaxRejected THEN "rejections"
                    ELSE IF b.calls >= MaxToolCalls THEN "calls"
                    ELSE "none"
<1>1. Finalized(b) = [b EXCEPT !.consecutive = consecutive, !.rejected = FALSE, !.limit = limit]
  BY DEF Finalized
<1>2. consecutive \in {0, b.consecutive + 1} /\ consecutive \in Nat
  BY DEF Counters
<1>3. b.limit # "none" => limit = b.limit
  OBVIOUS
<1>4. b.limit = "none" /\ ~b.finished /\ limit = "none" =>
        consecutive < MaxRejected /\ b.calls < MaxToolCalls
  <2>1. b.calls \in Nat /\ MaxToolCalls \in Nat /\ MaxRejected \in Nat
    BY DEF LimitsAssumption, Counters
  <2> HIDE DEF consecutive
  <2>2. QED BY <1>2, <2>1
<1> HIDE DEF consecutive, limit
<1>5. QED BY <1>1, <1>2, <1>3, <1>4 DEF Counters

(* The call that exceeds the patch limit is counted, rejected, and the     *)
(* last one of the episode.                                                *)
LEMMA ExceededPatchLimit ==
  ASSUME LimitsAssumption, TypeOK, ExceedPatchLimit
  PROVE  \E b \in Counters :
           /\ broker' = Finalized(b)
           /\ b = [broker EXCEPT !.calls = broker.calls + 1, !.rejected = TRUE,
                                 !.limit = "patches"]
<1> DEFINE b == [broker EXCEPT !.calls = broker.calls + 1, !.rejected = TRUE, !.limit = "patches"]
<1>1. broker \in Counters
  BY DEF TypeOK
<1>2. broker.calls + 1 \in Nat
  BY <1>1 DEF Counters
<1>3. b \in Counters
  BY <1>1, <1>2 DEF Counters
<1>4. broker' = Finalized(b)
  BY DEF ExceedPatchLimit
<1> HIDE DEF b
<1>5. QED BY <1>3, <1>4 DEF b

(* Admitting a call changes counters only, and keeps its tool in hand.     *)
LEMMA AdmitCounts ==
  ASSUME TypeOK, NEW malformed \in BOOLEAN, Admit(malformed)
  PROVE  /\ serve.at = "admit" /\ serve'.at \in {"execute", "finalize"}
         /\ serve'.tool = serve.tool /\ ~Failed /\ broker.limit = "none"
         /\ broker'.calls = broker.calls + 1
         /\ broker'.exploratory \in {broker.exploratory, broker.exploratory + 1}
         /\ ~broker.finished /\ broker.exploratory >= MaxExploratory =>
              broker'.exploratory = broker.exploratory
         /\ broker'.patches \in {broker.patches, broker.patches + 1}
         /\ broker.patches >= MaxPatchCalls => broker'.patches = broker.patches
         /\ serve'.at = "execute" /\ serve.tool = "patch" => broker'.patches = broker.patches + 1
         /\ serve'.at = "execute" => ~broker.finished
         /\ broker'.consecutive = broker.consecutive
         /\ broker'.limit = broker.limit /\ broker'.finished = broker.finished
         /\ broker'.policy = broker.policy /\ broker'.infrastructure = broker.infrastructure
         /\ FlagsOf(broker)' = FlagsOf(broker)
         /\ broker'.testFailed = broker.testFailed
         /\ broker'.repairPending = broker.repairPending
         /\ broker'.repaired = broker.repaired
<1> DEFINE guarded == serve.tool = "explore" /\ FinalizationRequired
           refused == ~guarded /\ StateFailure(serve.tool, broker, broker.finished)
           proceeds == ~malformed /\ ~guarded /\ ~refused
           explored == IF serve.tool = "explore" /\ ~malformed /\ ~guarded THEN 1 ELSE 0
           patched == IF serve.tool = "patch" /\ proceeds THEN 1 ELSE 0
           rejected == malformed \/ refused
<1>1. /\ broker' = [broker EXCEPT !.calls = broker.calls + 1, !.rejected = rejected,
                      !.exploratory = broker.exploratory + explored,
                      !.patches = broker.patches + patched]
      /\ serve' = [serve EXCEPT !.at = IF proceeds THEN "execute" ELSE "finalize"]
      /\ serve.at = "admit" /\ ~Failed /\ ~(serve.tool = "patch" /\ broker.patches >= MaxPatchCalls)
  BY DEF Admit
<1>2. /\ ~broker.finished /\ broker.exploratory >= MaxExploratory => explored = 0
      /\ proceeds => ~broker.finished
      /\ serve.tool = "patch" /\ proceeds => patched = 1
      /\ serve.tool # "patch" => patched = 0
  BY DEF FinalizationRequired, StateFailure
<1>3. explored \in {0, 1} /\ patched \in {0, 1}
  OBVIOUS
<1>4. broker \in Counters /\ serve \in Hand
  BY DEF TypeOK
<1>5. serve'.tool = serve.tool /\ serve'.at = IF proceeds THEN "execute" ELSE "finalize"
  BY <1>1, <1>4 DEF Hand
<1> HIDE DEF guarded, refused, proceeds, explored, patched, rejected
<1>6. /\ broker'.calls = broker.calls + 1
      /\ broker'.exploratory = broker.exploratory + explored
      /\ broker'.patches = broker.patches + patched
      /\ broker'.consecutive = broker.consecutive
      /\ broker'.limit = broker.limit /\ broker'.finished = broker.finished
      /\ broker'.policy = broker.policy /\ broker'.infrastructure = broker.infrastructure
      /\ FlagsOf(broker)' = FlagsOf(broker)
      /\ broker'.testFailed = broker.testFailed
      /\ broker'.repairPending = broker.repairPending
      /\ broker'.repaired = broker.repaired
  BY <1>1, <1>4 DEF Counters, FlagsOf
<1>7. broker.exploratory \in Nat /\ broker.patches \in Nat
  BY <1>4 DEF Counters
<1>8. broker.patches >= MaxPatchCalls => broker'.patches = broker.patches
  BY <1>1, <1>2, <1>6, <1>7
<1>9. QED BY <1>1, <1>2, <1>3, <1>5, <1>6, <1>7, <1>8 DEF Failed

(* Recording a result changes flags and failures, not what is counted.     *)
LEMMA RecordKeepsCounts ==
  ASSUME TypeOK, EvidenceInv, Record
  PROVE  /\ serve.at = "record" /\ serve'.at = "finalize"
         /\ serve'.tool = serve.tool /\ serve'.outcome = serve.outcome
         /\ broker' = Recorded
         /\ broker'.calls = broker.calls /\ broker'.patches = broker.patches
         /\ broker'.exploratory = broker.exploratory
         /\ broker'.consecutive = broker.consecutive
         /\ broker'.limit = broker.limit /\ broker'.finished = broker.finished
         /\ broker.policy => broker'.policy
         /\ broker.infrastructure => broker'.infrastructure
<1>1. broker \in Counters /\ serve \in Hand
  BY DEF TypeOK
<1>2. ASSUME NEW b,
             \/ b \in {[broker EXCEPT !.policy = TRUE], [broker EXCEPT !.infrastructure = TRUE],
                       [broker EXCEPT !.rejected = TRUE], [broker EXCEPT !.diffObserved = TRUE],
                       PatchRecorded, broker}
             \/ \E outcome : b = CompileRecorded(outcome)
      PROVE  /\ b.calls = broker.calls /\ b.patches = broker.patches
             /\ b.exploratory = broker.exploratory /\ b.consecutive = broker.consecutive
             /\ b.limit = broker.limit /\ b.finished = broker.finished
             /\ broker.policy => b.policy
             /\ broker.infrastructure => b.infrastructure
  <2>1. CASE b \in {[broker EXCEPT !.policy = TRUE], [broker EXCEPT !.infrastructure = TRUE],
                    [broker EXCEPT !.rejected = TRUE], [broker EXCEPT !.diffObserved = TRUE],
                    broker}
    BY <1>1, <2>1 DEF Counters
  <2>2. CASE b = PatchRecorded
    BY <1>1, <2>2 DEF Counters, PatchRecorded
  <2>3. ASSUME NEW outcome, b = CompileRecorded(outcome)
        PROVE  /\ b.calls = broker.calls /\ b.patches = broker.patches
               /\ b.exploratory = broker.exploratory /\ b.consecutive = broker.consecutive
               /\ b.limit = broker.limit /\ b.finished = broker.finished
               /\ broker.policy => b.policy
               /\ broker.infrastructure => b.infrastructure
    BY <1>1, <2>3 DEF Counters, CompileRecorded
  <2>4. QED
    BY <1>2, <2>1, <2>2, <2>3
<1>3. \/ Recorded \in {[broker EXCEPT !.policy = TRUE], [broker EXCEPT !.infrastructure = TRUE],
                       [broker EXCEPT !.rejected = TRUE], [broker EXCEPT !.diffObserved = TRUE],
                       PatchRecorded, broker}
      \/ \E outcome : Recorded = CompileRecorded(outcome)
  BY DEF Recorded
<1>4. broker' = Recorded
  BY DEF Record
<1>5. /\ serve.at = "record" /\ serve'.at = "finalize"
      /\ serve'.tool = serve.tool /\ serve'.outcome = serve.outcome
  BY <1>1 DEF Record, Hand
<1>6. QED BY <1>2, <1>3, <1>4, <1>5

-----------------------------------------------------------------------------
(* Budgets: a call is in hand only while no limit has been hit, and an open *)
(* episode whose thread is between calls has room for one more; a revision  *)
(* of the workspace was paid for with a patch.                              *)

CallsAreBudgeted ==
  /\ InHand => broker.limit = "none"
  /\ ~broker.finished /\ broker.limit = "none" =>
       /\ broker.consecutive < MaxRejected
       /\ ~InHand => broker.calls < MaxToolCalls

RevisionsAreCounted ==
  workspace.revision <=
    broker.patches + IF serve.at = "execute" /\ serve.tool = "patch" THEN 0 ELSE 1

BudgetInv == LimitsHold /\ CallsAreBudgeted /\ RevisionsAreCounted

LEMMA Naturals ==
  ASSUME LimitsAssumption, TypeOK
  PROVE  /\ broker.calls \in Nat /\ broker.patches \in Nat /\ broker.exploratory \in Nat
         /\ broker.consecutive \in Nat /\ feedback.executions \in Nat
         /\ workspace.revision \in Nat \ {0}
         /\ {MaxToolCalls, MaxPatchCalls, MaxRejected, MaxExploratory, PpaMaxExecutions}
              \subseteq Nat \ {0}
  BY DEF LimitsAssumption, TypeOK, Counters, Feedback, Workspace

(* Steps that leave the counters, and the thread between two calls, alone. *)
LEMMA BudgetUntouched ==
  ASSUME BudgetInv, UNCHANGED <<broker, feedback>>, workspace'.revision = workspace.revision,
         \/ serve' = serve
         \/ ~InHand /\ ~InHand'
  PROVE  BudgetInv'
  BY DEF BudgetInv, LimitsHold, CallsAreBudgeted, RevisionsAreCounted, InHand

(* A tool in hand moves on; the synthesis it dispatched was within quota,   *)
(* and the patch it made was paid for when the call was admitted.           *)
LEMMA BudgetExecute ==
  ASSUME LimitsAssumption, TypeOK, BudgetInv, Execute
  PROVE  BudgetInv'
<1>1. /\ serve.at = "execute" /\ serve'.at \in {"mirror", "record", "finalize"}
      /\ serve'.tool = serve.tool /\ InHand /\ InHand'
      /\ serve.tool # "finish" => broker' = broker
      /\ serve.tool # "patch" => workspace' = workspace
  BY ExecuteReturns DEF InHand
<1>2. feedback'.executions <= PpaMaxExecutions
  <2>1. CASE \E outcome : \E dispatched \in BOOLEAN : PpaSynthesis(outcome, dispatched)
    BY <2>1, Naturals DEF PpaSynthesis, TypeOK, Feedback
  <2>2. CASE \E outcome : Compile(outcome)
    BY <2>2 DEF Compile, TypeOK, Feedback, BudgetInv, LimitsHold
  <2>3. CASE feedback' = feedback
    BY <2>3 DEF BudgetInv, LimitsHold
  <2>4. QED
    BY <2>1, <2>2, <2>3 DEF Execute, Patch, InspectDiff, Explore, Compile, PpaWithoutSynthesis,
                            PpaSynthesis, TestWithoutResult, Finish
<1>3. /\ broker'.calls = broker.calls /\ broker'.patches = broker.patches
      /\ broker'.exploratory = broker.exploratory /\ broker'.consecutive = broker.consecutive
      /\ broker'.limit = broker.limit
      /\ broker.finished => broker'.finished
  BY <1>1 DEF Execute, Patch, InspectDiff, Explore, Compile, PpaWithoutSynthesis, PpaSynthesis,
              TestWithoutResult, Finish, TypeOK, Counters
<1>4. RevisionsAreCounted'
  <2>1. CASE serve.tool = "patch"
    <3>1. workspace'.revision <= workspace.revision + 1
      BY <2>1, Naturals DEF Execute, Patch, InspectDiff, Explore, Compile, PpaWithoutSynthesis,
            PpaSynthesis, TestWithoutResult, Finish, Tests, TypeOK, Workspace
    <3>2. workspace'.revision \in Nat
      BY TypeExecute DEF TypeOK, Workspace
    <3>3. QED
      BY <1>1, <1>3, <2>1, <3>1, <3>2, Naturals DEF BudgetInv, RevisionsAreCounted
  <2>2. CASE serve.tool # "patch"
    BY <1>1, <1>3, <2>2 DEF BudgetInv, RevisionsAreCounted
  <2>3. QED BY <2>1, <2>2
<1>5. QED
  BY <1>1, <1>2, <1>3, <1>4 DEF BudgetInv, LimitsHold, CallsAreBudgeted

LEMMA BudgetServe ==
  ASSUME LimitsAssumption, TypeOK, EvidenceInv, BudgetInv, Serve
  PROVE  BudgetInv'
<1>1. ASSUME NEW tool \in Tools, Accept(tool) PROVE BudgetInv'
  BY <1>1, BudgetUntouched DEF Accept, Idle, InHand
<1>2. CASE ThreadEnds
  BY <1>2, BudgetUntouched DEF ThreadEnds, Idle, InHand
<1>3. CASE TurnAway
  BY <1>3, BudgetUntouched DEF TurnAway, Idle, InHand
<1>4. CASE ExceedPatchLimit
  <2>1. PICK b \in Counters :
          /\ broker' = Finalized(b)
          /\ b = [broker EXCEPT !.calls = broker.calls + 1, !.rejected = TRUE,
                                !.limit = "patches"]
    BY <1>4, ExceededPatchLimit
  <2>2. /\ b.calls = broker.calls + 1 /\ b.limit = "patches"
        /\ b.patches = broker.patches /\ b.exploratory = broker.exploratory
        /\ b.consecutive = broker.consecutive /\ b.finished = broker.finished
    BY <2>1 DEF TypeOK, Counters
  <2>3. /\ broker'.calls = broker.calls + 1 /\ broker'.limit = "patches"
        /\ broker'.patches = broker.patches /\ broker'.exploratory = broker.exploratory
        /\ broker'.consecutive \in {0, broker.consecutive + 1}
        /\ broker'.finished = broker.finished
    BY <2>1, <2>2, FinalizedBudget, FinalizedCounters
  <2>4. /\ serve.at = "admit" /\ broker.limit = "none" /\ ~InHand /\ ~InHand'
        /\ serve'.at = "accept" /\ UNCHANGED <<feedback, workspace>>
    BY <1>4 DEF ExceedPatchLimit, Failed, InHand, Idle
  <2>5. LimitsHold'
    BY <2>3, <2>4, Naturals DEF BudgetInv, LimitsHold, CallsAreBudgeted
  <2>6. RevisionsAreCounted'
    BY <2>3, <2>4 DEF BudgetInv, RevisionsAreCounted
  <2>7. QED BY <2>3, <2>4, <2>5, <2>6 DEF BudgetInv, CallsAreBudgeted
<1>5. ASSUME NEW malformed \in BOOLEAN, Admit(malformed) PROVE BudgetInv'
  <2>1. UNCHANGED <<feedback, workspace>> /\ ~InHand /\ InHand'
    BY <1>5, AdmitCounts DEF Admit, InHand
  <2>2. LimitsHold'
    <3>1. ~broker.finished => broker.calls < MaxToolCalls
      BY <1>5, <2>1, AdmitCounts DEF BudgetInv, CallsAreBudgeted
    <3>2. ~broker.finished => broker'.calls <= MaxToolCalls
      BY <1>5, <3>1, AdmitCounts, Naturals
    <3>3. ~broker.finished => broker'.exploratory <= MaxExploratory
      BY <1>5, AdmitCounts, Naturals DEF BudgetInv, LimitsHold
    <3>4. broker'.patches <= MaxPatchCalls
      BY <1>5, AdmitCounts, Naturals DEF BudgetInv, LimitsHold
    <3>5. QED BY <1>5, <2>1, <3>2, <3>3, <3>4, AdmitCounts DEF BudgetInv, LimitsHold
  <2>3. CallsAreBudgeted'
    BY <1>5, <2>1, AdmitCounts DEF BudgetInv, CallsAreBudgeted
  <2>4. RevisionsAreCounted'
    BY <1>5, <2>1, AdmitCounts, Naturals DEF BudgetInv, RevisionsAreCounted
  <2>5. QED BY <2>2, <2>3, <2>4 DEF BudgetInv
<1>6. CASE Execute
  BY <1>6, BudgetExecute
<1>7. ASSUME NEW valid \in BOOLEAN, Mirror(valid) PROVE BudgetInv'
  <2>1. /\ serve.at = "mirror" /\ serve'.at = "record"
        /\ UNCHANGED <<broker, feedback, workspace>>
    BY <1>7 DEF Mirror, Return, TypeOK, Hand
  <2>2. QED
    BY <2>1 DEF BudgetInv, LimitsHold, CallsAreBudgeted, RevisionsAreCounted, InHand
<1>8. CASE Record
  <2>1. UNCHANGED <<feedback, workspace>>
    BY <1>8 DEF Record
  <2>2. QED
    BY <1>8, <2>1, RecordKeepsCounts
       DEF BudgetInv, LimitsHold, CallsAreBudgeted, RevisionsAreCounted, InHand
<1>9. CASE Finalize
  <2>1. /\ broker' = Finalized(broker) /\ broker \in Counters
        /\ serve.at = "finalize" /\ serve'.at = "accept"
        /\ UNCHANGED <<feedback, workspace>>
        /\ InHand /\ ~InHand' /\ broker.limit = "none"
    BY <1>9 DEF Finalize, Idle, InHand, TypeOK, BudgetInv, CallsAreBudgeted
  <2>2. /\ broker'.calls = broker.calls /\ broker'.patches = broker.patches
        /\ broker'.exploratory = broker.exploratory
        /\ broker'.consecutive \in {0, broker.consecutive + 1}
        /\ broker'.finished = broker.finished
        /\ ~broker.finished /\ broker'.limit = "none" =>
             broker'.consecutive < MaxRejected /\ broker.calls < MaxToolCalls
    BY <2>1, FinalizedBudget, FinalizedCounters
  <2>3. ~broker.finished => broker'.consecutive <= MaxRejected
    BY <2>1, <2>2, Naturals DEF BudgetInv, CallsAreBudgeted
  <2>4. QED
    BY <2>1, <2>2, <2>3 DEF BudgetInv, LimitsHold, CallsAreBudgeted, RevisionsAreCounted
<1>10. QED
  BY <1>1, <1>2, <1>3, <1>4, <1>5, <1>6, <1>7, <1>8, <1>9 DEF Serve

(* The orchestrator and the process do not touch what the serving thread   *)
(* counts, remembers or has in hand; only freezing touches the workspace.  *)
LEMMA OutsideTheThread ==
  ASSUME TypeOK,
         \/ Request \/ EnterReserve \/ Orchestrate
         \/ \E status \in Statuses : ProcessEnds(status)
  PROVE  /\ UNCHANGED <<serve, broker, env, feedback, history>>
         /\ workspace'.revision = workspace.revision
  BY DEF Request, EnterReserve, ProcessEnds, Orchestrate, Stop, Join, Classify, Step, Validate,
         Freeze, Quarantine, WriteDiff, ExportCandidate, TypeOK, Workspace

(* The limits of an episode hold, and a call in hand is within them.       *)
THEOREM BudgetInvariance == Spec => []BudgetInv
<1>1. Init => BudgetInv
  BY LimitsAssumption DEF Init, Idle, BudgetInv, LimitsHold, CallsAreBudgeted,
     RevisionsAreCounted, InHand, LimitsAssumption
<1>2. TypeOK /\ EvidenceInv /\ BudgetInv /\ [Next]_vars => BudgetInv'
  <2> SUFFICES ASSUME TypeOK, EvidenceInv, BudgetInv, [Next]_vars PROVE BudgetInv'
    OBVIOUS
  <2>1. CASE \/ Request \/ EnterReserve \/ Orchestrate
             \/ \E status \in Statuses : ProcessEnds(status)
    BY <2>1, OutsideTheThread, BudgetUntouched
  <2>2. CASE Serve
    BY <2>2, LimitsAssumption, BudgetServe
  <2>3. CASE UNCHANGED vars
    BY <2>3, BudgetUntouched DEF vars
  <2>4. QED BY <2>1, <2>2, <2>3 DEF Next
<1>3. QED BY <1>1, <1>2, BrokerTypes, EvidenceInvariance, PTL DEF Spec

(* The budgets of an episode: calls, consecutive rejections and exploration *)
(* until finish, patches and synthesis always.                              *)
THEOREM LimitsAlwaysHold == Spec => []LimitsHold
<1>1. BudgetInv => LimitsHold
  BY DEF BudgetInv
<1>2. QED BY <1>1, BudgetInvariance, PTL

-----------------------------------------------------------------------------
(* The mirror: in an episode that no tool has broken, the environment's    *)
(* flags are the broker's, except between Mirror and Record, when they are *)
(* what the broker's are about to be.  Finish is the last word: no tool    *)
(* runs after it, so neither flags nor failures change.                    *)

FinishIsFinal ==
  /\ ~broker.finished => history.finished = None
  /\ broker.finished =>
       /\ ~Broken /\ broker.patchApplied /\ broker.diffObserved
       /\ CompileRequired => broker.compilePassed

MirrorAgrees ==
  /\ serve.at # "record" /\ ~Broken => env = FlagsOf(broker)
  /\ serve.at = "record" =>
       Recorded.policy \/ Recorded.infrastructure \/ env = FlagsOf(Recorded)
  /\ serve.at = "mirror" /\ serve.tool = "compile" =>
       serve.outcome \in {"ok", "failed", "infrastructure", "unclean"}

MirrorInv == FinishIsFinal /\ MirrorAgrees

LEMMA FlagsExcept ==
  ASSUME NEW b \in Counters, NEW seen \in BOOLEAN
  PROVE  [FlagsOf(b) EXCEPT !.diffObserved = seen] =
           [patchApplied |-> b.patchApplied, compilePassed |-> b.compilePassed,
            diffObserved |-> seen]
  BY DEF FlagsOf

(* What the broker will record of the result that a step leaves in hand.   *)
LEMMA RecordedNext ==
  ASSUME broker \in Counters, broker' = broker
  PROVE  /\ serve'.outcome = "denied" => Recorded'.policy
         /\ serve'.outcome = "crashed" => Recorded'.infrastructure
         /\ serve'.outcome = "rejected" => FlagsOf(Recorded)' = FlagsOf(broker)
         /\ serve'.outcome \in {"infrastructure", "unclean"} /\ serve'.tool = "compile" =>
              Recorded'.infrastructure
         /\ serve'.outcome = "ok" /\ serve'.tool = "patch" =>
              FlagsOf(Recorded)' = [patchApplied |-> TRUE, compilePassed |-> FALSE,
                                    diffObserved |-> FALSE]
         /\ serve'.outcome = "ok" /\ serve'.tool = "diff" =>
              FlagsOf(Recorded)' = [FlagsOf(broker) EXCEPT !.diffObserved = TRUE]
         /\ serve'.outcome \in {"ok", "failed"} /\ serve'.tool = "compile" =>
              FlagsOf(Recorded)' = [FlagsOf(broker) EXCEPT !.compilePassed = serve'.outcome = "ok"]
         /\ \/ serve'.tool = "ppa" /\ serve'.outcome \in {"ok", "failed", "unclean"}
            \/ /\ serve'.tool \in {"explore", "finish"}
               /\ serve'.outcome \in {"ok", "failed", "infrastructure", "unclean"}
            => FlagsOf(Recorded)' = FlagsOf(broker)
         /\ serve'.outcome = "infrastructure" /\ serve'.tool = "ppa" => Recorded'.infrastructure
<1> DEFINE result == Recorded'
<1>0. FlagsOf(Recorded)' = FlagsOf(result)
  BY DEF FlagsOf
<1>1. ASSUME serve'.outcome = "denied" PROVE result = [broker EXCEPT !.policy = TRUE]
  BY <1>1 DEF Recorded
<1>2. ASSUME serve'.outcome = "crashed" PROVE result = [broker EXCEPT !.infrastructure = TRUE]
  BY <1>2 DEF Recorded
<1>3. ASSUME serve'.outcome = "rejected" PROVE result = [broker EXCEPT !.rejected = TRUE]
  BY <1>3 DEF Recorded
<1>4. ASSUME serve'.outcome = "ok", serve'.tool = "patch" PROVE result = PatchRecorded
  BY <1>4 DEF Recorded, PatchRecorded
<1>5. ASSUME serve'.outcome = "ok", serve'.tool = "diff"
      PROVE  result = [broker EXCEPT !.diffObserved = TRUE]
  BY <1>5 DEF Recorded
<1>6. ASSUME serve'.outcome \in {"ok", "failed", "infrastructure", "unclean"},
             serve'.tool = "compile"
      PROVE  result = CompileRecorded(serve'.outcome)
  BY <1>6 DEF Recorded, CompileRecorded
<1>7. ASSUME \/ serve'.tool = "ppa" /\ serve'.outcome \in {"ok", "failed", "unclean"}
             \/ /\ serve'.tool \in {"explore", "finish"}
                /\ serve'.outcome \in {"ok", "failed", "infrastructure", "unclean"}
      PROVE  result = broker
  BY <1>7 DEF Recorded
<1>8. ASSUME serve'.outcome = "infrastructure", serve'.tool = "ppa"
      PROVE  result = [broker EXCEPT !.infrastructure = TRUE]
  BY <1>8 DEF Recorded
<1> HIDE DEF result
<1>9. /\ serve'.outcome = "denied" => result.policy
      /\ serve'.outcome = "crashed" => result.infrastructure
      /\ serve'.outcome = "rejected" => FlagsOf(result) = FlagsOf(broker)
      /\ serve'.outcome = "infrastructure" /\ serve'.tool = "ppa" => result.infrastructure
  BY <1>1, <1>2, <1>3, <1>8 DEF Counters, FlagsOf
<1>10. serve'.outcome \in {"infrastructure", "unclean"} /\ serve'.tool = "compile" =>
         result.infrastructure
  BY <1>6 DEF Counters, CompileRecorded
<1>11. serve'.outcome = "ok" /\ serve'.tool = "patch" =>
         FlagsOf(result) = [patchApplied |-> TRUE, compilePassed |-> FALSE, diffObserved |-> FALSE]
  BY <1>4 DEF Counters, FlagsOf, PatchRecorded
<1>12. ASSUME serve'.outcome = "ok", serve'.tool = "diff"
       PROVE  FlagsOf(result) = [FlagsOf(broker) EXCEPT !.diffObserved = TRUE]
  <2>1. result = [broker EXCEPT !.diffObserved = TRUE]
    BY <1>5, <1>12
  <2>2. /\ result.compilePassed = broker.compilePassed
        /\ result.patchApplied = broker.patchApplied
        /\ result.diffObserved = TRUE
    BY <2>1 DEF Counters
  <2>3. FlagsOf(result) = [patchApplied |-> broker.patchApplied,
                           compilePassed |-> broker.compilePassed, diffObserved |-> TRUE]
    BY <2>2 DEF FlagsOf
  <2>4. QED BY <2>3, FlagsExcept
<1>13. ASSUME serve'.outcome \in {"ok", "failed"}, serve'.tool = "compile"
       PROVE  FlagsOf(result) = [FlagsOf(broker) EXCEPT !.compilePassed = serve'.outcome = "ok"]
  <2>1. result = CompileRecorded(serve'.outcome)
    BY <1>6, <1>13
  <2>2. /\ result.compilePassed = (serve'.outcome \in {"ok", "unclean"})
        /\ result.patchApplied = broker.patchApplied
        /\ result.diffObserved = broker.diffObserved
    BY <2>1 DEF Counters, CompileRecorded
  <2>3. result.compilePassed = (serve'.outcome = "ok")
    BY <1>13, <2>2
  <2>4. QED BY <2>2, <2>3 DEF FlagsOf
<1>14. \/ serve'.tool = "ppa" /\ serve'.outcome \in {"ok", "failed", "unclean"}
       \/ /\ serve'.tool \in {"explore", "finish"}
          /\ serve'.outcome \in {"ok", "failed", "infrastructure", "unclean"}
       => FlagsOf(result) = FlagsOf(broker)
  BY <1>7
<1>15. QED BY <1>0, <1>9, <1>10, <1>11, <1>12, <1>13, <1>14 DEF result

(* Neither the environment nor the evidence moves, and no result is handed *)
(* on: what the mirror is compared with is the same.                       *)
LEMMA MirrorBetweenCalls ==
  ASSUME MirrorInv, UNCHANGED <<env, history>>,
         serve.at \notin {"mirror", "record"}, serve'.at \notin {"mirror", "record"},
         broker'.patchApplied = broker.patchApplied,
         broker'.compilePassed = broker.compilePassed,
         broker'.diffObserved = broker.diffObserved,
         broker'.finished = broker.finished,
         broker'.policy = broker.policy,
         broker'.infrastructure = broker.infrastructure
  PROVE  MirrorInv'
  BY DEF MirrorInv, FinishIsFinal, MirrorAgrees, FlagsOf, Broken

LEMMA MirrorUntouched ==
  ASSUME MirrorInv, UNCHANGED <<serve, broker, env, history>>
  PROVE  MirrorInv'
<1>1. FlagsOf(broker)' = FlagsOf(broker) /\ Broken' = Broken /\ Recorded' = Recorded
  BY DEF FlagsOf, Broken, Recorded, PatchRecorded, CompileRecorded
<1>2. QED
  BY <1>1 DEF MirrorInv, FinishIsFinal, MirrorAgrees

(* A tool that reports past the mirror changes no flag, and the accepted   *)
(* finish is one the state machine allows.                                 *)
LEMMA MirrorExecute ==
  ASSUME TypeOK, EvidenceInv, MirrorInv, Execute
  PROVE  MirrorInv'
<1>1. /\ serve.at = "execute" /\ serve'.tool = serve.tool
      /\ serve'.at \in {"mirror", "record", "finalize"} /\ env' = env
      /\ serve.tool # "finish" => broker' = broker /\ history'.finished = history.finished
  BY ExecuteReturns
<1>2. /\ ~Broken /\ ~broker.finished /\ history.finished = None /\ env = FlagsOf(broker)
      /\ ~StateFailure(serve.tool, broker, broker.finished)
      /\ broker \in Counters
  BY <1>1 DEF EvidenceInv, EvidenceIsCurrent, MirrorInv, MirrorAgrees, FinishIsFinal, TypeOK
<1>3. CASE serve.tool = "finish"
  <2>1. Finish
    BY <1>3 DEF Execute, Patch, InspectDiff, Explore, Compile, PpaWithoutSynthesis, PpaSynthesis,
                TestWithoutResult, Tests
  <2>2. /\ broker.patchApplied /\ broker.diffObserved
        /\ CompileRequired => broker.compilePassed
    BY <1>2, <1>3 DEF StateFailure
  <2>3. /\ broker'.finished
        /\ broker'.patchApplied = broker.patchApplied
        /\ broker'.compilePassed = broker.compilePassed
        /\ broker'.diffObserved = broker.diffObserved
        /\ broker'.policy = broker.policy
        /\ broker'.infrastructure = broker.infrastructure
    BY <1>2, <2>1 DEF Finish, Counters
  <2>4. serve'.at = "finalize"
    BY <2>1 DEF Finish, Return, TypeOK, Hand
  <2>5. QED
    BY <1>1, <1>2, <2>2, <2>3, <2>4 DEF MirrorInv, FinishIsFinal, MirrorAgrees, FlagsOf, Broken
<1>4. CASE serve.tool # "finish"
  <2>1. broker' = broker /\ history'.finished = history.finished
    BY <1>1, <1>4
  <2>2. FinishIsFinal' /\ (~Broken)'
    BY <1>2, <2>1 DEF FinishIsFinal, Broken
  <2>3. CASE serve'.at = "record"
    <3>1. /\ serve'.outcome \in {"ok", "rejected", "denied", "crashed"}
          /\ serve'.outcome = "ok" => serve.tool = "explore"
      BY <1>1, <1>4, <2>3
         DEF Execute, Patch, InspectDiff, Explore, Compile, PpaWithoutSynthesis, PpaSynthesis,
             TestWithoutResult, Finish, Return, TypeOK, Hand
    <3>2. Recorded'.policy \/ Recorded'.infrastructure \/ FlagsOf(Recorded)' = FlagsOf(broker)
      BY <1>1, <1>2, <2>1, <3>1, RecordedNext
    <3>3. QED BY <1>1, <1>2, <2>2, <2>3, <3>2 DEF MirrorInv, MirrorAgrees
  <2>4. CASE serve'.at # "record"
    <3>1. serve'.at = "mirror" /\ serve'.tool = "compile" =>
            serve'.outcome \in {"ok", "failed", "infrastructure", "unclean"}
      BY <1>1
         DEF Execute, Patch, InspectDiff, Explore, Compile, PpaWithoutSynthesis, PpaSynthesis,
             TestWithoutResult, Finish, Return, TypeOK, Hand
    <3>2. env' = FlagsOf(broker)'
      BY <1>1, <1>2, <2>1
    <3>3. QED BY <2>2, <2>4, <3>1, <3>2 DEF MirrorInv, MirrorAgrees
  <2>5. QED BY <2>3, <2>4
<1>5. QED BY <1>3, <1>4

(* The environment sets in Mirror the very flags the broker sets in Record. *)
LEMMA MirrorMirrors ==
  ASSUME TypeOK, EvidenceInv, MirrorInv, NEW valid \in BOOLEAN, Mirror(valid)
  PROVE  MirrorInv'
<1>1. /\ serve.at = "mirror" /\ serve'.at = "record" /\ serve'.tool = serve.tool
      /\ serve'.outcome = IF valid THEN serve.outcome ELSE "denied"
      /\ UNCHANGED <<broker, history>>
  BY DEF Mirror, Return, TypeOK, Hand
<1>2. /\ ~Broken /\ ~broker.finished /\ env = FlagsOf(broker) /\ broker \in Counters
      /\ serve.tool \in Tools /\ serve.outcome \in Outcomes \ {"none"}
      /\ serve.tool \in {"patch", "diff", "explore"} =>
           serve.outcome \in {"ok", "rejected", "denied", "crashed"}
      /\ serve.tool = "compile" =>
           serve.outcome \in {"ok", "failed", "infrastructure", "unclean"}
  BY <1>1 DEF EvidenceInv, EvidenceIsCurrent, InHandIsKnown, MirrorInv, MirrorAgrees, TypeOK, Hand
<1>3. FinishIsFinal'
  BY <1>1, <1>2 DEF MirrorInv, FinishIsFinal
<1>4. Recorded'.policy \/ Recorded'.infrastructure \/ env' = FlagsOf(Recorded)'
  <2>1. CASE serve'.outcome \in {"denied", "crashed"}
    BY <1>1, <1>2, <2>1, RecordedNext
  <2>2. CASE serve'.outcome = "rejected"
    <3>1. serve.outcome = "rejected" /\ serve.tool # "compile"
      BY <1>1, <1>2, <2>2
    <3>2. env' = env
      BY <3>1 DEF Mirror
    <3>3. QED BY <1>1, <1>2, <2>2, <3>2, RecordedNext
  <2>3. CASE serve'.outcome = "ok"
    <3>1. serve.outcome = "ok"
      BY <1>1, <2>3
    <3>2. CASE serve.tool = "patch"
      <4>1. env' = [patchApplied |-> TRUE, compilePassed |-> FALSE, diffObserved |-> FALSE]
        BY <3>1, <3>2 DEF Mirror
      <4>2. QED BY <1>1, <1>2, <2>3, <3>2, <4>1, RecordedNext
    <3>3. CASE serve.tool = "diff"
      <4>1. env' = [env EXCEPT !.diffObserved = TRUE]
        BY <3>1, <3>3 DEF Mirror
      <4>2. QED BY <1>1, <1>2, <2>3, <3>3, <4>1, RecordedNext
    <3>4. CASE serve.tool = "compile"
      <4>1. env' = [env EXCEPT !.compilePassed = serve'.outcome = "ok"]
        BY <2>3, <3>1, <3>4 DEF Mirror
      <4>2. QED BY <1>1, <1>2, <2>3, <3>4, <4>1, RecordedNext
    <3>5. CASE serve.tool \in {"explore", "ppa", "finish"}
      <4>1. env' = env
        BY <3>1, <3>5 DEF Mirror
      <4>2. QED BY <1>1, <1>2, <2>3, <3>5, <4>1, RecordedNext
    <3>6. QED BY <1>2, <3>2, <3>3, <3>4, <3>5 DEF Tools
  <2>4. CASE serve'.outcome \in {"failed", "infrastructure", "unclean"}
    <3>1. serve.outcome = serve'.outcome /\ serve.tool \in {"compile", "ppa", "finish"}
      BY <1>1, <1>2, <2>4 DEF Tools
    <3>2. CASE serve.tool = "compile" /\ serve'.outcome = "failed"
      <4>1. env' = [env EXCEPT !.compilePassed = serve'.outcome = "ok"]
        BY <3>1, <3>2 DEF Mirror
      <4>2. QED BY <1>1, <1>2, <3>2, <4>1, RecordedNext
    <3>3. CASE serve.tool = "compile" /\ serve'.outcome # "failed"
      BY <1>1, <1>2, <2>4, <3>3, RecordedNext
    <3>4. CASE serve.tool \in {"ppa", "finish"}
      <4>1. env' = env
        BY <3>4 DEF Mirror
      <4>2. QED BY <1>1, <1>2, <2>4, <3>4, <4>1, RecordedNext
    <3>5. QED BY <3>1, <3>2, <3>3, <3>4
  <2>5. QED BY <1>1, <1>2, <2>1, <2>2, <2>3, <2>4 DEF Outcomes
<1>5. QED BY <1>1, <1>3, <1>4 DEF MirrorInv, MirrorAgrees

LEMMA MirrorServe ==
  ASSUME LimitsAssumption, TypeOK, EvidenceInv, MirrorInv, Serve
  PROVE  MirrorInv'
<1>1. ASSUME NEW tool \in Tools, Accept(tool) PROVE MirrorInv'
  BY <1>1, MirrorBetweenCalls DEF Accept, Idle
<1>2. CASE ThreadEnds
  BY <1>2, MirrorBetweenCalls DEF ThreadEnds, Idle
<1>3. CASE TurnAway
  BY <1>3, MirrorBetweenCalls DEF TurnAway, Idle
<1>4. CASE ExceedPatchLimit
  <2>1. PICK b \in Counters :
          /\ broker' = Finalized(b)
          /\ b = [broker EXCEPT !.calls = broker.calls + 1, !.rejected = TRUE,
                                !.limit = "patches"]
    BY <1>4, ExceededPatchLimit
  <2>2. /\ b.patchApplied = broker.patchApplied /\ b.compilePassed = broker.compilePassed
        /\ b.diffObserved = broker.diffObserved /\ b.finished = broker.finished
        /\ b.policy = broker.policy /\ b.infrastructure = broker.infrastructure
    BY <2>1 DEF TypeOK, Counters
  <2>3. QED
    BY <1>4, <2>1, <2>2, FinalizedCounters, MirrorBetweenCalls DEF ExceedPatchLimit, Idle
<1>5. ASSUME NEW malformed \in BOOLEAN, Admit(malformed) PROVE MirrorInv'
  BY <1>5, AdmitCounts, MirrorBetweenCalls DEF Admit, FlagsOf
<1>6. CASE Execute
  BY <1>6, MirrorExecute
<1>7. ASSUME NEW valid \in BOOLEAN, Mirror(valid) PROVE MirrorInv'
  BY <1>7, MirrorMirrors
<1>8. CASE Record
  <2>1. serve.at = "record" /\ serve'.at = "finalize" /\ broker' = Recorded
    BY <1>8, RecordKeepsCounts
  <2>2. broker'.finished = broker.finished /\ ~broker.finished /\ UNCHANGED <<env, history>>
    BY <1>8, RecordKeepsCounts DEF Record, EvidenceInv, EvidenceIsCurrent
  <2>3. FinishIsFinal'
    BY <2>2 DEF MirrorInv, FinishIsFinal
  <2>4. (~Broken)' => env' = FlagsOf(broker)'
    BY <2>1, <2>2 DEF MirrorInv, MirrorAgrees, Broken, FlagsOf
  <2>5. QED BY <2>1, <2>3, <2>4 DEF MirrorInv, MirrorAgrees
<1>9. CASE Finalize
  BY <1>9, FinalizedCounters, MirrorBetweenCalls DEF TypeOK, Finalize, Idle
<1>10. QED
  BY <1>1, <1>2, <1>3, <1>4, <1>5, <1>6, <1>7, <1>8, <1>9 DEF Serve

(* The environment's flags are the broker's whenever no result is on its   *)
(* way from one to the other, and nothing follows an accepted finish.      *)
THEOREM MirrorInvariance == Spec => []MirrorInv
<1>1. Init => MirrorInv
  BY DEF Init, Idle, MirrorInv, FinishIsFinal, MirrorAgrees, FlagsOf
<1>2. TypeOK /\ EvidenceInv /\ MirrorInv /\ [Next]_vars => MirrorInv'
  <2> SUFFICES ASSUME TypeOK, EvidenceInv, MirrorInv, [Next]_vars PROVE MirrorInv'
    OBVIOUS
  <2>1. CASE \/ Request \/ EnterReserve \/ Orchestrate
             \/ \E status \in Statuses : ProcessEnds(status)
    BY <2>1, OutsideTheThread, MirrorUntouched
  <2>2. CASE Serve
    BY <2>2, LimitsAssumption, MirrorServe
  <2>3. CASE UNCHANGED vars
    BY <2>3, MirrorUntouched DEF vars
  <2>4. QED BY <2>1, <2>2, <2>3 DEF Next
<1>3. QED BY <1>1, <1>2, BrokerTypes, EvidenceInvariance, PTL DEF Spec

-----------------------------------------------------------------------------
(* The orchestrator: how far it is decides what it may have decided, a     *)
(* verdict "submit" stands for an accepted finish, and what is handed over *)
(* is the workspace as it was, which a finished broker no longer changes.  *)

Undecided == {"running", "stop", "join", "classify"}

DecisionsInOrder ==
  /\ process.status = "cancelled" => Failed
  /\ process.status = "cancelled" /\ main.verdict # "none" =>
       main.verdict \in {"limit", "policy", "infrastructure"}
  /\ main.at \in Undecided => main.verdict = "none"
  /\ main.at \in Undecided \cup {"step"} => main.outcome = "none"
  /\ main.verdict = "submit" => broker.finished
  /\ main.outcome = "final_submission" => main.verdict = "submit"
  /\ main.outcome # "refused"

HandedOver ==
  /\ main.at \notin {"running", "stop"} => stopping
  /\ main.candidate # None => main.at = "done"
  /\ main.candidate # None /\ serve.at \in {"admit", "execute"} =>
       main.candidate \in {workspace.revision, Quarantined}
  /\ main.verdict = "submit" /\ ~main.rejected =>
       /\ main.at \in {"export", "done"} => main.diff = history.finished
       /\ main.at = "done" => main.candidate = history.finished

HandoverInv == DecisionsInOrder /\ HandedOver

(* The serving thread makes no decision, forgets no failure and no finish, *)
(* and changes the workspace only by a tool of a broker not yet finished.  *)
LEMMA ServeDecidesNothing ==
  ASSUME LimitsAssumption, TypeOK, EvidenceInv, MirrorInv, Serve
  PROVE  /\ UNCHANGED <<main, stopping>> /\ process'.status = process.status
         /\ Failed => Failed'
         /\ broker.finished => broker'.finished /\ history'.finished = history.finished
         /\ serve'.at \in {"admit", "execute"} =>
              /\ workspace' = workspace
              /\ serve.at \in {"admit", "execute"} \/ ~stopping
<1>1. UNCHANGED <<main, stopping>> /\ process'.status = process.status
  <2>1. CASE Execute
    BY <2>1, ExecuteReturns
  <2>2. [process EXCEPT !.answered = Answered].status = process.status
    BY DEF TypeOK, ProcessState
  <2>3. QED
    BY <2>1, <2>2 DEF Serve, Accept, ThreadEnds, TurnAway, ExceedPatchLimit, Admit, Mirror, Record,
                      Finalize
<1>2. ASSUME Failed PROVE Failed'
  <2>1. CASE Record
    BY <1>2, <2>1, RecordKeepsCounts DEF Failed
  <2>2. CASE Finalize
    BY <1>2, <2>2, FinalizedCounters, FinalizedBudget DEF Failed, Finalize, TypeOK
  <2>3. CASE Execute
    BY <1>2, <2>3 DEF Failed, Execute, Patch, InspectDiff, Explore, Compile,
       PpaWithoutSynthesis, PpaSynthesis, TestWithoutResult, Finish, TypeOK, Counters
  <2>4. QED
    BY <1>2, <2>1, <2>2, <2>3 DEF Serve, Accept, ThreadEnds, TurnAway, ExceedPatchLimit, Admit,
                                  Mirror, Failed
<1>3. ASSUME broker.finished PROVE broker'.finished /\ history'.finished = history.finished
  <2>1. serve.at \notin {"execute", "mirror", "record"}
    BY <1>3 DEF EvidenceInv, EvidenceIsCurrent
  <2>2. CASE ExceedPatchLimit
    <3>1. PICK b \in Counters :
            /\ broker' = Finalized(b)
            /\ b = [broker EXCEPT !.calls = broker.calls + 1, !.rejected = TRUE,
                                  !.limit = "patches"]
      BY <2>2, ExceededPatchLimit
    <3>2. b.finished
      BY <1>3, <3>1 DEF TypeOK, Counters
    <3>3. QED BY <2>2, <3>1, <3>2, FinalizedCounters DEF ExceedPatchLimit
  <2>3. CASE Finalize
    BY <1>3, <2>3, FinalizedCounters DEF Finalize, TypeOK
  <2>4. CASE \E malformed \in BOOLEAN : Admit(malformed)
    BY <1>3, <2>4, AdmitCounts DEF Admit
  <2>5. CASE Execute
    BY <2>1, <2>5, ExecuteReturns
  <2>6. QED
    BY <1>3, <2>1, <2>2, <2>3, <2>4, <2>5 DEF Serve, Accept, ThreadEnds, TurnAway, Mirror, Record
<1>4. ASSUME serve'.at \in {"admit", "execute"}
      PROVE  workspace' = workspace /\ (serve.at \in {"admit", "execute"} \/ ~stopping)
  <2>1. CASE Execute
    BY <1>4, <2>1, ExecuteReturns
  <2>2. CASE Record
    BY <1>4, <2>2, RecordKeepsCounts
  <2>3. CASE \E valid \in BOOLEAN : Mirror(valid)
    BY <1>4, <2>3 DEF Mirror, Return, TypeOK, Hand
  <2>4. CASE \E malformed \in BOOLEAN : Admit(malformed)
    BY <2>4 DEF Admit
  <2>5. CASE Finalize \/ ExceedPatchLimit
    BY <1>4, <2>5 DEF Finalize, ExceedPatchLimit, Idle
  <2>6. QED
    BY <1>4, <2>1, <2>2, <2>3, <2>4, <2>5 DEF Serve, Accept, ThreadEnds, TurnAway, Idle
<1>5. QED BY <1>1, <1>2, <1>3, <1>4

(* An open question is answered in order: nothing the thread does reopens  *)
(* or disturbs what was decided or handed over.                            *)
LEMMA HandoverServe ==
  ASSUME LimitsAssumption, TypeOK, EvidenceInv, MirrorInv, HandoverInv, Serve
  PROVE  HandoverInv'
<1>1. DecisionsInOrder'
  BY ServeDecidesNothing DEF HandoverInv, DecisionsInOrder
<1>2. HandedOver'
  <2>1. main.candidate # None => stopping
    BY DEF HandoverInv, HandedOver
  <2>2. main.verdict = "submit" => history'.finished = history.finished
    BY ServeDecidesNothing DEF HandoverInv, DecisionsInOrder
  <2>3. main.candidate # None /\ serve'.at \in {"admit", "execute"} =>
          main.candidate \in {workspace'.revision, Quarantined}
    BY <2>1, ServeDecidesNothing DEF HandoverInv, HandedOver
  <2>4. QED BY <2>2, <2>3, ServeDecidesNothing DEF HandoverInv, HandedOver
<1>3. QED BY <1>1, <1>2 DEF HandoverInv

(* env.step has no reason to refuse a submission: the mirror shows the     *)
(* flags the accepted finish was allowed on.                               *)
LEMMA SubmissionIsAllowed ==
  ASSUME EvidenceInv, MirrorInv, HandoverInv, main.verdict = "submit"
  PROVE  ~StateFailure("finish", env, FALSE)
<1>1. broker.finished
  BY DEF HandoverInv, DecisionsInOrder
<1>2. serve.at # "record" /\ ~Broken
  BY <1>1 DEF EvidenceInv, EvidenceIsCurrent, MirrorInv, FinishIsFinal
<1>3. env = FlagsOf(broker)
  BY <1>2 DEF MirrorInv, MirrorAgrees
<1>4. /\ env.patchApplied /\ env.diffObserved
      /\ CompileRequired => env.compilePassed
  BY <1>1, <1>3 DEF MirrorInv, FinishIsFinal, FlagsOf
<1>5. QED BY <1>4 DEF StateFailure, Tests

LEMMA HandoverOrchestrate ==
  ASSUME LimitsAssumption, TypeOK, EvidenceInv, MirrorInv, HandoverInv, Orchestrate
  PROVE  HandoverInv'
<1> USE DEF HandoverInv, Undecided
<1>1. /\ UNCHANGED <<serve, broker, env, feedback, history, process>>
      /\ workspace'.revision = workspace.revision
      /\ Failed' = Failed
  <2>1. UNCHANGED process
    BY DEF Orchestrate, Stop, Join, Classify, Step, Validate, Freeze, Quarantine, WriteDiff,
           ExportCandidate
  <2>2. QED BY <2>1, OutsideTheThread DEF Failed
<1>2. CASE Stop
  BY <1>1, <1>2 DEF Stop, TypeOK, Decisions, DecisionsInOrder, HandedOver
<1>3. CASE Join
  BY <1>1, <1>3 DEF Join, TypeOK, Decisions, DecisionsInOrder, HandedOver
<1>4. ASSUME NEW verdict \in Verdicts, Classify(verdict) PROVE HandoverInv'
  <2>1. /\ main.at = "classify" /\ main' = [main EXCEPT !.verdict = verdict, !.at = "step"]
        /\ UNCHANGED stopping
    BY <1>4 DEF Classify
  <2>2. verdict = "submit" => broker.finished
    BY <1>4 DEF Classify, Scorable, Verdicts
  <2>3. process.status = "cancelled" => verdict \in {"limit", "policy", "infrastructure"}
    <3>1. process.status = "cancelled" => Failed
      BY DEF DecisionsInOrder
    <3>2. QED BY <1>4, <3>1 DEF Classify, Failed
  <2>4. QED
    BY <1>1, <2>1, <2>2, <2>3 DEF TypeOK, Decisions, DecisionsInOrder, HandedOver
<1>5. ASSUME NEW exhausted \in BOOLEAN, NEW unsafe \in BOOLEAN, Step(exhausted, unsafe)
      PROVE  HandoverInv'
  <2>1. main'.outcome = "final_submission" => main.verdict = "submit"
    BY <1>5 DEF Step, TypeOK, Decisions
  <2>2. main'.outcome # "refused"
    BY <1>5, SubmissionIsAllowed DEF Step, TypeOK, Decisions
  <2>3. /\ main.at = "step" /\ main'.at = "validate" /\ main'.verdict = main.verdict
        /\ main'.candidate = main.candidate /\ main'.diff = main.diff /\ UNCHANGED stopping
    BY <1>5 DEF Step, TypeOK, Decisions
  <2>4. QED BY <1>1, <2>1, <2>2, <2>3 DEF DecisionsInOrder, HandedOver
<1>6. ASSUME NEW valid \in BOOLEAN, Validate(valid) PROVE HandoverInv'
  BY <1>1, <1>6 DEF Validate, TypeOK, Decisions, DecisionsInOrder, HandedOver
<1>7. CASE Freeze
  BY <1>1, <1>7 DEF Freeze, TypeOK, Decisions, DecisionsInOrder, HandedOver
<1>8. CASE Quarantine
  BY <1>1, <1>8 DEF Quarantine, TypeOK, Decisions, DecisionsInOrder, HandedOver
<1>9. main.verdict = "submit" => history.finished = workspace.revision
  BY DEF DecisionsInOrder, EvidenceInv, FinishRestsOnCurrentEvidence
<1>10. CASE WriteDiff
  BY <1>1, <1>9, <1>10 DEF WriteDiff, TypeOK, Decisions, DecisionsInOrder, HandedOver
<1>11. CASE ExportCandidate
  BY <1>1, <1>9, <1>11 DEF ExportCandidate, TypeOK, Decisions, DecisionsInOrder, HandedOver
<1>12. QED
  BY <1>2, <1>3, <1>4, <1>5, <1>6, <1>7, <1>8, <1>10, <1>11 DEF Orchestrate

LEMMA HandoverUntouched ==
  ASSUME HandoverInv, UNCHANGED <<process, serve, broker, main, stopping, history>>,
         workspace'.revision = workspace.revision
  PROVE  HandoverInv'
  BY DEF HandoverInv, DecisionsInOrder, HandedOver, Failed, Undecided

(* The verdict stands for what the broker knew, and the candidate handed   *)
(* over for a clean finish is the one it rested on.                        *)
THEOREM HandoverInvariance == Spec => []HandoverInv
<1>1. Init => HandoverInv
  BY DEF Init, HandoverInv, DecisionsInOrder, HandedOver, Undecided, None
<1>2. TypeOK /\ EvidenceInv /\ MirrorInv /\ HandoverInv /\ [Next]_vars => HandoverInv'
  <2> SUFFICES ASSUME TypeOK, EvidenceInv, MirrorInv, HandoverInv, [Next]_vars
               PROVE  HandoverInv'
    OBVIOUS
  <2>1. CASE Request \/ EnterReserve \/ UNCHANGED vars
    <3>1. UNCHANGED <<process, serve, broker, main, stopping, history, workspace>>
      BY <2>1 DEF Request, EnterReserve, vars
    <3>2. QED BY <3>1, HandoverUntouched
  <2>2. ASSUME NEW status \in Statuses, ProcessEnds(status) PROVE HandoverInv'
    <3>1. process'.status = status /\ main.at = "running" /\ main' = [main EXCEPT !.at = "stop"]
      BY <2>2 DEF ProcessEnds, TypeOK, ProcessState
    <3>2. UNCHANGED <<serve, broker, workspace, stopping, history>> /\ Failed' = Failed
      BY <2>2 DEF ProcessEnds, Failed
    <3>3. status = "cancelled" => Failed
      BY <2>2 DEF ProcessEnds
    <3>4. QED
      BY <3>1, <3>2, <3>3
         DEF HandoverInv, DecisionsInOrder, HandedOver, Undecided, TypeOK, Decisions
  <2>3. CASE Serve
    BY <2>3, LimitsAssumption, HandoverServe
  <2>4. CASE Orchestrate
    BY <2>4, LimitsAssumption, HandoverOrchestrate
  <2>5. QED BY <2>1, <2>2, <2>3, <2>4 DEF Next
<1>3. QED BY <1>1, <1>2, BrokerTypes, EvidenceInvariance, MirrorInvariance, PTL DEF Spec

(* An episode classified as a clean finish is never refused by env.step,   *)
(* although that decides on flags of its own.                              *)
THEOREM CleanFinishIsAlwaysAccepted == Spec => []CleanFinishIsAccepted
<1>1. HandoverInv => CleanFinishIsAccepted
  BY DEF HandoverInv, DecisionsInOrder, CleanFinishIsAccepted
<1>2. QED BY <1>1, HandoverInvariance, PTL

(* The diff and the candidate tree exported for a submitted episode are    *)
(* the one revision that was compiled, inspected and finished, although    *)
(* the serving thread may have outlived stop().                            *)
THEOREM TheFinishedCandidateIsSubmitted == Spec => []SubmittedCandidateIsTheFinishedOne
<1>1. EvidenceInv /\ HandoverInv => SubmittedCandidateIsTheFinishedOne
  BY DEF EvidenceInv, FinishRestsOnCurrentEvidence, HandoverInv, DecisionsInOrder, HandedOver,
         SubmittedCandidateIsTheFinishedOne
<1>2. QED BY <1>1, EvidenceInvariance, HandoverInvariance, PTL

(* A cancelled process is classified by the failure that cancelled it, and *)
(* an episode that may be scored had no failure of its own.                *)
THEOREM CancellationsHaveTheirReason == Spec => []CancellationHasItsReason
<1>1. MirrorInv /\ HandoverInv => CancellationHasItsReason
  BY DEF MirrorInv, FinishIsFinal, HandoverInv, DecisionsInOrder, CancellationHasItsReason
<1>2. QED BY <1>1, MirrorInvariance, HandoverInvariance, PTL

-----------------------------------------------------------------------------
(* Repairs: a pending repair remembers a compile that really failed, on an *)
(* earlier revision than the one in the workspace.  The one exception is a *)
(* new failure in hand, which ends the wait when it is recorded.           *)

FailureInHand ==
  /\ serve.at \in {"mirror", "record"} /\ serve.tool = "compile"
  /\ serve.outcome \in {"failed", "denied"}

RepairIsTracked ==
  /\ history.failedTest <= workspace.revision
  /\ ~Broken =>
       /\ broker.testFailed \/ broker.repairPending => history.failedTest # None
       /\ broker.repairPending /\ ~FailureInHand => history.failedTest < workspace.revision
       /\ serve.at \in {"mirror", "record"} /\ serve.tool = "patch" /\ serve.outcome = "ok" =>
            history.failedTest < workspace.revision
       /\ serve.at \in {"mirror", "record"} /\ serve.tool = "compile"
            /\ serve.outcome = "failed" => history.failedTest = workspace.revision

(* The memory of a failure survives whatever leaves it, the workspace and  *)
(* the failures of the broker alone between two results.                   *)
LEMMA RepairBetweenCalls ==
  ASSUME RepairIsTracked, workspace'.revision = workspace.revision,
         UNCHANGED history,
         serve.at \notin {"mirror", "record"}, serve'.at \notin {"mirror", "record"},
         broker'.testFailed = broker.testFailed,
         broker'.repairPending = broker.repairPending,
         broker'.policy = broker.policy,
         broker'.infrastructure = broker.infrastructure
  PROVE  RepairIsTracked'
  BY DEF RepairIsTracked, FailureInHand, Broken

LEMMA RepairUntouched ==
  ASSUME RepairIsTracked, workspace'.revision = workspace.revision,
         UNCHANGED <<serve, broker, history>>
  PROVE  RepairIsTracked'
  BY DEF RepairIsTracked, FailureInHand, Broken

LEMMA RepairExecute ==
  ASSUME TypeOK, EvidenceInv, RepairIsTracked, Execute
  PROVE  RepairIsTracked'
<1>1. /\ serve.at = "execute" /\ serve'.tool = serve.tool
      /\ workspace'.revision >= workspace.revision
      /\ serve.tool # "finish" => broker' = broker
      /\ serve.tool # "patch" => workspace' = workspace
  BY ExecuteReturns
<1>2. /\ broker'.testFailed = broker.testFailed
      /\ broker'.repairPending = broker.repairPending
  BY <1>1 DEF Execute, Patch, InspectDiff, Explore, Compile, PpaWithoutSynthesis, PpaSynthesis,
              TestWithoutResult, Finish, TypeOK, Counters
<1>3. /\ history.failedTest \in Nat /\ workspace.revision \in Nat \ {0}
      /\ history'.failedTest \in Nat /\ workspace'.revision \in Nat \ {0}
  BY TypeExecute DEF TypeOK, History, Workspace
<1>4. ~Broken /\ ~FailureInHand
  BY <1>1 DEF EvidenceInv, EvidenceIsCurrent, FailureInHand
<1>5. CASE serve.tool = "patch"
  <2>1. PICK kind \in {"write", "delete"}, outcome \in {"ok", "rejected", "denied", "crashed"},
             changed \in BOOLEAN : Patch(kind, outcome, changed)
    BY <1>5 DEF Execute, InspectDiff, Explore, Compile, PpaWithoutSynthesis, PpaSynthesis,
                TestWithoutResult, Finish, Tests
  <2>2. serve'.outcome = outcome /\ UNCHANGED history
    BY <2>1 DEF Patch, Return, TypeOK, Hand
  <2>3. outcome = "ok" => workspace'.revision = workspace.revision + 1
    BY <2>1 DEF Patch, TypeOK, Workspace
  <2>4. QED
    BY <1>1, <1>2, <1>3, <1>4, <1>5, <2>2, <2>3 DEF RepairIsTracked
<1>6. CASE serve.tool = "compile"
  <2>1. CASE \E outcome \in {"ok", "failed", "infrastructure", "unclean"} : Compile(outcome)
    <3>1. PICK outcome \in {"ok", "failed", "infrastructure", "unclean"} : Compile(outcome)
      BY <2>1
    <3>2. /\ serve'.outcome = outcome /\ serve'.at = "mirror"
          /\ history'.failedTest = IF outcome = "failed" THEN workspace.revision
                                                         ELSE history.failedTest
      BY <3>1 DEF Compile, Return, TypeOK, Hand, History
    <3>3. CASE outcome = "failed"
      BY <1>1, <1>3, <1>6, <3>2, <3>3 DEF RepairIsTracked, FailureInHand, None
    <3>4. CASE outcome # "failed"
      BY <1>1, <1>2, <1>3, <1>4, <1>6, <3>2, <3>4 DEF RepairIsTracked, FailureInHand
    <3>5. QED BY <3>3, <3>4
  <2>2. CASE \E outcome \in {"rejected", "denied", "crashed"} : TestWithoutResult(outcome)
    <3>1. serve'.outcome # "failed" /\ UNCHANGED history
      BY <2>2 DEF TestWithoutResult, Return, TypeOK, Hand
    <3>2. QED
      BY <1>1, <1>2, <1>3, <1>4, <1>6, <3>1 DEF RepairIsTracked, FailureInHand
  <2>3. QED
    BY <1>6, <2>1, <2>2 DEF Execute, Patch, InspectDiff, Explore, PpaWithoutSynthesis,
                            PpaSynthesis, Finish
<1>7. CASE serve.tool \notin {"patch", "compile"}
  <2>1. history'.failedTest = history.failedTest
    BY <1>7 DEF Execute, Patch, InspectDiff, Explore, Compile, PpaWithoutSynthesis, PpaSynthesis,
                TestWithoutResult, Finish, TypeOK, History
  <2>2. QED
    BY <1>1, <1>2, <1>3, <1>4, <1>7, <2>1 DEF RepairIsTracked, FailureInHand
<1>8. QED BY <1>5, <1>6, <1>7

(* Recording consumes the result in hand: a patch turns a failure into a   *)
(* pending repair, and a compile ends the wait for one.                    *)
LEMMA RepairRecord ==
  ASSUME TypeOK, EvidenceInv, RepairIsTracked, Record
  PROVE  RepairIsTracked'
<1>1. /\ serve.at = "record" /\ serve'.at = "finalize" /\ broker' = Recorded
      /\ UNCHANGED <<workspace, history>>
  BY RecordKeepsCounts DEF Record
<1>2. ~Broken /\ broker \in Counters /\ workspace.revision \in Nat \ {0}
  BY <1>1 DEF EvidenceInv, EvidenceIsCurrent, TypeOK, Workspace
<1>3. CASE serve.outcome = "ok" /\ serve.tool = "patch"
  <2>1. broker' = PatchRecorded
    BY <1>1, <1>3 DEF Recorded
  <2>2. broker'.testFailed \/ broker'.repairPending => broker.testFailed \/ broker.repairPending
    BY <1>2, <2>1 DEF PatchRecorded, Counters
  <2>3. history.failedTest < workspace.revision
    BY <1>1, <1>2, <1>3 DEF RepairIsTracked
  <2>4. QED BY <1>1, <1>2, <2>2, <2>3 DEF RepairIsTracked
<1>4. CASE serve.outcome \in {"ok", "failed", "infrastructure", "unclean"} /\ serve.tool = "compile"
  <2>1. broker' = CompileRecorded(serve.outcome)
    BY <1>1, <1>4 DEF Recorded
  <2>2. /\ ~broker'.repairPending
        /\ broker'.testFailed => broker.testFailed \/ serve.outcome = "failed"
    BY <1>2, <2>1 DEF CompileRecorded, Counters
  <2>3. broker'.testFailed => history.failedTest # None
    BY <1>1, <1>2, <1>4, <2>2 DEF RepairIsTracked, None
  <2>4. QED BY <1>1, <2>2, <2>3 DEF RepairIsTracked
<1>5. CASE serve.outcome \in {"denied", "crashed"}
  <2>1. Broken'
    BY <1>1, <1>2, <1>5 DEF Recorded, Broken, Counters
  <2>2. QED BY <1>1, <2>1 DEF RepairIsTracked
<1>6. CASE /\ ~(serve.outcome = "ok" /\ serve.tool = "patch")
           /\ ~(serve.outcome \in {"ok", "failed", "infrastructure", "unclean"} /\ serve.tool = "compile")
           /\ serve.outcome \notin {"denied", "crashed"}
  <2>1. ~FailureInHand
    BY <1>6 DEF FailureInHand
  <2>2. broker' \in {[broker EXCEPT !.rejected = TRUE], [broker EXCEPT !.diffObserved = TRUE],
                     [broker EXCEPT !.infrastructure = TRUE], broker}
    BY <1>1, <1>6 DEF Recorded
  <2>3. broker'.testFailed = broker.testFailed /\ broker'.repairPending = broker.repairPending
    BY <1>2, <2>2 DEF Counters
  <2>4. QED BY <1>1, <1>2, <2>1, <2>3 DEF RepairIsTracked
<1>7. QED BY <1>3, <1>4, <1>5, <1>6

LEMMA RepairServe ==
  ASSUME LimitsAssumption, TypeOK, EvidenceInv, RepairIsTracked, Serve
  PROVE  RepairIsTracked'
<1>1. ASSUME NEW tool \in Tools, Accept(tool) PROVE RepairIsTracked'
  BY <1>1, RepairBetweenCalls DEF Accept, Idle
<1>2. CASE ThreadEnds
  BY <1>2, RepairBetweenCalls DEF ThreadEnds, Idle
<1>3. CASE TurnAway
  BY <1>3, RepairBetweenCalls DEF TurnAway, Idle
<1>4. CASE ExceedPatchLimit
  <2>1. PICK b \in Counters :
          /\ broker' = Finalized(b)
          /\ b = [broker EXCEPT !.calls = broker.calls + 1, !.rejected = TRUE,
                                !.limit = "patches"]
    BY <1>4, ExceededPatchLimit
  <2>2. /\ b.testFailed = broker.testFailed /\ b.repairPending = broker.repairPending
        /\ b.policy = broker.policy /\ b.infrastructure = broker.infrastructure
    BY <2>1 DEF TypeOK, Counters
  <2>3. QED
    BY <1>4, <2>1, <2>2, FinalizedCounters, FinalizedBudget, RepairBetweenCalls
       DEF ExceedPatchLimit, Idle
<1>5. ASSUME NEW malformed \in BOOLEAN, Admit(malformed) PROVE RepairIsTracked'
  BY <1>5, AdmitCounts, RepairBetweenCalls DEF Admit
<1>6. CASE Execute
  BY <1>6, RepairExecute
<1>7. ASSUME NEW valid \in BOOLEAN, Mirror(valid) PROVE RepairIsTracked'
  <2>1. /\ serve.at = "mirror" /\ serve'.at = "record" /\ serve'.tool = serve.tool
        /\ serve'.outcome = IF valid THEN serve.outcome ELSE "denied"
        /\ UNCHANGED <<broker, workspace, history>>
    BY <1>7 DEF Mirror, Return, TypeOK, Hand
  <2>2. FailureInHand => FailureInHand'
    BY <2>1 DEF FailureInHand
  <2>3. QED BY <2>1, <2>2 DEF RepairIsTracked, Broken
<1>8. CASE Record
  BY <1>8, RepairRecord
<1>9. CASE Finalize
  BY <1>9, FinalizedCounters, FinalizedBudget, RepairBetweenCalls DEF TypeOK, Finalize, Idle
<1>10. QED
  BY <1>1, <1>2, <1>3, <1>4, <1>5, <1>6, <1>7, <1>8, <1>9 DEF Serve

(* What a pending repair remembers.                                        *)
THEOREM RepairInvariance == Spec => []RepairIsTracked
<1>1. Init => RepairIsTracked
  BY DEF Init, Idle, RepairIsTracked, FailureInHand, None
<1>2. TypeOK /\ EvidenceInv /\ RepairIsTracked /\ [Next]_vars => RepairIsTracked'
  <2> SUFFICES ASSUME TypeOK, EvidenceInv, RepairIsTracked, [Next]_vars PROVE RepairIsTracked'
    OBVIOUS
  <2>1. CASE \/ Request \/ EnterReserve \/ Orchestrate
             \/ \E status \in Statuses : ProcessEnds(status)
    BY <2>1, OutsideTheThread, RepairUntouched
  <2>2. CASE Serve
    BY <2>2, LimitsAssumption, RepairServe
  <2>3. CASE UNCHANGED vars
    BY <2>3, RepairUntouched DEF vars
  <2>4. QED BY <2>1, <2>2, <2>3 DEF Next
<1>3. QED BY <1>1, <1>2, BrokerTypes, EvidenceInvariance, PTL DEF Spec

(* Only recording a compile credits a repair.                              *)
LEMMA RepairsAreRecorded ==
  ASSUME LimitsAssumption, TypeOK, EvidenceInv, [Next]_vars,
         broker'.repaired, ~broker.repaired
  PROVE  /\ Record /\ serve.tool = "compile" /\ broker.repairPending
         /\ serve.outcome \in {"ok", "unclean"}
         /\ broker' = CompileRecorded(serve.outcome)
<1>1. CASE \/ Request \/ EnterReserve \/ Orchestrate
           \/ \E status \in Statuses : ProcessEnds(status)
  BY <1>1, OutsideTheThread
<1>2. CASE UNCHANGED vars
  BY <1>2 DEF vars
<1>3. CASE ExceedPatchLimit
  <2>1. PICK b \in Counters :
          /\ broker' = Finalized(b)
          /\ b = [broker EXCEPT !.calls = broker.calls + 1, !.rejected = TRUE,
                                !.limit = "patches"]
    BY <1>3, ExceededPatchLimit
  <2>2. b.repaired = broker.repaired
    BY <2>1 DEF TypeOK, Counters
  <2>3. QED BY <2>1, <2>2, FinalizedBudget
<1>4. CASE \E malformed \in BOOLEAN : Admit(malformed)
  BY <1>4, AdmitCounts
<1>5. CASE Finalize
  BY <1>5, FinalizedBudget DEF Finalize, TypeOK
<1>6. CASE Execute
  BY <1>6 DEF Execute, Patch, InspectDiff, Explore, Compile, PpaWithoutSynthesis, PpaSynthesis,
              TestWithoutResult, Finish, TypeOK, Counters
<1>7. CASE Record
  <2>1. broker \in Counters /\ broker' = Recorded
    BY <1>7, RecordKeepsCounts DEF TypeOK
  <2>2. CASE serve.tool = "compile" /\ serve.outcome \in {"ok", "failed", "infrastructure", "unclean"}
    <3>1. broker' = CompileRecorded(serve.outcome)
      BY <2>1, <2>2 DEF Recorded
    <3>2. broker.repairPending /\ serve.outcome \in {"ok", "unclean"}
      BY <2>1, <3>1 DEF CompileRecorded, Counters
    <3>3. QED BY <1>7, <2>2, <3>1, <3>2
  <2>3. CASE ~(serve.tool = "compile" /\ serve.outcome \in {"ok", "failed", "infrastructure", "unclean"})
    <3>1. broker' \in {[broker EXCEPT !.policy = TRUE], [broker EXCEPT !.infrastructure = TRUE],
                       [broker EXCEPT !.rejected = TRUE], [broker EXCEPT !.diffObserved = TRUE],
                       PatchRecorded, broker}
      BY <2>1, <2>3 DEF Recorded
    <3>2. broker'.repaired = broker.repaired
      BY <2>1, <3>1 DEF Counters, PatchRecorded
    <3>3. QED BY <3>2
  <2>4. QED BY <2>2, <2>3
<1>8. QED
  BY <1>1, <1>2, <1>3, <1>4, <1>5, <1>6, <1>7
     DEF Next, Serve, Accept, ThreadEnds, TurnAway, Mirror

(* A repair is credited only to a patch that made a failed compile pass,   *)
(* unless the very same call ends the episode.                             *)
THEOREM RepairsAreEarned == Spec => RepairIsEarned
<1>1. ASSUME TypeOK, EvidenceInv, RepairIsTracked, [Next]_vars,
             broker'.repaired, ~broker.repaired, ~broker'.infrastructure
      PROVE  /\ history.failedTest # None
             /\ history.failedTest < feedback.compiled
             /\ feedback.compiled = workspace.revision
  <2>1. /\ Record /\ serve.tool = "compile" /\ broker.repairPending
        /\ serve.outcome \in {"ok", "unclean"}
        /\ broker' = CompileRecorded(serve.outcome)
    BY <1>1, LimitsAssumption, RepairsAreRecorded
  <2>2. serve.outcome = "ok"
    BY <1>1, <2>1 DEF CompileRecorded, TypeOK, Counters
  <2>3. serve.at = "record" /\ ~Broken /\ ~FailureInHand
    BY <1>1, <2>1, <2>2 DEF Record, EvidenceInv, EvidenceIsCurrent, FailureInHand
  <2>4. feedback.compiled = workspace.revision
    BY <1>1, <2>1, <2>2, <2>3 DEF EvidenceInv, EvidenceIsCurrent, InHandIsKnown
  <2>5. QED BY <1>1, <2>1, <2>3, <2>4 DEF RepairIsTracked
<1>2. QED
  BY <1>1, BrokerTypes, EvidenceInvariance, RepairInvariance, PTL DEF Spec, RepairIsEarned

-----------------------------------------------------------------------------
(* The refinement of CandidateEvidence: revisions, compiles and diffs are  *)
(* those of the tools, a submission is an accepted finish, and what is     *)
(* handed over is an export that was not quarantined.                      *)

(* A revision is never mistaken for a quarantined export.                  *)
LEMMA RevisionsAreNotQuarantined ==
  ASSUME LimitsAssumption, TypeOK, BudgetInv
  PROVE  workspace.revision \in Nat \ {None, Quarantined} /\ Quarantined # None
<1>1. workspace.revision <= broker.patches + 1
  BY Naturals DEF BudgetInv, RevisionsAreCounted
<1>2. workspace.revision <= MaxPatchCalls + 1
  BY <1>1, Naturals DEF BudgetInv, LimitsHold
<1>3. QED BY <1>2, Naturals DEF Quarantined, None

Exported == IF main.candidate = Quarantined THEN None ELSE main.candidate

EvidenceVars ==
  <<workspace.revision, feedback.compiled, history.inspected, history.finished, Exported>>

(* The tools are the steps of the abstract machine, as long as nothing has *)
(* been submitted: afterwards none runs.                                   *)
LEMMA RefinedExecute ==
  ASSUME LimitsAssumption, TypeOK, EvidenceInv, BudgetInv, MirrorInv, HandoverInv, Execute
  PROVE  [Evidence!Next]_EvidenceVars
<1>1. /\ serve.at = "execute" /\ UNCHANGED main /\ Exported' = Exported
      /\ history.finished = None /\ ~StateFailure(serve.tool, broker, broker.finished)
  <2>1. serve.at = "execute" /\ UNCHANGED main
    BY ExecuteReturns
  <2>2. ~broker.finished /\ ~StateFailure(serve.tool, broker, broker.finished)
    BY <2>1 DEF EvidenceInv, EvidenceIsCurrent
  <2>3. QED BY <2>1, <2>2 DEF MirrorInv, FinishIsFinal, Exported
<1>2. Evidence!None = None
  BY DEF Evidence!None, None
<1>3. ASSUME NEW kind \in {"write", "delete"},
             NEW outcome \in {"ok", "rejected", "denied", "crashed"},
             NEW changed \in BOOLEAN, Patch(kind, outcome, changed)
      PROVE  [Evidence!Next]_EvidenceVars
  <2>1. /\ UNCHANGED <<feedback, history>>
        /\ workspace'.revision = workspace.revision + IF changed THEN 1 ELSE 0
    BY <1>3 DEF Patch, TypeOK, Workspace
  <2>2. CASE changed
    BY <1>1, <1>2, <2>1, <2>2 DEF Evidence!Next, Evidence!Change, Exported
  <2>3. CASE ~changed
    BY <1>1, <2>1, <2>3, Naturals DEF EvidenceVars
  <2>4. QED BY <2>2, <2>3
<1>4. ASSUME NEW outcome \in {"ok", "rejected", "denied", "crashed"}, InspectDiff(outcome)
      PROVE  [Evidence!Next]_EvidenceVars
  <2>1. /\ UNCHANGED <<feedback, workspace>> /\ history'.finished = history.finished
        /\ history'.inspected = IF outcome = "ok" THEN workspace.revision ELSE history.inspected
    BY <1>4 DEF InspectDiff, TypeOK, History
  <2>2. CASE outcome = "ok"
    BY <1>1, <1>2, <2>1, <2>2 DEF Evidence!Next, Evidence!Inspect, Exported
  <2>3. CASE outcome # "ok"
    BY <1>1, <2>1, <2>3 DEF EvidenceVars
  <2>4. QED BY <2>2, <2>3
<1>5. ASSUME NEW outcome \in {"ok", "failed", "infrastructure", "unclean"}, Compile(outcome)
      PROVE  [Evidence!Next]_EvidenceVars
  <2> DEFINE passed == outcome = "ok"
  <2>1. /\ UNCHANGED workspace /\ history'.finished = history.finished
        /\ history'.inspected = history.inspected
        /\ feedback'.compiled = IF passed THEN workspace.revision ELSE None
    BY <1>5 DEF Compile, TypeOK, History, Feedback
  <2>2. passed \in BOOLEAN
    OBVIOUS
  <2> HIDE DEF passed
  <2>3. Evidence!Compile(passed)
    BY <1>1, <1>2, <2>1 DEF Evidence!Compile, Exported
  <2>4. QED BY <2>2, <2>3 DEF Evidence!Next
<1>6. ASSUME UNCHANGED <<workspace, history>>, feedback'.compiled = feedback.compiled
      PROVE  [Evidence!Next]_EvidenceVars
  BY <1>1, <1>6 DEF EvidenceVars
<1>7. ASSUME NEW outcome, NEW dispatched, PpaSynthesis(outcome, dispatched)
      PROVE  [Evidence!Next]_EvidenceVars
  <2>1. UNCHANGED <<workspace, history>> /\ feedback'.compiled = feedback.compiled
    BY <1>7 DEF PpaSynthesis, TypeOK, Feedback
  <2>2. QED BY <1>6, <2>1
<1>8. ASSUME NEW outcome, Explore(outcome) \/ PpaWithoutSynthesis(outcome) \/ TestWithoutResult(outcome)
      PROVE  [Evidence!Next]_EvidenceVars
  BY <1>6, <1>8 DEF Explore, PpaWithoutSynthesis, TestWithoutResult
<1>9. CASE Finish
  <2>1. /\ UNCHANGED <<workspace, feedback>> /\ history'.finished = workspace.revision
        /\ history'.inspected = history.inspected
        /\ serve.tool = "finish"
    BY <1>9 DEF Finish, TypeOK, History
  <2>2. /\ workspace.revision > 1 /\ history.inspected = workspace.revision
        /\ CompileRequired => feedback.compiled = workspace.revision
    BY <1>1, <2>1 DEF StateFailure, EvidenceInv, EvidenceIsCurrent
  <2>3. Exported \in {None, workspace.revision}
    BY <1>1 DEF HandoverInv, HandedOver, Exported
  <2>4. Evidence!Submit
    BY <1>1, <1>2, <2>1, <2>2, <2>3 DEF Evidence!Submit, Exported
  <2>5. QED BY <2>4 DEF Evidence!Next
<1>10. QED BY <1>3, <1>4, <1>5, <1>7, <1>8, <1>9 DEF Execute

LEMMA RefinedNext ==
  ASSUME LimitsAssumption, TypeOK, EvidenceInv, BudgetInv, MirrorInv, HandoverInv, [Next]_vars
  PROVE  [Evidence!Next]_EvidenceVars
<1>1. ASSUME UNCHANGED <<main, feedback, history>>, workspace'.revision = workspace.revision
      PROVE  [Evidence!Next]_EvidenceVars
  BY <1>1 DEF EvidenceVars, Exported
<1>2. CASE Execute
  BY <1>2, RefinedExecute
<1>3. CASE Serve /\ ~Execute
  <2>1. UNCHANGED <<main, feedback, history, workspace>>
    BY <1>3 DEF Serve, Accept, ThreadEnds, TurnAway, ExceedPatchLimit, Admit, Mirror, Record, Finalize
  <2>2. QED BY <1>1, <2>1
<1>4. CASE Request \/ EnterReserve \/ UNCHANGED vars
  BY <1>1, <1>4 DEF Request, EnterReserve, vars
<1>5. ASSUME \/ Orchestrate \/ \E status \in Statuses : ProcessEnds(status),
             main'.candidate = main.candidate
      PROVE  [Evidence!Next]_EvidenceVars
  BY <1>5, OutsideTheThread DEF EvidenceVars, Exported
<1>6. CASE ExportCandidate
  <2>1. UNCHANGED <<workspace, feedback, history>> /\ main.candidate = None
        /\ main'.candidate = workspace.revision
    BY <1>6 DEF ExportCandidate, HandoverInv, HandedOver, TypeOK, Decisions
  <2>2. Exported = None /\ Exported' = workspace.revision
    BY <2>1, RevisionsAreNotQuarantined DEF Exported
  <2>3. Evidence!HandOver
    BY <2>1, <2>2 DEF Evidence!HandOver, Evidence!None, None, Exported
  <2>4. QED BY <2>3 DEF Evidence!Next
<1>7. CASE Quarantine
  <2>1. UNCHANGED <<workspace, feedback, history>> /\ main.candidate = None
        /\ main'.candidate = Quarantined
    BY <1>7 DEF Quarantine, HandoverInv, HandedOver, TypeOK, Decisions
  <2>2. Exported = None /\ Exported' = None
    BY <2>1 DEF Exported
  <2>3. QED BY <2>1, <2>2 DEF EvidenceVars
<1>8. CASE \/ Orchestrate /\ ~ExportCandidate /\ ~Quarantine
           \/ \E status \in Statuses : ProcessEnds(status)
  <2>1. main'.candidate = main.candidate
    BY <1>8 DEF Orchestrate, Stop, Join, Classify, Step, Validate, Freeze, WriteDiff, ProcessEnds,
                TypeOK, Decisions
  <2>2. QED BY <1>5, <1>8, <2>1
<1>9. QED BY <1>2, <1>3, <1>4, <1>6, <1>7, <1>8 DEF Next

(* The episode implements the abstract candidate machine: what is submitted *)
(* is current evidence's revision, nothing changes after, and no other      *)
(* revision than the submitted one is handed over.                          *)
THEOREM EvidenceRefinement == Spec => ImplementsEvidence
<1>1. Init => Evidence!Init
  BY LimitsAssumption DEF Init, Evidence!Init, Evidence!None, None, Quarantined, LimitsAssumption
<1>2. TypeOK /\ EvidenceInv /\ BudgetInv /\ MirrorInv /\ HandoverInv /\ [Next]_vars
        => [Evidence!Next]_Evidence!vars
  BY LimitsAssumption, RefinedNext DEF Evidence!vars, EvidenceVars, Exported
<1>3. QED
  BY <1>1, <1>2, BrokerTypes, EvidenceInvariance, BudgetInvariance, MirrorInvariance,
     HandoverInvariance, PTL DEF Spec, ImplementsEvidence, Evidence!Spec

=============================================================================
