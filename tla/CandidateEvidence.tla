-------------------------- MODULE CandidateEvidence -------------------------
(***************************************************************************)
(* What an AgentEval episode promises about the candidate it submits.  The *)
(* candidate goes through numbered revisions.  A compile vouches for the   *)
(* revision it ran on and a diff shows one; the candidate is submitted     *)
(* only while both hold for its current revision, it does not change       *)
(* afterwards, and what is handed to the verifier is what was submitted.   *)
(***************************************************************************)
EXTENDS Naturals

CONSTANT CompileRequired   \* whether a submission needs a passing compile

None == 0                  \* no revision: revisions count from 1

VARIABLES revision, compiled, inspected, submitted, exported

vars == <<revision, compiled, inspected, submitted, exported>>

Init ==
  /\ revision = 1
  /\ compiled = None /\ inspected = None
  /\ submitted = None /\ exported = None

\* Some files of the candidate are written or deleted.
Change ==
  /\ submitted = None
  /\ revision' = revision + 1
  /\ UNCHANGED <<compiled, inspected, submitted, exported>>

Compile(passed) ==
  /\ submitted = None
  /\ compiled' = IF passed THEN revision ELSE None
  /\ UNCHANGED <<revision, inspected, submitted, exported>>

Inspect ==
  /\ submitted = None
  /\ inspected' = revision
  /\ UNCHANGED <<revision, compiled, submitted, exported>>

Submit ==
  /\ submitted = None
  /\ revision > 1                      \* the task's own files are no answer
  /\ inspected = revision
  /\ CompileRequired => compiled = revision
  /\ exported \in {None, revision}
  /\ submitted' = revision
  /\ UNCHANGED <<revision, compiled, inspected, exported>>

HandOver ==
  /\ exported = None
  /\ exported' = revision
  /\ UNCHANGED <<revision, compiled, inspected, submitted>>

Next ==
  \/ Change \/ Inspect \/ Submit \/ HandOver
  \/ \E passed \in BOOLEAN : Compile(passed)

Spec == Init /\ [][Next]_vars
=============================================================================
