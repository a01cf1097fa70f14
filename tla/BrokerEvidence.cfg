CONSTANTS
  CompileRequired = TRUE
  MaxToolCalls = 5
  MaxPatchCalls = 2
  MaxRejected = 2
  MaxExploratory = 1
  PpaMaxExecutions = 1
  Reserve = TRUE
  Backlog = 1
  CallBound = 6
SPECIFICATION FairSpec
INVARIANT LimitsHold
INVARIANT FinishRestsOnCurrentEvidence
INVARIANT PpaGatesAgree
INVARIANT CleanFinishIsAccepted
INVARIANT SubmittedCandidateIsTheFinishedOne
INVARIANT CancellationHasItsReason
PROPERTY RepairIsEarned
PROPERTY ImplementsEvidence
PROPERTY EpisodeEnds
CHECK_DEADLOCK FALSE
