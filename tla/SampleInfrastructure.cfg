SPECIFICATION Spec
CONSTANTS
  Nodes <- MCNodes
  Graphs <- OpenOnly
  RequiredNodes <- OpenRequired
  StrictGraphs <- NoneStrict
  N = 2
  RequestedK <- Ks
  Fingerprints = {f1, f2}
  MaxErrors = 1
  MaxDamages = 1
INVARIANT NoInfrastructureResultIsCanonical
CHECK_DEADLOCK FALSE
