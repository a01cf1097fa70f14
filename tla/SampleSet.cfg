SPECIFICATION Spec
CONSTANTS
  Nodes <- MCNodes
  Graphs <- MCGraphs
  RequiredNodes <- MCRequired
  StrictGraphs <- LicensedOnly
  N = 3
  RequestedK <- Ks
  Fingerprints = {f1, f2}
  MaxErrors = 1
  MaxDamages = 1
SYMMETRY Symmetry
INVARIANT ResolvedMeansVerified
INVARIANT PassAtKIsExact
INVARIANT ValuesAreOfWholeSets
PROPERTY ReportsAgree
CHECK_DEADLOCK FALSE
