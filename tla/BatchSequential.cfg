SPECIFICATION Spec
CONSTANTS
  N = 2
  ModelBearing <- NoItems
  Reserved <- NoCalls
  MaxProcesses <- NoLimit
  MaxApiCalls <- NoLimit
  MaxWorkers = 1
  Strict = FALSE
  ContinueOnInfra = FALSE
  MaxTotalInfra <- NoLimit
  MaxSameShared <- NoLimit
  SharedCategories <- NoCategory
  CheckpointInterval <- NoLimit
  ContractFailures <- Failure
  MaxSessions = 3
  MaxTampers = 1
INVARIANT NoWorkIsRepeated
INVARIANT FailFastBoundsFaults
INVARIANT AttemptsAreGapFree
INVARIANT FilesStayLoadable
INVARIANT CountersMatchIndex
PROPERTY IndexHistoryIsKept
CHECK_DEADLOCK FALSE
