SPECIFICATION Spec
CONSTANTS
  N = 2
  ModelBearing <- FirstTwoItems
  Reserved <- OneCallEach
  MaxProcesses = 2
  MaxApiCalls = 2
  MaxWorkers = 2
  Strict = TRUE
  ContinueOnInfra = TRUE
  MaxTotalInfra <- NoLimit
  MaxSameShared <- NoLimit
  SharedCategories <- NoCategory
  CheckpointInterval <- NoLimit
  ContractFailures <- Failure
  MaxSessions = 2
  MaxTampers = 0
INVARIANT ActiveCountIsExact
INVARIANT TerminalEventsAreIndexed
INVARIANT AuthorizationIsNeverConsumed
INVARIANT SealedExperimentIsComplete
CHECK_DEADLOCK FALSE
