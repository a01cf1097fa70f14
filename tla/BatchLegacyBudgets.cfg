SPECIFICATION FairSpec
CONSTANTS
  N = 2
  ModelBearing <- FirstTwoItems
  Reserved <- OneAndTwoCalls
  MaxProcesses = 2
  MaxApiCalls = 2
  MaxWorkers = 2
  Strict = FALSE
  ContinueOnInfra = TRUE
  MaxTotalInfra <- NoLimit
  MaxSameShared <- NoLimit
  SharedCategories <- NoCategory
  CheckpointInterval <- NoLimit
  ContractFailures <- ConfigurationError
  MaxSessions = 2
  MaxTampers = 0
INVARIANT LaunchesAreAuthorizedOnce
INVARIANT BudgetsHold
PROPERTY ImplementsLedger
PROPERTY SessionsEnd
CHECK_DEADLOCK FALSE
