SPECIFICATION Spec
CONSTANTS
  N = 1
  ModelBearing <- FirstItem
  Reserved <- OneCallEach
  MaxProcesses = 1
  MaxApiCalls = 1
  MaxWorkers = 1
  Strict = TRUE
  ContinueOnInfra = TRUE
  MaxTotalInfra <- NoLimit
  MaxSameShared <- NoLimit
  SharedCategories <- NoCategory
  CheckpointInterval <- NoLimit
  ContractFailures <- Failure
  MaxSessions = 2
  MaxTampers = 0
INVARIANT ValidMeansVetted
CHECK_DEADLOCK FALSE
