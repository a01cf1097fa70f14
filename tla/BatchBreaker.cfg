SPECIFICATION Spec
CONSTANTS
  N = 3
  ModelBearing <- FirstTwoItems
  Reserved <- OneCallEach
  MaxProcesses = 2
  MaxApiCalls <- NoLimit
  MaxWorkers = 1
  Strict = TRUE
  ContinueOnInfra = TRUE
  MaxTotalInfra = 2
  MaxSameShared = 2
  SharedCategories <- TransportAndRateLimit
  CheckpointInterval = 1
  ContractFailures <- Failure
  MaxSessions = 2
  MaxTampers = 0
INVARIANT BreakerBoundsFaults
INVARIANT CheckpointsTrackTheIndex
CHECK_DEADLOCK FALSE
