SPECIFICATION Spec
CONSTANTS
  N = 4
  MaxFaults = 4
  MaxLaunches = 2
INVARIANT EpisodesFollowPolicy
INVARIANT JournalLagsByOne
INVARIANT CompletedMeansClean
INVARIANT MarkedTasksAreConsumed
INVARIANT CandidatesAreEvidenced
PROPERTY JournalOnlyGrows
CHECK_DEADLOCK FALSE
