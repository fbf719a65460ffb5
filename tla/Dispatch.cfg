SPECIFICATION FairSpec
CONSTANTS
  e1 = e1
  e2 = e2
  Episodes = {e1, e2}
  MaxJobs = 3
  MaxBeside = 2
  Route <- MixedRoute
  Scenario = "test_failed_then_repair_pass"
  Streams <- MCStreams
  Replies <- MCReplies
  Outages = {"timeout", "slow"}
  CodeSizes = {1, 3}
  MaxChars = 2
  Properties = FALSE
  MaxParallelWorkers = 2
  MaxWorkerCalls = 6
  MaxRepairRounds = 2
  MaxRetries = 1
  MaxFaults = 1
INVARIANT TypeOK
INVARIANT PassedJobHasItsFiles
INVARIANT EvidenceIsOnDisk
INVARIANT SlotsAreExact
INVARIANT RetriesAreBounded
PROPERTY LateResultsChangeNothing
PROPERTY LedgerSpec
PROPERTY EveryCallReturns
CHECK_DEADLOCK FALSE
