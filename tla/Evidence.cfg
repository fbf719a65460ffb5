SPECIFICATION Spec
CONSTANTS
  ft = ft
  ff = ff
  st = st
  xml = xml
  NoPath = NoPath
  NoJob = NoJob
  FailureIds = {ft, ff}
  Source <- MCSource
  CodePaths = {st, xml}
  XmlPaths = {xml}
  Plans <- MCPlans
  Batches <- MCBatches
  MaxRepairRounds = 2
  MaxWorkerCalls = 3
  MaxParallelWorkers = 2
INVARIANT TypeOK
INVARIANT FlagTruthful
INVARIANT SuccessMarkerIsClean
INVARIANT MarkersFollowWorkers
INVARIANT RowReadable
INVARIANT CountersBalance
INVARIANT FirstRepairIsRetested
PROPERTY FailuresAreKept
PROPERTY LateResultsChangeNothing
CHECK_DEADLOCK FALSE
