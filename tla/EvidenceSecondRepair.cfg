SPECIFICATION Spec
CONSTANTS
  ft = ft
  ff = ff
  st = st
  xml = xml
  NoPath = NoPath
  NoJob = NoJob
  FailureIds = {ft, ff}
  Source <- MCSource
  CodePaths = {st}
  XmlPaths = {}
  Plans <- None
  Batches <- None
  MaxRepairRounds = 2
  MaxWorkerCalls = 3
  MaxParallelWorkers = 2
INVARIANT RepairedCodeIsRetested
CHECK_DEADLOCK FALSE
