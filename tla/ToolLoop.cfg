CONSTANTS
  Kits <- EveryToolOrThree
  MaxTurns = 3
  MaxBatch = 2
  KeepRecent = 1
  MaxEpisodes = 2
SPECIFICATION Spec
INVARIANT TypeOK
INVARIANT WorkspaceBacksRow
INVARIANT RecordsTellTheTruth
INVARIANT RequestsAreWellFormed
CHECK_DEADLOCK FALSE
