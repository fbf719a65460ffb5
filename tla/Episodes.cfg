SPECIFICATION Spec
CONSTANTS
    Messages = {m1}
    Start = start
    NoEpisode = no_episode
    NoCopy = no_copy
    MaxTurns = 2
    MaxFaults = 1
CHECK_DEADLOCK FALSE
INVARIANTS
    TypeOK
    LeaseRecordTruthful
    ExclusiveUnlessStaleWrite
PROPERTY
    TerminalIsFinal
