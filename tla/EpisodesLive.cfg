SPECIFICATION FairSpec
CONSTANTS
    Messages = {m1}
    Start = start
    NoEpisode = no_episode
    NoCopy = no_copy
    MaxTurns = 1
    MaxFaults = 1
CHECK_DEADLOCK FALSE
PROPERTIES
    EveryInvocationEnds
    IdleWaitingTaskIsResumed
    LeaseEventuallyFree
