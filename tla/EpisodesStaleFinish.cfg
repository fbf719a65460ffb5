SPECIFICATION Spec
CONSTANTS
    Messages = {m1}
    Start = start
    NoEpisode = no_episode
    NoCopy = no_copy
    MaxTurns = 1
    MaxFaults = 0
CHECK_DEADLOCK FALSE
PROPERTY
    CancelledIsNotFinished
