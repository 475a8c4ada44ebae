CONSTANTS
    i1 = i1
    Info <- MCInfo
    MaxPending = 1
    WEB_SERVER_AUTO_START = TRUE
    MaxStarts = 2
    Take = {1, 2}
    None = 0
    MaxJobs = 2
SPECIFICATION MCSpec
INVARIANTS
    ConvergedWhenSettled
    BeliefMatchesSystem
    ListenerIsKeptAlive
    RestIsOff
PROPERTIES
    QueueDrains
CHECK_DEADLOCK FALSE
