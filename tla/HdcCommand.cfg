SPECIFICATION FairSpec
CONSTANTS
    c1 = c1
    c2 = c2
    None = None
    Cmd <- MCCmd
    MaxSeq = 1
    MaxCrashes = 1
INVARIANTS
    OutputIsOwn
PROPERTIES
    SettlesOnce
    EveryCommandSettles
CHECK_DEADLOCK FALSE
