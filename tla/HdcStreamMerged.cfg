SPECIFICATION MCSpec
CONSTANTS
    s1 = s1
    s2 = s2
    Old = Old
    None = None
    UsbSession <- MCUsbSession
    UsbScenarios <- MCUsbScenarios
    Scenarios <- MCScenarios
    BUF_SIZE_DEFAULT16 = 2
    bufSize = 6
    sizeWanted = 3
    MaxBeats = 1
INVARIANTS
    NothingIsGarbage
CHECK_DEADLOCK FALSE
