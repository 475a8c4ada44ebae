SPECIFICATION MCSpec
CONSTANTS
    c1 = c1
    c2 = c2
    Listen = Listen
    Scenarios <- MCScenarios
    MaxLink = 3
    MaxSaid = 2
    MaxArrived = 3
INVARIANTS
    StreamIsPrefix
    GoneIsEmpty
    DeviceInOrder
PROPERTIES
    BothEnd
    PointIsFreed
CHECK_DEADLOCK FALSE
