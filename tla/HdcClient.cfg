SPECIFICATION Spec
CONSTANTS
    Scenarios <- MCScenarios
    MaxRetry = 2
    MaxWait = 3
    MaxWrites = 1
INVARIANTS
    PrintsAll
    RunsOnceWhereBound
PROPERTY
    Returns
CHECK_DEADLOCK FALSE
