SPECIFICATION Spec
CONSTANTS
    f1 = f1
    f2 = f2
    Files <- MCFiles
    Jobs <- MCJobs
    MaxBlocks = 2
    None = None
INVARIANTS
    SuccessIsComplete
    FilesAreKept
PROPERTIES
    BothEnd
CHECK_DEADLOCK FALSE
