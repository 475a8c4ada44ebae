SPECIFICATION FairSpec
CONSTANTS
    c1 = c1
    c2 = c2
    f1 = f1
    None = None
    Dir = Dir
    Unsafe = Unsafe
    Old = Old
    Hole = Hole
    Conn <- TwoConns
    File <- OneFile
    Request <- Requests
    HeaderLimit = 2
    MaxTransfer = 2
    EchoLimit = 1
    SendChunk = 1
INVARIANTS
    AnswerFits
PROPERTIES
    UploadIsExact
    CompleteIsAnswered
CHECK_DEADLOCK FALSE
