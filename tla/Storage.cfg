SPECIFICATION SharedSpec
CONSTANTS
    u1 = u1
    u2 = u2
    NoUpload = NoUpload
    Uploads <- TwoUploads
    ChunkCount <- TwoAndOne
    Daemons <- AnyDaemon
    AnswerShapes <- AnyAnswer
    MaxRetries = 2
    FaultBound = 1
    WriteBound = 2
    RetryBound = 1
INVARIANTS
    TypeOK
    ConfirmedIsMined
    CompleteIsWhole
    NoNeedlessRewrite
PROPERTIES
    WritesAreKept
    ProgressKept
    EveryUploadEnds
