SPECIFICATION FairSpec
CONSTANTS
    u1 = u1
    u2 = u2
    NoUpload = NoUpload
    Uploads <- OneUpload
    ChunkCount <- TwoChunks
    Daemons <- UnresolvedOnly
    AnswerShapes <- DictOnly
    MaxRetries = 2
    FaultBound = 0
    WriteBound = 1
    RetryBound = 0
PROPERTIES
    ErrorsStopUploads
