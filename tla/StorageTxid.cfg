SPECIFICATION Spec
CONSTANTS
    u1 = u1
    u2 = u2
    NoUpload = NoUpload
    Uploads <- OneUpload
    ChunkCount <- TwoChunks
    Daemons <- EnabledOnly
    AnswerShapes <- AnyAnswer
    MaxRetries = 2
    FaultBound = 0
    WriteBound = 1
    RetryBound = 0
INVARIANTS
    TxidsAreDurable
