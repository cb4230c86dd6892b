SPECIFICATION FairSpec
CONSTANTS
    r1 = r1
    name1 = name1
    u1 = u1
    token = token
    native = native
    Requests <- OneRequest
    Names <- OneName
    NameOf <- ThatName
    Hooked <- NoneHooked
    Broken <- NoneBroken
    Worker = Worker
    NoWorker = NoWorker
    NoRequest = NoRequest
    NoItem = NoItem
    WebhookMaxRetries = 1
    MaxFeeBumps = 0
    RequeueBound = 0
    RefusalBound = 0
    Uploads <- OneUpload
    ChunkCount <- OneChunk
    NoUpload = NoUpload
    Daemons <- MayBeMissing
    AnswerShapes <- AnyAnswer
    WriteBound = 1
    RetryBound = 0
    Token = token
    Native = native
    ReserveNames <- NoReserve
    Plans <- NativeBasket
    Required <- FourOfNative
    InitialFunds <- FourOfNative
    RefillBound <- NoneOfNative
    Epsilon = 1
    MaxRetries = 1
    FaultBound = 1
    KindChoices <- Pairs
PROPERTIES
    LoopServesAll
    EveryKindEnds
