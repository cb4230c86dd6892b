SPECIFICATION PartsSpec
CONSTANTS
    Unit = 10
    Parts = 4
    EnvOffers <- SomeOffers
    Fees <- SomeFees
    Indexes <- SomeIndexes
    Prices <- SomePrices
    Rates <- SomeRates
    MaxFeeBumps = 2
    Options <- AllOptions
    FewOptions <- TwoOfEachKind
    FileSizes <- SomeSizes
    ChunkSizes <- SomeChunks
    MaxChunk = 4
    MaxUpload = 12
    r1 = r1
    Request = r1
    Timeouts <- ShortAndLong
    Polls <- FastAndSlow
    Latency = 2
    Oversleep = 1
    Horizon = 15
CHECK_DEADLOCK FALSE
INVARIANTS
    OfferIsWithinFee
    QueuedIffSound
    ChunksCoverFile
    TypeOK
    ReportIsFinal
    FinishedInTimeIsReported
    OverrunIsBounded
    WaitInv
PROPERTIES
    BumpsFollowRate
