SPECIFICATION FairSpec
CONSTANTS
    r1 = r1
    r2 = r2
    name1 = name1
    w1 = w1
    w2 = w2
    NoWorker = NoWorker
    NoRequest = NoRequest
    NoItem = NoItem
    Requests <- TwoRequests
    Names <- OneName
    NameOf <- SameName
    Hooked <- FirstHooked
    Broken <- NoneBroken
    Workers <- OneWorker
    MaxRetries = 2
    WebhookMaxRetries = 2
    MaxFeeBumps = 1
    FaultBound = 1
    RequeueBound = 1
    RefusalBound = 2
INVARIANTS
    TypeOK
    CommitmentFirst
    CompleteIsOnChain
    SubmittedIsOwn
    FailedWhenExhausted
    DeliveredWasAcked
    EventsMatchRow
PROPERTIES
    LifecycleSafe
    DeletedStaysDeleted
    AttemptsOnlyGrow
    EverySettles
    EveryHookIsTold
