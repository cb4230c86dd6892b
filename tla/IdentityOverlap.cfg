SPECIFICATION Spec
CONSTANTS
    r1 = r1
    r2 = r2
    name1 = name1
    w1 = w1
    w2 = w2
    NoWorker = NoWorker
    NoRequest = NoRequest
    NoItem = NoItem
    Requests <- TwoRequests
    Names <- OneName
    NameOf <- SameName
    Hooked <- NoneHooked
    Broken <- NoneBroken
    Workers <- TwoWorkers
    MaxRetries = 1
    WebhookMaxRetries = 1
    MaxFeeBumps = 0
    FaultBound = 0
    RequeueBound = 0
    RefusalBound = 2
SYMMETRY Interchangeable
INVARIANTS
    CompleteIsOnChain
    SubmittedIsOwn
    IndInv
PROPERTIES
    DeletedStaysDeleted
