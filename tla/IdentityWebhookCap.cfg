SPECIFICATION Spec
CONSTANTS
    r1 = r1
    r2 = r2
    name1 = name1
    w1 = w1
    w2 = w2
    NoWorker = NoWorker
    NoRequest = NoRequest
    NoItem = NoItem
    Requests <- OneRequest
    Names <- OneName
    NameOf <- SameName
    Hooked <- FirstHooked
    Broken <- NoneBroken
    Workers <- OneWorker
    MaxRetries = 3
    WebhookMaxRetries = 2
    MaxFeeBumps = 1
    FaultBound = 1
    RequeueBound = 0
    RefusalBound = 3
INVARIANTS
    WebhookAttemptsCapped
