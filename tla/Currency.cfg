SPECIFICATION FairSpec
CONSTANTS
    token = token
    native = native
    tennis = tennis
    golf = golf
    penny = penny
    Token = token
    Native = native
    ReserveNames <- AllReserves
    Plans <- SomePlans
    Required <- FourButOne
    InitialFunds <- RichAndPoor
    RefillBound <- OneForPoor
    Epsilon = 1
    MaxRetries = 2
    FaultBound = 1
INVARIANTS
    TypeOK
    IdentityOnItsCommitment
    DefineLast
    CompleteIsDefined
    PaidOnce
PROPERTIES
    EveryRequestEnds
