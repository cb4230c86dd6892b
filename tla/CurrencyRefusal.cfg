SPECIFICATION Spec
CONSTANTS
    token = token
    native = native
    tennis = tennis
    golf = golf
    penny = penny
    Token = token
    Native = native
    ReserveNames <- OneReserve
    Plans <- GivenOnly
    Required <- FourOfEach
    InitialFunds <- TwelveOfEach
    RefillBound <- NoneForAny
    Epsilon = 1
    MaxRetries = 2
    FaultBound = 0
INVARIANTS
    NoDuplicateSends
