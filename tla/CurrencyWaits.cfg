SPECIFICATION Spec
CONSTANTS
    token = token
    native = native
    tennis = tennis
    golf = golf
    penny = penny
    Token = token
    Native = native
    ReserveNames <- NoReserve
    Plans <- NativeOnly
    Required <- SixOfEach
    InitialFunds <- TwoOfEach
    RefillBound <- FourOfEach
    Epsilon = 1
    MaxRetries = 1
    FaultBound = 0
PROPERTIES
    WaitsBlockSends
