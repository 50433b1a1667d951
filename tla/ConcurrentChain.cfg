SPECIFICATION FairSpec
CONSTANTS
    N = 12
    Kind <- ChainKind
    Args <- ChainArgs
    First <- ChainFirst
    ExprId <- ChainId
    Calls <- ABCDE
    Key <- ChainKey
    Outcomes <- FalseOrError
    NoResult = NoResult
    Max = 2
    Buffer = 1
    Strategy = "ready"
    Debounce = 1
    MayPanic = TRUE
PROPERTIES
    LaunchExplained
    OneRunPerCall
    ResultDelivered
   
