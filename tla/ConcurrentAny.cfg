SPECIFICATION SchedulerSpec
CONSTANTS
    N = 4
    Kind <- AnyKind
    Args <- AnyArgs
    First <- AnyFirst
    ExprId <- AnyId
    Calls <- ABC
    Key <- AnyKey
    Outcomes <- Booleans
    NoResult = NoResult
    Max = 1
    Buffer = 1
    Strategy = "all"
    Debounce = 0
    MayPanic = TRUE
INVARIANTS
    DrainAllComplete
    NoLostWakeup
    GateAccounting
    PassesPaid
PROPERTIES
    KeepsPromise
    CancelEnds
    NoGoroutineLeak
