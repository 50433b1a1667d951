CONSTANTS
    MaxInt = 15
    Second = 4
    MinUnixTime <- MCMinUnixTime
    MaxUnixTime = 3
    Precision = 3
    Exponents = 4
    MapKeys <- MCMapKeys
    MapVals = {"a", "b"}
    MaxEntries = 2
    Programs <- MCPrograms
    MaxRuns = 2
    MaxDepth = 12
SPECIFICATION Spec
INVARIANTS Exact OrderCoherent LookupAgrees Immutable
CHECK_DEADLOCK FALSE
