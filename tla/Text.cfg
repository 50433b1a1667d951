SPECIFICATION Spec
CONSTANTS
    RecoveryLimit = 1
    MaxDepth = 2
    Families <- MCFamilies
    Pasted <- MCPasted
INVARIANTS
    ParsersAgree
    UniqueIds
    RoundTrip
    LimitsExact
    Balanced
CHECK_DEADLOCK FALSE
