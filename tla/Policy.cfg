SPECIFICATION Spec
CONSTANTS
    MaxNestedExpressions = 3
    EnvVariables <- MCEnvVariables
    EnvFunctions <- MCEnvFunctions
    Variable <- MCVariable
    OtherConditions <- MCOtherConditions
    OtherOutputs <- MCOtherOutputs
    References <- MCReferences
    Definitions <- MCDefinitions
    OtherDefinitions <- MCOtherDefinitions
    UnnestHeights = {1, 2}
    MaxSize = 8
    MaxDepth = 3
INVARIANTS
    DecisionKept
    Composes
    Reachable
CHECK_DEADLOCK FALSE
