SPECIFICATION Spec
CONSTANTS
    Top = 1000000
    Samples <- MCSamples
    Factors <- MCFactors
    Strategies = {"default", "aggregate"}
    HintModes = {"paths", "roots", "items", "none"}
    Inputs <- MCInputs
    Atoms <- MCAtoms
    Contexts <- MCContexts
    MaxDepth = 2
    MaxOperations = 1
CHECK_DEADLOCK FALSE
INVARIANTS
    Enclosed
    CostBounded
    SizeBounded
