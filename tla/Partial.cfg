SPECIFICATION Spec
CONSTANTS
    Exprs    <- AllExprs
    Truths   <- TruthsOf
    Patterns <- PatternsOf
    Reused   <- Small
INVARIANTS
    NoPeeking
    KnownIsFinal
    ResidualFaithful
    ExhaustiveAgrees
    NoPanic
