\* An Ast that is evaluated again after a residual was made of it.
SPECIFICATION Spec
CONSTANTS
    Exprs    <- MacroExprs
    Truths   <- TruthsOf
    Patterns <- PatternsOf
    Reused   <- MacroExprs
INVARIANTS
    ResidualFaithful
