SPECIFICATION Spec
CONSTANTS
    Evals = {e1, e2}
    Frames = {f1, f2, f3}
    Contexts = {c1, c2}
    Trackers = {t1, t2}
    Nil = Nil
    Inputs = {"empty", "map", "activation", "functions", "invalid"}
    MaxDepth = 2
    MaxCalls = 1
INVARIANTS
    OwnState
    Exclusive
