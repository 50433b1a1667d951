SPECIFICATION Spec
CONSTANTS
    Variables = {"a"}
    Fields = {"b", "c"}
    MaxScope = 1
    MaxOperands = 2
    MaxLength = 4
CHECK_DEADLOCK FALSE
INVARIANT PathsKept
