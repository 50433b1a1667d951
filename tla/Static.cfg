SPECIFICATION Spec
CONSTANTS
    Container <- MCContainer
    Aliases <- MCAliases
    Variables <- MCVariables
    Functions <- MCFunctions
    Input <- MCInput
    Families <- MCFamilies
    Free = "i"
INVARIANTS
    SubstitutionKept
    Sound
    UncheckedAgrees
    Hygienic
CHECK_DEADLOCK FALSE
