SPECIFICATION Spec
CONSTANTS
    Keys = {a, b, c}
    Literals = {"/"}
    People = {p, q}
    MaxDefs = 3
    MaxTokens = 3
    Capacity = 2
    Length <- Lengths
    a = a
    b = b
    c = c
    p = p
    q = q
    NULL = NULL
CONSTRAINT Promising
SYMMETRY Symmetry
INVARIANTS
    CheckedFileReads
    SameEvaluation
    MacrosRight
    DependantExact
    OneUser
CHECK_DEADLOCK FALSE
