SPECIFICATION Spec
CONSTANTS
    Requests <- Escaping
    MaxText = 3
    Normal = Normal
    NULL = NULL
INVARIANT
    EscapedReads
CHECK_DEADLOCK FALSE
