SPECIFICATION FairSpec
CONSTANTS
    Requests <- AllRequests
    MaxText = 4
    Normal = Normal
    NULL = NULL
INVARIANTS
    InBounds
    NeverTruncated
    StopsAtFirstError
    ReadsBack
    PrettyKeeps
PROPERTY
    Ends
CHECK_DEADLOCK FALSE
