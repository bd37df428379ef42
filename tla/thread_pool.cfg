SPECIFICATION Spec
CONSTANTS
    Worker = {w1, w2, w3}
    NULL = NULL
    MaxLines = 4
CHECK_DEADLOCK FALSE
INVARIANTS
    TypeOK
    ListIsPending
    NoneOversleeps
PROPERTIES
    LinesHandled
    PoolEnds
