SPECIFICATION Spec
CONSTANTS
    Client = {"a", "b", "c"}
    Streams <- OneIsLong
    RAFT_MAX_LINE = 2
    RAFT_MAX_CONN = 3
    MaxEvents = 3
    Resets = {"c"}
INVARIANTS
    TypeOK
    LinesAreCutRight
    SlotsMatch
PROPERTY LinesArrive
CHECK_DEADLOCK FALSE
