SPECIFICATION Spec
CONSTANTS
    Names <- SomeNames
    Hyphens <- SomeHyphens
    Typed <- SomeLines
    RAFT_MAX_KEY = 5
    RAFT_MAX_VALUE = 7
    OpWidth = 3
    MaxHops = 2
    MaxCopies = 3
INVARIANTS AcceptedWasTyped
CHECK_DEADLOCK FALSE
