SPECIFICATION Spec
CONSTANTS
    Server = {n1, n2}
    Nil = Nil
    Command = {x, Dash}
    Dash = Dash
    Blank = Blank
    RAFT_MAX_LOG = 2
    MaxElections = 2
    MaxOwed = 0
    MaxOwedBeat = 0
    MaxInFlight = 2
    MaxForwards = 1
    Lossy = TRUE
SYMMETRY Symmetry
INVARIANTS
    TypeOK
    StateMachineSafety
    AppliedOnMajority
    NamedLeaderWasElected
CHECK_DEADLOCK FALSE
