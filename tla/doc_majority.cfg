SPECIFICATION Spec
CONSTANTS
    Server = {n1, n2, n3}
    Nil = Nil
    Command = {x}
    Dash = Dash
    Blank = Blank
    RAFT_MAX_LOG = 1
    MaxElections = 2
    MaxOwed = 0
    MaxOwedBeat = 0
    MaxInFlight = 1
    MaxForwards = 0
    Lossy = FALSE
SYMMETRY Symmetry
INVARIANTS
    AppliedOnMajority
CHECK_DEADLOCK FALSE
