SPECIFICATION Spec
CONSTANTS
    Server = {n1, n2, n3}
    Nil = Nil
    Command = {x}
    Dash = Dash
    Blank = Blank
    RAFT_MAX_LOG = 1
    MaxElections = 2
    MaxOwed = 4
    MaxOwedBeat = 4
    MaxInFlight = 1
    MaxForwards = 0
    Lossy = FALSE
SYMMETRY Symmetry
INVARIANTS
    StateMachineSafety
CHECK_DEADLOCK FALSE
