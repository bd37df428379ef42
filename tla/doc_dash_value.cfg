SPECIFICATION Spec
CONSTANTS
    Server = {n1, n2}
    Nil = Nil
    Command = {x, Dash}
    Dash = Dash
    Blank = Blank
    RAFT_MAX_LOG = 1
    MaxElections = 1
    MaxOwed = 0
    MaxOwedBeat = 0
    MaxInFlight = 1
    MaxForwards = 0
    Lossy = FALSE
SYMMETRY Symmetry
INVARIANTS
    ReplicasApplySameCommand
CHECK_DEADLOCK FALSE
