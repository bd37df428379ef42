SPECIFICATION MSpec
CONSTANTS
    n1 = n1
    n2 = n2
    n3 = n3
    Server = {n1, n2, n3}
    Nil = Nil
    Command = {}
    Dash = Dash
    Blank = Blank
    RAFT_MAX_LOG = 0
    MaxElections = 2
    MaxOwed = 0
    MaxOwedBeat = 0
    MaxInFlight = 1
    MaxForwards = 0
    Lossy = FALSE
    RAFT_MAX_PEERS = 2
    Launches <- Demo
INVARIANT ElectionSafety
CHECK_DEADLOCK FALSE
