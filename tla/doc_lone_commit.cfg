SPECIFICATION MSpec
CONSTANTS
    n1 = n1
    n2 = n2
    n3 = n3
    Server = {n1, n2, n3}
    Nil = Nil
    Command = {c}
    Dash = Dash
    Blank = Blank
    RAFT_MAX_LOG = 1
    MaxElections = 1
    MaxOwed = 0
    MaxOwedBeat = 0
    MaxInFlight = 0
    MaxForwards = 0
    Lossy = FALSE
    RAFT_MAX_PEERS = 2
    Launches <- GrowLogOnly
PROPERTY MajorityCommits
CHECK_DEADLOCK FALSE
