SPECIFICATION MSpec
CONSTANTS
    n1 = n1
    n2 = n2
    n3 = n3
    Server = {n1, n2, n3}
    Nil = Nil
    Command = {}
    Dash = Dash
    Blank = Blank
    RAFT_MAX_LOG = 0
    MaxElections = 2
    MaxOwed = 0
    MaxOwedBeat = 0
    MaxInFlight = 0
    MaxForwards = 0
    Lossy = FALSE
    RAFT_MAX_PEERS = 2
    Launches <- ShrinkOnly
INVARIANT OneVotePerTerm
CHECK_DEADLOCK FALSE
