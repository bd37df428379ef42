SPECIFICATION RSpec
CONSTANTS
    Server = {n1, n2, n3}
    Nil = Nil
    Command = {}
    Dash = Dash
    Blank = Blank
    RAFT_MAX_LOG = 0
    MaxElections = 2
    MaxOwed = 0
    MaxOwedBeat = 0
    MaxInFlight = 0
    MaxForwards = 0
    Lossy = FALSE
    MaxRestarts = 1
INVARIANT ElectionSafety
CHECK_DEADLOCK FALSE
