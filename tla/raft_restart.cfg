SPECIFICATION RSpec
CONSTANTS
    Server = {n1, n2}
    Nil = Nil
    Command = {x}
    Dash = Dash
    Blank = Blank
    RAFT_MAX_LOG = 2
    MaxElections = 1
    MaxOwed = 0
    MaxOwedBeat = 0
    MaxInFlight = 2
    MaxForwards = 0
    Lossy = TRUE
    MaxRestarts = 2
PROPERTY LeaderBringsAllAlong
CHECK_DEADLOCK FALSE
