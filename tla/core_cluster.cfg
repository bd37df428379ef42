SPECIFICATION Spec
CONSTANTS
    Server = {n1, n2, n3}
    Nil = Nil
    Command = {x}
    Dash = Dash
    Blank = Blank
    RAFT_MAX_LOG = 3
    MaxElections = 2
    MaxOwed = 0
    MaxOwedBeat = 0
    MaxInFlight = 1
    MaxForwards = 0
    Lossy = FALSE
SYMMETRY Symmetry
INVARIANTS
    AppliedCoversCommit
    ElectionSafety
    ElectionInv
    LogMatching
    TermsAscend
    LeaderOwnsItsTerm
PROPERTIES
    LeaderAppendOnly
    ElectionsAreVoting
CHECK_DEADLOCK FALSE
