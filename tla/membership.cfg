SPECIFICATION Spec
CONSTANTS
    n1 = n1
    n2 = n2
    n3 = n3
    n4 = n4
    n5 = n5
    Server = {n1, n2, n3, n4, n5}
    RAFT_MAX_PEERS = 3
    Launches <- AllWays
INVARIANT TypeOK
PROPERTIES
    AllMeet
    QuitIsForgotten
CHECK_DEADLOCK FALSE
