SPECIFICATION Spec
CONSTANTS
    Worker = {"w1", "w2"}
    Signals = {"INT", "TERM"}
    SignalAt = {"create", "join", "joining", "stop", "leave", "leaving", "stopped", "sleep", "destroy", "join threads", "join stdin", "join pool"}
    MaxJobs = 2
INVARIANTS
    TypeOK
    LastIsMain
PROPERTIES
    LeaveIsSaid
    QuitEnds
    StopEnds
CHECK_DEADLOCK FALSE
