SPECIFICATION Spec
CONSTANTS
    Worker = {"w1", "w2"}
    Signals = {"INT"}
    SignalAt = {"sleep"}
    MaxJobs = 2
PROPERTY CtrlCEnds
CHECK_DEADLOCK FALSE
