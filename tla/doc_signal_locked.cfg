SPECIFICATION Spec
CONSTANTS
    Worker = {"w1", "w2"}
    Signals = {"INT"}
    SignalAt = {"joining"}
    MaxJobs = 2
PROPERTY CtrlCEnds
CHECK_DEADLOCK FALSE
