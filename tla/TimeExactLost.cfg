CONSTANTS
    Clients = {c1}
    MaxU64 = 15
    MsThreshold = 9
    MsFactor = 3
    Genesis = 2
    Clock0 = 5
    SetTimes = {}
    ExactTimes = {4, 15}
    Increments = {}
    Intervals = {}
    MaxLag = 1
    MaxClock = 6
    MaxCalls = 1
    MaxBlocks = 2
SPECIFICATION Spec
PROPERTY ExactNotLost
CHECK_DEADLOCK FALSE
