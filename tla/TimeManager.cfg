CONSTANTS
    Clients = {c1, c2}
    MaxU64 = 15
    MsThreshold = 9
    MsFactor = 3
    Genesis = 2
    Clock0 = 5
    SetTimes = {1, 12}
    ExactTimes = {4, 15}
    Increments = {9}
    Intervals = {0, 3}
    MaxLag = 1
    MaxClock = 6
    MaxCalls = 3
    MaxBlocks = 2
SPECIFICATION Spec
INVARIANTS
    TypeOK
    NeverBehindHead
    ExactAtMostOnce
    CastSafe
PROPERTY AcceptedNotBelowHead
CHECK_DEADLOCK FALSE
