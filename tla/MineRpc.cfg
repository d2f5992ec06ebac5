CONSTANTS
    Clients = {c1, c2}
    Intervals = {i1}
    Exacts = {t1}
    Clock = Clock
    None = None
    TooBig = TooBig
    PollLimit = 1
    MaxRequest = 2
    MaxCalls = 2
    MaxMishaps = 1
SPECIFICATION Spec
INVARIANTS
    TypeOK
    IntervalRestored
    SpacingKept
    DetailedTimestamp
    FetchedExist
PROPERTY EveryCallReturns
CHECK_DEADLOCK FALSE
