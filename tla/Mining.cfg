CONSTANTS
    Txs = {t1, t2}
    Clients = {c1, c2}
    Secs = {0, 2}
    ListenerCap = 1
    MaxCalls = 3
    MaxBacklog = 1
    MaxFailures = 1
SYMMETRY Symmetry
SPECIFICATION SafeSpec
INVARIANTS
    TypeOK
    NoStrandedTx
    StaleIntervalAtMostOnce
PROPERTY DisableKeepsInterval
CHECK_DEADLOCK FALSE
