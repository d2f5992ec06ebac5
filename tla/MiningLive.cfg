CONSTANTS
    Txs = {t1, t2}
    Clients = {c1}
    Secs = {0, 2}
    ListenerCap = 1
    MaxCalls = 2
    MaxBacklog = 1
    MaxFailures = 0
SPECIFICATION Spec
PROPERTIES
    AutomineMines
    IntervalProduces
    ManualComesToRest
CHECK_DEADLOCK FALSE
