CONSTANTS
    Miner = Miner
    Readers = {r1, r2}
    MaxSets = 2
    MaxBlocks = 2
    MaxReads = 3
    MaxFailures = 2
    MaxDiscards = 0
SPECIFICATION Spec
INVARIANT BaseFeeReachesBlock
CHECK_DEADLOCK FALSE
