CONSTANTS
    Miner = Miner
    Readers = {r1, r2}
    MaxSets = 2
    MaxBlocks = 2
    MaxReads = 2
    MaxFailures = 1
    MaxDiscards = 1
SPECIFICATION Spec
INVARIANTS
    SettingsNotStale
    BaseFeeTakenOnce
    MinerDeliversBaseFee
CHECK_DEADLOCK FALSE
