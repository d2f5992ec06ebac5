CONSTANTS
    MaxCalls = 2
    Readers = {r1}
    Activation <- MCActivation
    Genesis = 0
    MaxTime = 2
    MaxHeight = 1
    Dealers = {d1}
    Queries = {"alice", "bob"}
    Slots = {"alice", "bob", "impl"}
    Stores <- MCStores
    Values = {0, 1, 2}
    Wide = Wide
    Reverted = Reverted
    Empty = Empty
    Token = Token
    Other = Other
    Answers <- MCAnswers
    Touched <- MCTouched
    NoOverride = NoOverride
SPECIFICATION Spec
INVARIANTS
    TypeOK
    SettingsReachParts
PROPERTIES
    DealVisible
    EveryDealReturns
CHECK_DEADLOCK FALSE
