CONSTANTS
    Addrs = {a1, a2}
    Slots = {s1}
    Codes = {k1, k2}
    None = None
    Empty = Empty
    MaxU256 = 3
    Amounts = {1, 3}
    Nonces = {1}
    Values = {0, 1}
    Clients = {c1, c2}
    MaxCalls = 3
    MaxBlocks = 1
SYMMETRY Symmetry
SPECIFICATION Spec
INVARIANTS
    TypeOK
    CodeReadResolves
PROPERTIES
    DumpShowsView
    LoadRestores
    AddAccumulates
    LoadKeepsNonce
    ViewRefined
CHECK_DEADLOCK FALSE
