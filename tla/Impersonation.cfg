CONSTANTS
    s1 = s1
    s2 = s2
    h1 = h1
    h2 = h2
    Senders = {s1, s2}
    Hashes = {h1, h2}
    None = None
    Hash <- OwnHash
    Clients = {c1, c2}
    MaxCalls = 6
    MaxDrops = 2
SYMMETRY Symmetry
SPECIFICATION Spec
INVARIANTS
    TypeOK
    NeverMisattributed
    AcceptedStaysAttributed
CHECK_DEADLOCK FALSE
