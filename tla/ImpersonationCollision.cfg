CONSTANTS
    s1 = s1
    s2 = s2
    h1 = h1
    h2 = h2
    Senders = {s1, s2}
    Hashes = {h1, h2}
    None = None
    Hash <- SharedHash
    Clients = {c1, c2}
    MaxCalls = 4
    MaxDrops = 0
SYMMETRY Symmetry
SPECIFICATION Spec
INVARIANT NeverMisattributed
CHECK_DEADLOCK FALSE
