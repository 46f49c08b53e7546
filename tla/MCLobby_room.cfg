SPECIFICATION Spec
CONSTANTS
    u1 = u1
    u2 = u2
    c1 = c1
    c2 = c2
    Users = {u1, u2}
    Conns = {c1, c2}
    Tokens <- MCTokens
    Kicks = {k1}
    MaxStalls = 1
    Nobody = Nobody
INVARIANTS
    TypeOK
    RemovedForAReason
    ShownIsCurrent
PROPERTIES
    GhostsLeave
CHECK_DEADLOCK FALSE
