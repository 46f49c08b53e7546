SPECIFICATION Spec
CONSTANTS
    s1 = s1
    a1 = a1
    a2 = a2
    p1 = p1
    c1 = c1
    c2 = c2
    c3 = c3
    g1 = g1
    g2 = g2
    Sessions = {s1}
    Users = {a1, a2, p1}
    SessionOf <- MCSessionOf
    Admins = {a1, a2}
    Conns = {c1, c2, c3}
    Tokens <- MCTokens
    Senders = {g1, g2}
    Present <- MCPresent
    Duties <- MCDuties
    MaxOps = 2
    MaxStalls = 1
    Nobody = Nobody
INVARIANTS
    TypeOK
    RegisteredIsServed
    ReaderIsRegistered
PROPERTIES
    ParticipantsOnce
    HangsForAReason
CHECK_DEADLOCK FALSE
