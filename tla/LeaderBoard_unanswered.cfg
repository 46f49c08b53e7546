SPECIFICATION Spec
CONSTANTS
    Sessions = {s1}
    Users = {u1, u2, u3}
    Times = {100, 111, 130}
    Options = {1, 2}
    Amounts = {1}
    Requests = {r1}
    MaxSends = 1
INVARIANTS
    UnansweredDoNotMatter
CHECK_DEADLOCK FALSE
