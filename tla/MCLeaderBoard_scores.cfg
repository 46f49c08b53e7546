SPECIFICATION Spec
CONSTANTS
    Sessions = {s1}
    Users = {u1, u2}
    Times = {100, 111}
    Options = {2}
    Amounts = {1}
    Requests = {r1, r2}
    MaxSends = 2
SYMMETRY Symmetry
INVARIANTS
    TypeOK
    TotalsAreSums
    TableIncludesOwnPoints
    FasterIsNotWorse
    PopularCountsGiven
    RequestsAnswered
CHECK_DEADLOCK FALSE
