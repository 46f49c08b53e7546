SPECIFICATION Spec
CONSTANTS
    Users = {u1, u2}
    Tokens = {t1, t2, t3}
    Requests = {r1, r2}
    MaxFailures = 1
    None = None
SYMMETRY Symmetry
INVARIANTS
    TypeOK
    OneTokenPerLogin
    LoggedOutStaysOut
CHECK_DEADLOCK FALSE
