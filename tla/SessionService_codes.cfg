SPECIFICATION Spec
CONSTANTS
    Codes = {A, B}
    MaxRequests = 3
    Kinds = {"create", "join", "validate", "start", "next", "end", "health"}
    RedisFaults = TRUE
    MaxOutages = 1
    NoCode = NoCode
INVARIANTS
    TypeOK
    GameCanBeJoined
    OneGamePerCode
    OpenIsAnnounced
    EndClosesFirst
PROPERTIES
    HangsOnQuizService
CHECK_DEADLOCK FALSE
