SPECIFICATION Spec
CONSTANTS
    Sessions = {s1}
    Users = {u1}
    Quizzes <- MCQuizzes
    Options = {0}
    WriteFaults = FALSE
    ReadFaults = FALSE
    Expiry = TRUE
    Loops = {l1, l2}
    Jobs = {g1}
    MaxStarts = 2
    MaxEnds = 1
    MaxTriggers = 2
    MaxCrashes = 1
    NoMsg = NoMsg
INVARIANTS
    TypeOK
    LoopSessionTracked
    AnsweringHasArray
    StatAgreesWithBoard
    CacheIsCopy
PROPERTIES
    ClosedQuestionsFrozen
CHECK_DEADLOCK FALSE
