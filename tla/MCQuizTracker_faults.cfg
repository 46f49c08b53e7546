SPECIFICATION TrackerSpec
CONSTANTS
    Sessions = {s1}
    Users = {u1}
    Loops = {l1, l2}
    Quizzes <- MCQuizzes
    Options = {0}
    WriteFaults = TRUE
    ReadFaults = TRUE
    Expiry = TRUE
INVARIANTS
    TrackerTypeOK
    IndexInRange
    AnswersSized
    NoFutureAnswers
    CacheNotAhead
PROPERTIES
    ImplementsProgress
