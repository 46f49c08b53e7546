SPECIFICATION Spec
CONSTANTS
    Sessions = {s1}
    Users = {u1}
    Quizzes <- MCLongQuizzes
    Options = {0}
    WriteFaults = FALSE
    ReadFaults = TRUE
    Expiry = FALSE
    Loops = {l1}
    Jobs = {g1}
    MaxStarts = 1
    MaxEnds = 0
    MaxTriggers = 4
    MaxCrashes = 1
    NoMsg = NoMsg
INVARIANTS
    ScoredInOrder
PROPERTIES
    TriggersHandled
    AnswersHandled
CHECK_DEADLOCK FALSE
