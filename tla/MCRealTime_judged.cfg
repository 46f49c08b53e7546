SPECIFICATION Spec
CONSTANTS
    Sessions = {s1}
    Users = {u1}
    Quizzes <- MCQuizzes
    Options = {0}
    WriteFaults = FALSE
    ReadFaults = FALSE
    Expiry = FALSE
    Loops = {l1}
    Jobs = {g1}
    MaxStarts = 1
    MaxEnds = 0
    MaxTriggers = 2
    MaxCrashes = 0
    NoMsg = NoMsg
INVARIANTS
    JudgedForStoredQuestion
CHECK_DEADLOCK FALSE
