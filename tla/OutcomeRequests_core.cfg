SPECIFICATION FairSpec
CONSTANTS
    b1 = b1
    b2 = b2
    m1 = m1
    Blocks = {b1, b2, m1}
    Due <- DueOnTheDay
    MakeUps = {m1}
    NULL = NULL
    Requests = {r1, r2}
    Keys = {k1}
    Retention = 1
    MaxNow = 1
    MaxCalls = 3
INVARIANTS
    TypeOK
    ChargeIsAWalkOfTheLog
    WalkIsTheLargestUncredited
    ReplayAnswersWhatRan
PROPERTIES
    FirstConfirmationStands
    AtMostOncePerWindow
    EveryRequestEnds
CHECK_DEADLOCK FALSE
