SPECIFICATION FairSpec
CONSTANTS
    PlanKeys = {k1}
    OffPlanKeys = {f1}
    Days = {0, 1}
    Reaches = {1, 2}
    EventIds = {1, 2}
    OpIds = {1, 2}
    Targets = {"google", "feed"}
    NULL = NULL
    MaxAttempts = 2
    DrainLimit = 2
    MaxDrifts = 1
INVARIANTS
    TypeOK
    QuietIsShownOrStated
PROPERTIES
    SucceededShowsWhatItRead
    NoWriteOpensAGap
    RightIsLeftAlone
    QueueDrains
    PlanReachesThePhone
CHECK_DEADLOCK FALSE
