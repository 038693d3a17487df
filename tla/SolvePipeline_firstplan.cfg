SPECIFICATION FairSpec
CONSTANTS
    OpIds = {1, 2, 3, 4, 5, 6, 7}
    Requests = {r1, r2}
    Workers = {w1}
    Candidates = {c1}
    Sessions = {FALSE}
    Kinds = {"pin", "task", "resolve", "tradeoff"}
    NULL = NULL
    MaxAttempts = 3
    FirstVersion = 0
    FirstPlan = 0
    MaxOpened = 2
    MaxCrashes = 1
INVARIANTS
    TypeOK
PROPERTIES
    LastResortNeverDisplacesAPlan
    QueueDrains
    ImplementsPlanOfRecord
CHECK_DEADLOCK FALSE
