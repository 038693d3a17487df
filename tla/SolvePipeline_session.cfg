SPECIFICATION Spec
CONSTANTS
    OpIds = {1, 2, 3, 4, 5, 6, 7, 8}
    Requests = {r1, r2}
    Workers = {w1}
    Candidates = {c1}
    Sessions = {TRUE, FALSE}
    Kinds = {"pin", "resolve"}
    NULL = NULL
    MaxAttempts = 2
    FirstVersion = 1
    FirstPlan = 1
    MaxOpened = 2
    MaxCrashes = 0
SYMMETRY RequestSymmetry
PROPERTIES
    RecorderReadsTheRow
CHECK_DEADLOCK FALSE
