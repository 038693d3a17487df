SPECIFICATION Spec
CONSTANTS
    OpIds = {1, 2, 3, 4, 5, 6, 7, 8}
    Requests = {r1, r2}
    Workers = {w1}
    Candidates = {c1}
    Sessions = {FALSE}
    Kinds = {"pin", "task"}
    NULL = NULL
    MaxAttempts = 2
    FirstVersion = 0
    FirstPlan = 0
    MaxOpened = 2
    MaxCrashes = 0
SYMMETRY RequestSymmetry
PROPERTIES
    AdoptsCurrentInputs
CHECK_DEADLOCK FALSE
