SPECIFICATION Spec
CONSTANTS
    Placed = {p1, p2}
    Fixed = {f1}
    Spans <- Hours
    LastInstant = 3
    NULL = NULL
SYMMETRY BlockSymmetry
PROPERTIES
    MovesNeedAssent
CHECK_DEADLOCK FALSE
