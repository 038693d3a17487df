SPECIFICATION Spec
CONSTANTS
    Placed = {p1, p2}
    Fixed = {f1}
    Spans <- Hours
    LastInstant = 2
    NULL = NULL
SYMMETRY BlockSymmetry
INVARIANTS
    TypeOK
    AProposalHasAPlanUnderIt
    AssentOutlivesTheWait
PROPERTIES
    NothingMovesUnasked
    TheLivedWeekStands
CHECK_DEADLOCK FALSE
