SPECIFICATION Spec
CONSTANTS
    OpIds = {1, 2, 3, 4, 5, 6, 7, 8}
    Requests = {r1, r2}
    Workers = {w1}
    Candidates = {c1}
    Sessions = {FALSE}
    Kinds = {"pin", "review", "resolve", "tradeoff"}
    NULL = NULL
    MaxAttempts = 2
    FirstVersion = 1
    FirstPlan = 1
    MaxOpened = 3
    MaxCrashes = 1
SYMMETRY RequestSymmetry
INVARIANTS
    SingleFlight
    SupersededIsCarriedOn
    AskIsAnswered
    ProposalIsOfASolveThatSucceeded
PROPERTIES
    AdoptsCurrentInputs
    TakenOverWritesNothing
    TerminalIsFinal
    ImplementsPlanOfRecord
CHECK_DEADLOCK FALSE
