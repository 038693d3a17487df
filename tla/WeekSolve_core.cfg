SPECIFICATION WeekSpec
CONSTANTS
    LastEnd = 5
    End = 4
    Areas <- MCAreas
    Contents <- MCContents
    Blocks <- MCBlocks
    AreaOf <- MCAreaOf
    Starts <- MCStarts
    MovedTo <- MCMovedTo
    DayLength = 2
    MaxMoves = 2
    NULL = NULL
INVARIANTS
    TypeOK
    ProbeNeverRefusesAWeekThatHolds
    OneAreaIsReadExactly
    IntervalsAreTheirMinutes
    ChoicesKeepTheRules
    HeldStaysHeld
    VerdictNamesWhatIsLeft
PROPERTIES
    NeitherAPinNorASkipHelps
    WaitingNeverHelps
CHECK_DEADLOCK FALSE
