SPECIFICATION MCSpec
CONSTANTS
    Width <- Widths
    Retain <- Retains
    MaxAge = 1
    Points = {2, 4}
    MaxNow = 8
    MaxGap = 3
INVARIANTS
    NothingIsLost
    ChartsAreWhole
PROPERTIES
    RedoingLosesNothing
CHECK_DEADLOCK FALSE
