SPECIFICATION MCSpec
CONSTANTS
    Lookers = {page, recorder}
    DegradedAfter = 2
    Duration <- Durations
    Contents <- Filled
    WeekSaves <- TwoWeeks
    YearSaves <- TwoYears
    Removals <- FirstAndLast
    Asked <- SomeSettings
    Setpoints <- TwoSetpoints
    Moments <- LeapDays
    Ladders <- FewLadders
    MaxSaves = 3
INVARIANTS
    EverythingReadsBack
    ReadingsMakeSense
PROPERTIES
    WarningIsEarned
    LinkSettles
    CountdownIsItsOwn
CHECK_DEADLOCK FALSE
