SPECIFICATION MCSpec
CONSTANTS
    Calls = {c1, c2}
    NoCall = NoCall
    Depth = 1
    ReopenAfter = 1
    HasReopen = TRUE
    Asked = {0, 2, 7}
    Patience = {TRUE, FALSE}
    Patient = {c1}
INVARIANTS
    BusSafe
PROPERTIES
    CountedOnce
    KeepsItsPromise
    WritesGetThrough
    CallsEnd
CHECK_DEADLOCK FALSE
