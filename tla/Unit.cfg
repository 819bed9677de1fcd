SPECIFICATION FairSpec
CONSTANTS
    ModeOrder <- TwoModes
    Timed = "overpressure"
    Minutes = {1, 2}
    Requests = {r1}
    Presses <- Everything
    PanelModes = {"away"}
    MayFail = TRUE
    NoSnapshot = NoSnapshot
INVARIANTS
    UnitSafe
PROPERTIES
    RereadKeepsTheRest
    SnapshotCatchesUp
    RequestsAreAnswered
    DurationFirst
