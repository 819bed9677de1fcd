SPECIFICATION Spec
CONSTANTS
    ModeOrder <- TwoModes
    Timed = "overpressure"
    Minutes = {1, 2}
    Requests = {r1}
    Presses <- Buttons
    PanelModes = {}
    MayFail = TRUE
    NoSnapshot = NoSnapshot
INVARIANTS
    SuccessMeansWritten
