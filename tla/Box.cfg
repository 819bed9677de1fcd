SPECIFICATION MCSpec
CONSTANTS
    Offsets <- RightAndTwoWrong
    MaxUpsets = 3
    OverAfter = 3
    MaxSags = 3
    Day = 12
    Poll = 5
    Window = 3
    Slack = 1
    Hours <- EarlyAndLast
    Minutes = {1, 2}
    Pages = {"page", "tab"}
    MaxOpens = 3
    Networks = {"home", "odd", "wrong"}
    Reached <- KnownHere
    Valid <- AcceptedNames
    Unhurried = TRUE
    NoNetwork = "none"
    MaxOutages = 2
INVARIANTS
    ConditionIsRight
    DoorIsAsSaid
    AirHasWayBack
PROPERTIES
    PromiseIsKept
    VerdictsAreEarned
    StaysInStep
CHECK_DEADLOCK FALSE
