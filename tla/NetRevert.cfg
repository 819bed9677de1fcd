SPECIFICATION FairSpec
CONSTANTS
    Settings = {home, office, wrong, odd}
    Good = {home, office, odd}
    Plain = {home, office, wrong}
    NoLink = NoLink
    Nothing = Nothing
    Calls = {h1, h2}
    Patient = TRUE
    MaxCuts = 2
INVARIANTS
    WayBack
    LeftoverIsHarmless
PROPERTIES
    UnconfirmedEnds
    ComesBack
