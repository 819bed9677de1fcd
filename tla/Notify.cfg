SPECIFICATION FairSpec
CONSTANTS
    Channels = {hook}
    Down = Down
    Degraded = Degraded
    Service = Service
    Levels <- OneLevel
    Alarms = {filter}
    ClassA = {}
    Thresholds = {1, 2}
    DownAfter = 1
    Never = Never
INVARIANTS
    AllClearsAreExact
PROPERTIES
    AlertsAreNews
    HiccupsAreQuiet
    ConditionsAreFollowed
