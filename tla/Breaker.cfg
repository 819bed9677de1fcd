SPECIFICATION BreakerFairSpec
CONSTANTS
    Clients = {c1, c2}
    Threshold = 3
    Cooldown = 5
    RequestTimeout = 4
INVARIANTS
    ProbeIsAlone
PROPERTIES
    Recovers
