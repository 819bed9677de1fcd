SPECIFICATION FairSpec
CONSTANTS
    homey = homey
    laptop = laptop
    Peers = {homey, laptop}
    Conns = {c1, c2, c3}
    Callers = {k1}
    Listeners = {l1}
    NoListener = NoListener
    MaxClients = 2
    Settings <- OnOff
INVARIANTS
    GatewaySafe
PROPERTIES
    ShutdownEnds
    SavingDropsNobody
CHECK_DEADLOCK FALSE
