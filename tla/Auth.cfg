SPECIFICATION Spec
CONSTANTS
    Pins <- TwoPins
    Grace = 2
    MaxLockout = 2
    AttemptDecay = 3
    NonceTTL = 1
    MaxNonces = 2
    Forms = {"form"}
    MaxRandom = 4
    MaxTokens = 2
INVARIANTS
    KeysHold
    BrakeHolds
CHECK_DEADLOCK FALSE
