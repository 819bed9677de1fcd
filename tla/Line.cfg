SPECIFICATION Spec
CONSTANTS
    Shapes <- Kinds
    Fc <- Codes
    ResponseLen <- Lengths
    ExceptionLen = 2
    Timeout = 3
    InterFrame = 1
    Retries = 1
    MaxReq = 3
INVARIANTS
    LineSafe
CHECK_DEADLOCK FALSE
