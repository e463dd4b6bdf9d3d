SPECIFICATION Spec
CONSTANTS
    Tasks = {t1, t2}
    NoTask = NoTask
    MaxCalls = 3
    Enabled = TRUE
    MaxAttempts = 2
    NoLimit = NoLimit
    DialErrors <- SomeErrors
SYMMETRY TaskSymmetry
INVARIANTS
    TypeOK
    IInv
    SingleConnection
    LastCloseLeavesNothing
    ReconnectWaitBound
PROPERTY AtMostOneReplay
