SPECIFICATION DeliverySpec
CONSTANTS
    Tasks = {t1, t2}
    NoTask = NoTask
    MaxCalls = 1
    Enabled = TRUE
    MaxAttempts = 2
    NoLimit = NoLimit
    DialErrors <- SomeErrors
SYMMETRY TaskSymmetry
INVARIANT OkIsDelivered
