SPECIFICATION FairSpec
CONSTANTS
    Tasks = {t1, t2}
    NoTask = NoTask
    MaxCalls = 1
    Enabled = TRUE
    MaxAttempts = NoLimit
    NoLimit = NoLimit
    DialErrors <- AuthErrors
PROPERTIES
    EveryCallReturns
