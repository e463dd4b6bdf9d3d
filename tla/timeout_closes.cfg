SPECIFICATION FairSpec
CONSTANTS
    Tasks = {t1}
    NoTask = NoTask
    MaxCalls = 1
    Enabled = TRUE
    MaxAttempts = 2
    NoLimit = NoLimit
    DialErrors <- SomeErrors
PROPERTY TimeoutCloses
