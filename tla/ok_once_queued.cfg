SPECIFICATION FairSpec
CONSTANTS
    Tasks = {t1}
    NoTask = NoTask
    MaxCalls = 1
    Enabled = FALSE
    MaxAttempts = 2
    NoLimit = NoLimit
    DialErrors <- SomeErrors
PROPERTY OkOnceQueued
