SPECIFICATION Spec
CONSTANTS
    MaxDuration = 7
    NoLimit = NoLimit
    MaxDials = 4
    Policies <- SmallPolicies
INVARIANTS
    BackoffTypeOK
    OnSchedule
    Paced
    StuckReturns
