SPECIFICATION Spec
CONSTANTS
    Count = 3
    MaxAddrs = 2
    Permits = 2
    Latencies <- TwoLatencies
INVARIANTS
    ProbingTypeOK
    FastestSelected
    FailureIsTotal
    FirstAddressReported
