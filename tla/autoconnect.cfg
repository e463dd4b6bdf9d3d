SPECIFICATION Spec
CONSTANTS
    MaxPort = 90
    Names <- KnownNames
    NotJson = NotJson
    Bodies <- Responses
    Texts <- Fallbacks
    Count = 2
    MaxAddrs = 2
    Permits = 1
    Latencies <- TwoLatencies
    DialErrors <- SomeErrors
INVARIANTS
    AutoTypeOK
    TokenOnlyToChosen
    SourceIsTrue
    FallbackIsAccepted
    ParsedWell
PROPERTY FallbackUsed
