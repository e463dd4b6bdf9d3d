SPECIFICATION FairSpec
CONSTANTS
    Limit = 1
    MaxConns = 3
    MaxFaults = 3
INVARIANT HandshakeTypeOK
PROPERTIES
    TerminalIsDeserved
    RefusalStops
    Recovers
    StaleTokenStops
