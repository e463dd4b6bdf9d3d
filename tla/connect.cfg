SPECIFICATION Spec
CONSTANTS
    MaxPort = 90
    Names <- KnownNames
    Texts <- ShortTexts
    MaxAddrs = 3
    DialErrors <- AllErrors
INVARIANTS
    ConnectTypeOK
    EveryAddressTried
    VerifiesResolvedName
    ParsersAgree
