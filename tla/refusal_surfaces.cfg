SPECIFICATION Spec
CONSTANTS
    MaxPort = 90
    Names <- KnownNames
    Texts <- OneText
    MaxAddrs = 2
    DialErrors <- SomeErrors
INVARIANT RefusalSurfaces
