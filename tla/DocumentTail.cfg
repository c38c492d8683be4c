SPECIFICATION Spec
CONSTANTS
    NoDocument = NoDocument
    Taken = {"tails"}
    Programs <- MCPrograms
    AlteredTo <- MCAlteredTo
    AbortsAlteredTo <- MCAbortsAlteredTo
    Samples <- MCSamples
    InputDepth = 3
    Depth = 3
    Reentered = 2
    IntMin <- MCIntMin
    IntMax = 4095
    TemporalRange <- MCTemporalRange
    Nanoseconds <- MCNanoseconds
    TrieBits = 1
    Deepest = 3
    CollectionHolds = 3
    TokenAt <- MCTokenAt
    MinYear = 1999
    MaxYear = 2001
    DecimalMax = 9999
    ScaleMax = 3
    RationalMax = 4096
    ListHolds = 3
    StringHolds = 3
INVARIANT
    NeverPanics
CHECK_DEADLOCK FALSE
