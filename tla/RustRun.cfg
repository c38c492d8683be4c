CONSTANTS
    Lib = {a, b}
    Payload = {p, q}
    None = None
    MaxDepth = 5
    MaxBinding = 2
    MaxReads = 2
    MaxRaised = 2
SYMMETRY Symmetric
SPECIFICATION Spec
INVARIANTS
    RegistersFollowTheStack
    ClosesTheInnermost
    RoomsOutliveTheirReaders
    OneLibraryInACall
PROPERTIES
    FirstFailureAnswers
