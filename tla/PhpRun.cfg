CONSTANTS
    Lib = {a, b}
    Fiber = {main, other}
    Main = main
    Thrown = {x, y}
    None = None
    Reentrant = FALSE
    MaxDepth = 5
    MaxRuns = 3
SYMMETRY Symmetric
SPECIFICATION Spec
INVARIANTS
    RunsAreOneStack
    FoundIsInnermost
    HeldValuesStand
    NothingPends
