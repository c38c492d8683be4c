CONSTANTS
    Lib = {a, b}
    Fiber = {main, other}
    Main = main
    Thrown = {x}
    None = None
    Reentrant = TRUE
    MaxDepth = 4
    MaxRuns = 3
SYMMETRY Symmetric
SPECIFICATION Spec
INVARIANTS
    HeldValuesStand
