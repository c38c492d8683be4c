CONSTANTS
    Goroutine = {g, h}
    Thread = {s, t}
    Lib = {a}
    None = None
    MaxRuns = 2
    MaxDepth = 2
    MaxReads = 1
    MaxRaised = 1
SYMMETRY Symmetric
VIEW ToldApart
SPECIFICATION Spec
INVARIANTS
    CallsAreWhereTheyBelong
