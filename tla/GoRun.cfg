CONSTANTS
    Goroutine = {g, h}
    Thread = {s, t}
    Lib = {a, b}
    None = None
    MaxRuns = 3
    MaxDepth = 6
    MaxReads = 1
    MaxRaised = 2
SYMMETRY Symmetric
VIEW ToldApart
CONSTRAINT NotStrayed
SPECIFICATION Spec
INVARIANTS
    CallsBelongUnlessStrayed
    ArenasFollowTheStacks
    RefusedInsideItsOwnRun
    LentTheRunOfItsCall
    RoomsStandWhileRead
PROPERTIES
    ComesToItsFirstFailure
