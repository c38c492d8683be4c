CONSTANTS
    Thread = {t1, t2}
    SLOT = 8
    BLOCK = 3
    Sizes <- MCSizes
    MaxTaken = 5
    MaxToken = 3
SPECIFICATION Spec
SYMMETRY ThreadSymmetry
INVARIANTS
    TypeOK
    BlocksHoldWhatIsTaken
    PromisedStand
    NothingLeaks
    TokensApart
PROPERTIES
    KeepsPromise
