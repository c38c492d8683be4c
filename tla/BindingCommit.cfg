CONSTANTS
    c1 = c1
    c2 = c2
    php = php
    go = go
    t1 = t1
    t2 = t2
    Command = {c1, c2}
    Generator = {php, go}
    Target = {t1, t2}
    BindingsOf <- Crossing
    None = None
SPECIFICATION Spec
INVARIANTS
    InPlaceIsMarked
    NothingLeftBeside
PROPERTIES
    NothingIsLost
    RefusedLeavesEveryDirectory
