CONSTANTS
    Thread = {t1, t2, t3}
    Library = {native, old}
    Current = {native}
    Pattern = {p1, p2}
    None = None
    Box = {b1, b2, b3}
SPECIFICATION Spec
INVARIANTS
    TypeOK
    MatchesWhatIsAlive
    ReadOnce
    NothingOutlives
PROPERTIES
    MatchAnswers
