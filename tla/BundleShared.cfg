CONSTANTS
    u1 = u1
    u2 = u2
    u3 = u3
    p1 = p1
    p2 = p2
    p3 = p3
    Use = {u1, u2, u3}
    Process = {p1, p2}
    ProcessOf <- Shared
    Sticky = {}
    None = None
SPECIFICATION Spec
INVARIANTS
    LockedWhileUsed
