SPECIFICATION Spec
CONSTANTS
    p1 = p1
    p2 = p2
    p3 = p3
    Process = {p1, p2}
    None = None
INVARIANTS
    Exclusion
CHECK_DEADLOCK FALSE
