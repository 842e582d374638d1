SPECIFICATION FairSpec
CONSTANTS
    p1 = p1
    p2 = p2
    p3 = p3
    Process = {p1, p2, p3}
    None = None
INVARIANTS
    SerialExclusion
    LockNamesHolder
PROPERTIES
    CrashesForgotten
CHECK_DEADLOCK FALSE
