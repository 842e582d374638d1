SPECIFICATION FairSpec
CONSTANTS
    Wanted = {w1, w2}
    Served = {s1, s2}
    Pages = 1
    None = None
INVARIANTS
    Watched
    SilentOnceStopped
PROPERTIES
    RotationSpares
    NothingWaitsForEver
CHECK_DEADLOCK FALSE
