SPECIFICATION FairDaemonSpec
CONSTANTS
    d = d
    p1 = p1
    p2 = p2
    c0 = c0
    c1 = c1
    c2 = c2
    None = None
    Broken = Broken
    Process = {d, p1}
    Self = d
    Config = {c0, c1, c2}
    Inert = {c0}
    MaxTouches = 2
INVARIANTS
    DaemonTypeOK
    EngineHoldsLock
    NeverOwnRival
    CleanExit
PROPERTIES
    ShutdownEnds
    LastSaveWins
CHECK_DEADLOCK FALSE
