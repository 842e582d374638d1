SPECIFICATION FairSpec
CONSTANTS
    Last = 3
    Held = 2
    Sessions = 3
    Limit = 1
    TailLen = 1
    Readable <- AllButFirst
    Blocks <- Second
    Own = 1
    Losable <- First
    Wipeable <- Second
    Forgetful <- Third
INVARIANTS
    WalkGoesOn
    CursorCovered
    PagesExpected
PROPERTIES
    WalkFinishes
    CaughtUp
CHECK_DEADLOCK FALSE
