SPECIFICATION Spec
CONSTANTS
    Last = 2
    Held = 2
    Sessions = 1
    Limit = 1
    TailLen = 1
    Readable <- All
    Blocks = {}
    Own = 0
    Losable = {}
    Wipeable = {}
    Forgetful = {}
INVARIANTS
    CheckpointAfterData
CHECK_DEADLOCK FALSE
