SPECIFICATION Spec
CONSTANTS
    A = A
    B = B
    C = C
    b1 = b1
    v1 = v1
    Node = {A, B, C}
    Block = {b1}
    Event = {}
    End <- LineEnd
    At <- LineAt
    Opp <- LineOpp
    Needs <- NoEvent
    Origins <- Anywhere
    Author <- Nothing
    Bulk <- FirstLine
    Fallible <- FirstLine
    Evictable <- MiddleLoses
    Corruptible = {b1}
INVARIANTS
    ClaimLedger
    ClaimsWatched
    OnePumpPerBlock
    StreamsNeverOverlap
    JournalOffered
CHECK_DEADLOCK FALSE
