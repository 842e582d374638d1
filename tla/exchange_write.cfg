SPECIFICATION FairSpec
CONSTANTS
    A = A
    B = B
    C = C
    b1 = b1
    v1 = v1
    Node = {A, B}
    Block = {b1}
    Event = {v1}
    End <- PairEnd
    At <- PairAt
    Opp <- PairOpp
    Needs <- OneEvent
    Origins <- OneEnd
    Author <- EventAtA
    Bulk = {}
    Fallible = {}
    Evictable = {}
    Corruptible = {}
INVARIANTS
    TypeOK
PROPERTIES
    CopiesOnly
    Convergence
CHECK_DEADLOCK FALSE
