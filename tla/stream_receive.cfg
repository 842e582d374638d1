SPECIFICATION FairSpec
CONSTANTS
    Count = 5
    Kind <- Five
    Size <- FiveSizes
    Body <- FiveBodies
    Start <- Starts
    LengthLen = 2
    MaxChunk = 22
    Sent <- AllOrCut
    Pausable = FALSE
    BatchLen = 2
    Faulty = {3}
    Corrupt = {5}
    Shared = {3}
INVARIANTS
    TypeOK
    InStep
    WholeInPlace
PROPERTIES
    DeliversInOrder
    StreamSettles
CHECK_DEADLOCK FALSE
