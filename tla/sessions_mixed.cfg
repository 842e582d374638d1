SPECIFICATION Spec
CONSTANTS
    X = X
    Y = Y
    None = None
    Node = {X, Y}
    Profiles = {"first", "second"}
    End <- Ends
    At <- AtNode
    Opp <- Other
    Profile <- SecondApart
    Tier <- LanButSecond
    Pausable <- LanEnds
    Dialed <- LanDialed
    Initiated <- SwarmDialed
    Fallible <- FirstEnds
    Unloadable <- FirstEnds
    Stopping = {X}
INVARIANTS
    TypeOK
    SessionsRegistered
CHECK_DEADLOCK FALSE
