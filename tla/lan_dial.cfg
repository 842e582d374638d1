SPECIFICATION LanFairSpec
CONSTANTS
    X = X
    Y = Y
    None = None
    Node = {X, Y}
    Profiles = {"active", "second", "friend"}
    End <- Ends
    At <- AtNode
    Opp <- Other
    Profile <- FirstApart
    Tier <- SwarmThenLan
    Pausable <- LanEnds
    Dialed <- LanDialed
    Initiated <- SwarmDialed
    Fallible <- FirstTwo
    Unloadable <- FirstLoads
    Stopping = {}
    Serves <- TwoAndOne
    Active <- ActiveOf
    Rank <- XLower
    Attempts = 2
    Refusable <- FirstDial
INVARIANTS
    SeenIsServed
PROPERTIES
    HalfOpenEnds
    Reunited
CHECK_DEADLOCK FALSE
