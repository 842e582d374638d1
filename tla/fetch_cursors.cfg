SPECIFICATION Spec
CONSTANTS
    a1 = a1
    b1 = b1
    a2 = a2
    i1 = i1
    i2 = i2
    old = old
    new = new
    NoCursor = NoCursor
    Instance = {i1, i2}
    Remote = {a1, b1, a2}
    InstanceOf <- TwoInstances
    Cursor = {old, new}
    Legacy <- SomeLegacy
    Getter = {g1, g2}
    MaxPuts = 2
    MaxCrashes = 1
SYMMETRY AnyOrder
INVARIANTS
    TypeOK
    GotOwn
PROPERTIES
    KeepsMap
    PutsDecide
CHECK_DEADLOCK FALSE
