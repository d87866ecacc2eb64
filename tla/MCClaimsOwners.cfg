SPECIFICATION Spec
CONSTANTS
    k1 = k1
    k2 = k2
    o1 = o1
    o2 = o2
    Keys = {k1, k2}
    Owners = {o1, o2}
    Delegating <- TwoOwners
    SlowWrites = FALSE
    MaxCrashes = 0
    None = None
CONSTRAINT OneByOne
INVARIANT KeyWritesKept
CHECK_DEADLOCK FALSE
