SPECIFICATION FairSpec
CONSTANTS
    k1 = k1
    k2 = k2
    o1 = o1
    o2 = o2
    Keys = {k1}
    Owners = {o1}
    Delegating <- OneKey
    SlowWrites = FALSE
    MaxCrashes = 2
    None = None
INVARIANTS
    OwnerWritesKept
    KeyWritesKept
    NoDemotion
PROPERTIES
    EndedKeysLeave
CHECK_DEADLOCK FALSE
