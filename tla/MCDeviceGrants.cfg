SPECIFICATION Spec
CONSTANTS
    d1 = d1
    d2 = d2
    r1 = r1
    r2 = r2
    o = o
    Devices = {d1, d2}
    Recoveries = {r1, r2}
    Owners = {o}
    Reserved = {}
    Signings <- SharedOrSingle
    Requests = {q1, q2}
    Skew = 0
    MaxNow = 3
    MaxFaults = 1
    None = None
SYMMETRY RequestSymmetry
INVARIANTS
    RevocationHolds
    CoreFollowsMembers
CHECK_DEADLOCK FALSE
