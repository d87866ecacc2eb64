SPECIFICATION OneSpec
CONSTANTS
    k = k
    r1 = r1
    r2 = r2
    g1 = g1
    g2 = g2
    d1 = d1
    d2 = d2
    small = small
    large = large
    w1 = w1
    accepting = accepting
    full = full
    Relays = {w1}
    Listings = {accepting, full}
    Withdrawn = Withdrawn
    Gap = 2
    Heartbeat = 3
    Ttl = 6
    ClockSkew = 0
    MaxClock = 6
    MaxEvents = 3
    Unset = Unset
    Keepers = {k}
    Rooms = {r1, r2}
    GrantIds = {g1, g2}
    Devices = {d1, d2}
    Purgers = {d2}
    Hashes = {small, large}
    Size <- SizeOf
    Ceiling = 2
    Tokens = {t1}
    MaxCrashes = 1
    MaxArrived = 3
    Authorities = {}
    Signings <- VersionsOrTwoRooms
    Requests = {q1, q2}
    Lifetime = 4
    Retention = 4
    Grace = 1
    Skew = 0
    MaxNow = 8
    MaxRestarts = 1
    None = None
SYMMETRY Interchangeable
INVARIANTS
    NewestVersionRules
    ResetIsFinal
    OneGrantInForce
    CoreKnowsUploaders
    CeilingHolds
    HoldingsRight
    Announced
PROPERTIES
    Spaced
CHECK_DEADLOCK FALSE
