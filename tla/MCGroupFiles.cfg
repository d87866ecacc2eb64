SPECIFICATION GateSpec
CONSTANTS
    Devices = {d1, d2}
    Purgers = {d2}
    small = small
    large = large
    Hashes <- Blobs
    Size <- SizeOf
    Ceiling = 2
    Requests = {q1, q2}
    Tokens = {t1}
    MaxCrashes = 1
    MaxArrived = 3
    None = None
INVARIANT FilesStay
CHECK_DEADLOCK FALSE
