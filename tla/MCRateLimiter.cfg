SPECIFICATION FairSpec
CONSTANTS
    a1 = a1
    a2 = a2
    r1 = r1
    r2 = r2
    b1 = b1
    b2 = b2
    b3 = b3
    Addresses = {a1, a2}
    Requests = {r1, r2}
    Buckets = {b1, b2, b3}
    None = None
    Burst = 2
    Horizon = 1
    MaxSweeps = 1
INVARIANTS
    TypeOK
    RateBound
PROPERTIES
    IdleBucketsGo
CHECK_DEADLOCK FALSE
