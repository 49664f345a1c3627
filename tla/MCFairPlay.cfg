SPECIFICATION Spec
CONSTANTS
    Base = 4
    PrefixLen = 4
    Hashes <- MCHashes
    Divisor = 10
    CapX100 = 2000
    LossyX100 <- MCLossy
    MaxRounds = 2
    MaxSeeds = 5
    MaxFaults = 2
INVARIANTS
    TypeOK
    InstantIffDivisible
    HouseProfitable
PROPERTIES
    ChainUnbroken
    SeedsStartSecret
CHECK_DEADLOCK FALSE
