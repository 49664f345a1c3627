SPECIFICATION Spec
CONSTANTS
    u1 = u1
    c1 = c1
    c2 = c2
    NoHandler = NoHandler
    Users = {u1}
    Handlers = {c1}
    Owner <- OneOfOne
    MaxRounds = 1
    CrashPoints = {150}
    Ticks = {113, 150}
    LossyX100 = {113}
    GraceX100 = 101
    Amounts = {50, 100, 101}
    MinBetCents = 100
    MaxBetCents = 100
    MaxWinCents = 120
    InitialBalance = 250
    SigTerm = FALSE
    MaxRestarts = 0
    MaxFaults = 0
INVARIANT
    PaidBetIsNotLost
CHECK_DEADLOCK FALSE
