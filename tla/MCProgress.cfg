SPECIFICATION FairSpec
CONSTANTS
    u1 = u1
    c1 = c1
    c2 = c2
    NoHandler = NoHandler
    Users = {u1}
    Handlers = {c1}
    Owner <- OneOfOne
    MaxRounds = 2
    CrashPoints = {100, 150}
    Ticks = {113, 150}
    LossyX100 = {113}
    GraceX100 = 101
    Amounts = {50, 100, 101}
    MinBetCents = 100
    MaxBetCents = 100
    MaxWinCents = 120
    InitialBalance = 250
    SigTerm = TRUE
    MaxRestarts = 1
    MaxFaults = 1
INVARIANT
    StopCompletesRound
PROPERTIES
    RoundStatusOrder
    RunningRoundCrashes
    CountedBetIsSettled
    RestartResolvesBets
CHECK_DEADLOCK FALSE
