SPECIFICATION Spec
CONSTANTS
    u1 = u1
    c1 = c1
    c2 = c2
    NoHandler = NoHandler
    Users = {u1}
    Handlers = {c1, c2}
    Owner <- BothOfOne
    MaxRounds = 2
    CrashPoints = {150}
    Ticks = {113, 150}
    LossyX100 = {113}
    GraceX100 = 101
    Amounts = {99, 100, 151, 152}
    MinBetCents = 100
    MaxBetCents = 151
    MaxWinCents = 110
    InitialBalance = 250
    SigTerm = FALSE
    MaxRestarts = 1
    MaxFaults = 1
SYMMETRY Swapped
INVARIANTS
    TypeOK
    OneStakeOneCredit
    StatusMatchesMoney
    BalanceIsLedger
    LedgerChains
    RecordedPayoutWasPaid
PROPERTIES
    BetStatusOrder
    RecoveryClearsPending
    RefinesStakeBook
CHECK_DEADLOCK FALSE
