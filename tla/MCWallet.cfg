SPECIFICATION FairSpec
CONSTANTS
    u1 = u1
    o1 = o1
    o2 = o2
    k1 = k1
    k2 = k2
    Users = {u1}
    Orders = {o1}
    Workers = {k1, k2}
    Prices = {0, 115}
    Paid = {0, 60}
    LossyCents = {115}
    Adjustments <- TakeMuch
    Stakes = {100}
    InitialBalance = 100
    MaxExtras = 2
    MaxFaults = 1
INVARIANTS
    TypeOK
    FinishedWasCredited
    BooksBalance
PROPERTIES
    FinishedIsClosed
    PaidOrderIsCredited
CHECK_DEADLOCK FALSE
