SPECIFICATION Spec
CONSTANTS
    ann = ann
    eve = eve
    mail1 = mail1
    name1 = name1
    name2 = name2
    r1 = r1
    r2 = r2
    k1 = k1
    Users = {ann, eve}
    Mail <- TwoMails
    Name <- OneName
    Tickets = {k1}
    Requests = {r1, r2}
    AccessTTL = 0
    RefreshTTL = 1
    TicketTTL = 0
    MaxNow = 2
    MaxBegun = 4
    MaxFaults = 1
INVARIANT
    TicketOpensOnce
CHECK_DEADLOCK FALSE
