SPECIFICATION FairSpec
CONSTANTS
    p1 = p1
    p2 = p2
    t1 = t1
    t2 = t2
    t3 = t3
    c1 = c1
    c2 = c2
    s1 = s1
    NoTx = NoTx
    NoIntent = NoIntent
    NoJob = NoJob
    Payments = {p1, p2}
    Txns = {t1, t2, t3}
    Clients = {c1}
    Sweepers = {s1}
    Intent <- HonestIntent
    Uses <- HonestUses
    Priced = {p1, p2}
    Refundable = {}
    Limit = 1
    Faults = {}
    MaxFaults = 0
PROPERTIES PaidOrderDelivered
