SPECIFICATION Spec
CONSTANTS
    p1 = p1
    p2 = p2
    t1 = t1
    t2 = t2
    t3 = t3
    c1 = c1
    c2 = c2
    s1 = s1
    NoTx = NoTx
    NoIntent = NoIntent
    NoJob = NoJob
    Payments = {p1}
    Txns = {t1, t2, t3}
    Clients = {c1, c2}
    Sweepers = {s1}
    Intent <- ContendedIntent
    Uses <- ContendedUses
    Priced = {p1}
    Refundable = {p1}
    Limit = 1
    Faults = {"reject"}
    MaxFaults = 1
INVARIANTS OneSpendPerPayment
