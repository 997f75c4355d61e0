SPECIFICATION HistorySpec
CONSTANTS
    p1 = p1
    p2 = p2
    t1 = t1
    t2 = t2
    t3 = t3
    c1 = c1
    c2 = c2
    s1 = s1
    NoTx = NoTx
    NoIntent = NoIntent
    NoJob = NoJob
    Payments = {p1, p2}
    Txns = {t1, t2, t3}
    Clients = {c1, c2}
    Sweepers = {s1}
    Intent <- MixedIntent
    Uses <- MixedUses
    Priced = {p1}
    Refundable = {}
    Limit = 2
    Faults = {"fib", "reject", "lost", "release", "persist", "restart"}
    MaxFaults = 2
INVARIANTS TypeOK ClaimsExclusive DeliveryIsBought SpendIsPaidFor SpendsWithinFailures
PROPERTIES LinkIsFinal ImplementsSingleUse
SYMMETRY ClientSymmetry
