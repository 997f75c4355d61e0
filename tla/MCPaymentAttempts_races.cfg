SPECIFICATION FairSpec
CONSTANTS
    p1 = p1
    p2 = p2
    t1 = t1
    k1 = k1
    k2 = k2
    w1 = w1
    a1 = a1
    NoTx = NoTx
    Payments = {p1, p2}
    Txns = {t1}
    Checkouts = {k1, k2}
    Webhooks = {w1}
    Pollers = {a1}
    MaxRestarts = 1
INVARIANTS TypeOK AcceptedIsRecorded OneRowPerTransaction
PROPERTIES ImplementsLedger TransactionIsRecorded RefundIsRecorded
