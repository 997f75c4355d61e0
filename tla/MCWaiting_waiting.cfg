SPECIFICATION MCSpec
CONSTANTS
    o1 = o1
    e1 = e1
    e2 = e2
    save1 = save1
    save2 = save2
    cron1 = cron1
    ask1 = ask1
    Missing = Missing
    Orders = {o1}
    ESimsOf <- MCESimsOf
    Savers = {save1, save2}
    Crons = {cron1}
    Askers = {ask1}
    MaxFailures = 1
    c1 = c1
    c2 = c2
    s1 = s1
    s2 = s2
    p1 = p1
    p2 = p2
    Calls = {c1, c2}
    NoToken = NoToken
    TokenLife = 4
    Margin = 2
    MaxIssued = 4
    Nobody = Nobody
INVARIANTS
    RowsTypeOK
PROPERTIES
    OrdersKeepTheirCards
    PlaceholderIsFilled
    NobodyWaitsForEver
CHECK_DEADLOCK FALSE
