CONSTANTS
    g1 = g1
    g2 = g2
    r1 = r1
    r2 = r2
    k1 = k1
    k2 = k2
    k3 = k3
    u1 = u1
    None = None
    Calls <- MCCalls
    Keys = {k1, k2, k3}
    Key <- MCKey
    Method <- MCMethod
    Users = {u1}
    Shipments = {s1}
    Amounts = {1, 2}
    Payee <- MCPayee
    Amount <- MCAmount
    Target <- MCTarget
SPECIFICATION GuardedSpec
INVARIANTS  ExpenseExplained OneReverser StatusTellsLedger AnsweredIsBooked TypeOK SameAnswer CacheIsRecord
CHECK_DEADLOCK FALSE
