CONSTANTS
    u1 = u1
    w1 = w1
    w2 = w2
    None = None
    Users = {u1}
    Shipments <- MCShipments
    Sessions = {p, q}
    Withdrawals = {w1}
    Amounts = {2}
    balance = 3
    MayOverlap = {w1}
    Seeds <- MCSeeds
SYMMETRY Symmetry
SPECIFICATION Spec
INVARIANT CompletedNotReversed
CHECK_DEADLOCK FALSE
