CONSTANTS
    payer = payer
    o1 = o1
    o2 = o2
    p = p
    q = q
    None = None
    Sessions = {p, q}
    Orders = {o1, o2}
    s1 = s1
    Shipments = {s1}
    Users = {payer}
    Payer <- MCPayer
    Carrier <- MCPayer
    Gross <- MCGross
    FeePercent = 50
    MayOverlap = {s1}
    Seeds <- MCSeeds
    TopupAmounts = {1}
SYMMETRY Symmetry
SPECIFICATION PaymentSpec
CHECK_DEADLOCK FALSE
INVARIANT FailedWasReported
