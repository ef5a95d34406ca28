CONSTANTS
    s1 = s1
    s2 = s2
    payer = payer
    carrier = carrier
    None = None
    Sessions = {p, q}
    Orders = {o1}
    Shipments = {s1, s2}
    Users <- MCUsers
    Payer <- MCPayer
    Carrier <- MCCarrier
    Gross <- MCGross
    FeePercent = 50
    g1 = 3
    g2 = 1
    MayOverlap = {}
    Seeds <- MCSeeds
SYMMETRY Symmetry
SPECIFICATION Spec
INVARIANTS FrozenNeverReleased
CHECK_DEADLOCK FALSE
