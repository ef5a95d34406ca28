CONSTANTS
    s1 = s1
    s2 = s2
    payer = payer
    carrier = carrier
    None = None
    Sessions = {p, q}
    Orders = {o1}
    Shipments = {s1}
    Users <- MCUsers
    Payer <- MCPayer
    Carrier <- MCCarrier
    Gross <- MCGross
    FeePercent = 50
    g1 = 2
    g2 = 2
    MayOverlap = {s1}
    Seeds <- MCSeeds
SYMMETRY Symmetry
SPECIFICATION Spec
INVARIANTS Reconciles StatusHasJournal EachReferenceOnce
PROPERTIES ImplementsContract
CHECK_DEADLOCK FALSE
