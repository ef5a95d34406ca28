CONSTANTS
    None = None
    Users = {u1, u2}
    Shipments = {s1}
    Sessions = {p, q, r}
    Grants = {k1, k2}
    Amounts = {1, 2}
SYMMETRY Symmetry
SPECIFICATION Spec
PROPERTY ReversedOnlyUnconsumed
CHECK_DEADLOCK FALSE
