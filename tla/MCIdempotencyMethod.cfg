CONSTANTS
    c1 = c1
    c2 = c2
    c3 = c3
    c4 = c4
    c5 = c5
    k1 = k1
    None = None
    Calls <- MCCalls
    Keys = {k1}
    Key <- MCKey
    Method <- MCMethod
SPECIFICATION Spec
INVARIANT ReplaySameMethod
CHECK_DEADLOCK FALSE
