CONSTANTS
    None = None
    c1 = c1
    c2 = c2
    c3 = c3
    c4 = c4
    c5 = c5
    k1 = k1
    Calls <- MCCalls
    Keys = {k1}
    Key <- MCKey
    Method <- MCMethod
    r1 = r1
    r2 = r2
    r3 = r3
    Requests <- MCRequests
    Invokes <- MCInvokes
    Size = 2
    Environments <- MCEnvironments
    u1 = u1
    s1 = s1
    w1 = w1
    w2 = w2
    x1 = x1
    x2 = x2
    Users = {u1}
    Shipments = {s1}
    Writers = {w1, w2}
    Inputs <- MCInputs
    Checks = {x1, x2}
    e1 = e1
    e2 = e2
    e3 = e3
    e4 = e4
    Events <- MCEvents
    IdempotencyKey <- MCIdempotencyKey
    EventType <- MCEventType
    Filters = {"", "CALLBACK"}
    Limits = {0, 9}
    DefaultLimit = 1
    MaxLimit = 2
    Payers = {1, 2, 3}
    Price <- MCPrice
SPECIFICATION OperationsSpec
INVARIANTS
    AtMostOnce
    ServerTypeOK Accounted CleanExit
    SummaryBalances StatementExplains RunsPassed
    PagesMissNothing TotalIsReached
    MockKeepsApart
PROPERTIES
    KeyIsFreed SignalledExits Served ImplementsLedger
CHECK_DEADLOCK FALSE
