CONSTANTS
    h = h
    r1 = r1
    q1 = q1
    q2 = q2
    t1 = t1
    t2 = t2
    Records = {h, r1}
    Slots = {q1, q2}
    Operations <- AllOperations
    Actors = {"host", "payer"}
    Txs = {t1, t2}
    EventStatuses = {"PAID"}
    Provider = "XENDIT"
    HostRecord = h
    SnapToken = SnapToken
    TotalAmount = 600
    Null = Null
    MaxRequests = 3
    MaxFailures = 1
SPECIFICATION FamilySpec
SYMMETRY Symmetry
CHECK_DEADLOCK FALSE
INVARIANTS
    TypeOK
    PaidIsAuthorised
    CollectedAmountWasDue
    ExpiredIsJustified
    TokenBurntAfterReport
    CompletedIsBacked
    IInv
    GatewayAttribution
PROPERTIES
    PeriodMoves
