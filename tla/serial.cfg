CONSTANTS
    h = h
    r1 = r1
    q1 = q1
    q2 = q2
    t1 = t1
    Records = {h, r1}
    Slots = {q1, q2}
    Operations <- SerialOperations
    Actors = {"host", "payer", "other"}
    Txs = {t1}
    EventStatuses = {"PAID", "EXPIRED"}
    Provider = "XENDIT"
    HostRecord = h
    SnapToken = SnapToken
    TotalAmount = 600
    Null = Null
    MaxRequests = 3
    MaxFailures = 1
SPECIFICATION SerialSpec
CHECK_DEADLOCK FALSE
INVARIANTS
    SettledIsCompleted
PROPERTIES
    ImplementsLifecycle
