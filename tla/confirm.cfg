CONSTANTS
    h = h
    r1 = r1
    q1 = q1
    q2 = q2
    Records = {h, r1}
    Slots = {q1, q2}
    Operations = {"confirmPayment"}
    Actors = {"payer"}
    Txs = {}
    EventStatuses = {}
    Provider = "XENDIT"
    HostRecord = h
    SnapToken = SnapToken
    TotalAmount = 600
    Null = Null
    MaxRequests = 3
    MaxFailures = 0
SPECIFICATION Spec
CHECK_DEADLOCK FALSE
INVARIANTS
    ConfirmedIsPaid
