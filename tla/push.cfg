CONSTANTS
    Users = {u1, u2}
    Endpoints = {e1}
    Keys = {k1, k2}
    Calls = {c1, c2}
    Workers = {w1}
    Null = Null
    MaxCalls = 5
    MaxFailures = 1
SPECIFICATION Spec
CHECK_DEADLOCK FALSE
INVARIANTS
    LeaversStayAway
    SubscriptionsStay
