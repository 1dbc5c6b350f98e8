CONSTANTS
    h = h
    m1 = m1
    q1 = q1
    q2 = q2
    Members = {h, m1}
    HostMember = h
    Slots = {q1, q2}
    Operations <- AllOperations
    MaxMembers = 20
    Schedules <- MCSchedules
    Days <- MCDays
    PeriodDates <- MCPeriodDates
    dueWithin7Days <- MCDueWithin7Days
    Null = Null
    MaxRequests = 2
    MaxFailures = 1
SPECIFICATION MCSpec
INVARIANTS
    NoDuplicateCycle
