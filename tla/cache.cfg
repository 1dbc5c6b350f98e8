CONSTANTS
    Host = host
    m1 = m1
    Members = {m1}
    Readers = {r1, r2}
    Ttl = 1
    Null = Null
    MaxChanges = 2
    MaxFailures = 1
SPECIFICATION FairSpec
CHECK_DEADLOCK FALSE
INVARIANTS
    AnsweredChangesShow
PROPERTIES
    ListsCatchUp
