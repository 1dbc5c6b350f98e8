CONSTANTS
    p1 = p1
    p2 = p2
    d1 = d1
    d2 = d2
    Processes = {p1}
    Devices = {d1, d2}
    Preference = "BOTH"
    HasUser = TRUE
    FirstDay = 0
    GraceDays = 1
    MaxByHand = 1
    MaxFailures = 1
    MaxRefusals = 1
    MaxJobs = 2
SPECIFICATION FairSpec
CHECK_DEADLOCK FALSE
INVARIANTS
    SentLogsAreTrue
    SentOncePerJob
    LiveDevicesAreKept
    ExpiredAreAlerted
PROPERTIES
    EmailsGoOut
