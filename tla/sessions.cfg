CONSTANTS
    q1 = q1
    q2 = q2
    Requests = {q1, q2}
    TicksPerSecond = 2
    OtpExpiry = 3
    OtpCooldown = 2
    OtpMaxAttempts = 1
    AccessExpiresIn = 1
    RefreshExpiresIn = 2
    MaxTime = 3
    MaxCodes = 2
    MaxPairs = 2
    MaxVerifications = 3
    MaxFailures = 1
SYMMETRY Symmetric
SPECIFICATION Spec
CHECK_DEADLOCK FALSE
INVARIANTS
    TypeOK
    ComparisonsAreLimited
    NoSecondLogin
    LastMailedCanBeEntered
    ExchangedStaysRefused
    RefreshKeepsTheSession
