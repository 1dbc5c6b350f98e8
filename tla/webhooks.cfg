CONSTANTS
    r1 = r1
    Records = {r1}
    h1 = h1
    Handlers = {h1}
    Provider = "XENDIT"
    SnapToken = SnapToken
    Amounts = {300, 600}
    Outcomes = {"PAID"}
    Attempts = 2
    Null = Null
    MaxInvoices = 2
    MaxReports = 2
    MaxChanges = 1
    MaxFailures = 1
SPECIFICATION FairSpec
CHECK_DEADLOCK FALSE
INVARIANTS
    ProcessedTookEffect
    AlertedOncePerReport
PROPERTIES
    PaymentsAreRecorded
