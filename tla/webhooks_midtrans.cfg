CONSTANTS
    r1 = r1
    Records = {r1}
    h1 = h1
    Handlers = {h1}
    Provider = "MIDTRANS"
    SnapToken = SnapToken
    Amounts = {300}
    Outcomes = {"settlement", "expire"}
    Attempts = 5
    Null = Null
    MaxInvoices = 1
    MaxReports = 1
    MaxChanges = 0
    MaxFailures = 0
SPECIFICATION FairSpec
CHECK_DEADLOCK FALSE
PROPERTIES
    PaidViaWebhook
