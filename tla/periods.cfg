CONSTANTS
    Frequencies = {"WEEKLY", "MONTHLY", "YEARLY"}
    FirstYear = 2023
    LastYear = 2024
    N = 3
    Methods = {"EQUAL", "CUSTOM_PERCENTAGE", "CUSTOM_NOMINAL", "PRO_RATA"}
    Totals = {400, 402}
    Entered = {100, 201}
    Percentages = {3333, 5000, 5001}
    MAX_MEMBERS = 20
    Null = Null
    MaxEdits = 3
SPECIFICATION PeriodSpec
CHECK_DEADLOCK FALSE
INVARIANTS
    AskedForWhatIsDue
    SplitsAddUp
    ShownIsBilled
    UpcomingAddsUp
PROPERTIES
    PeriodsTile
    WindowsAlternate
