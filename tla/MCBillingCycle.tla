---------------------------- MODULE MCBillingCycle ----------------------------
EXTENDS BillingCycle

AllOperations == Requests \cup Generators

\* Days of the year 2023, numbered as in BillingDates.
Jan(day) == 738519 + day
Feb(day) == Jan(31) + day
Mar(day) == Feb(28) + day

\* On the first and the last day the next 28th and the next 2nd are both near.
MCDays == {Jan(27), Feb(2), Feb(26)}

MonthlyOn(day) == [frequency |-> "MONTHLY", dueDay |-> day]
MCSchedules == {MonthlyOn(28), MonthlyOn(2)}

Cycle(start, due) == [periodStart |-> start, dueDate |-> due]

MCPeriodDates ==
    [s \in Schedules |-> [d \in Days |->
        CASE s = MonthlyOn(28) -> IF d < Jan(28) THEN Cycle(Jan(1), Jan(28))
                                                 ELSE Cycle(Feb(1), Feb(28))
          [] s = MonthlyOn(2)  -> IF d < Feb(2) THEN Cycle(Feb(1), Feb(2))
                                                ELSE Cycle(Mar(1), Mar(2))]]

MCDueWithin7Days == [s \in Schedules |-> [d \in Days |-> d \in {Jan(27), Feb(26)}]]

Calendar(s, year, month, day) ==
    INSTANCE BillingDates WITH Frequencies <- {"WEEKLY", "MONTHLY", "YEARLY"},
                               FirstYear <- 2023, LastYear <- 2023,
                               frequency <- s.frequency, dueDay <- s.dueDay

\* With other tables than what BillingDates computes there is no behaviour at all.
CalendarOfBillingDates ==
    \A s \in Schedules, n \in Days :
        LET month == IF n > Jan(31) THEN 1 ELSE 0
            day == IF n > Jan(31) THEN n - Jan(31) ELSE n - Jan(0)
            dates == Calendar(s, 2023, month, day)!computePeriodDates
        IN  /\ Calendar(s, 2023, month, day)!now = n
            /\ PeriodDates[s][n] = Cycle(dates.periodStart, dates.dueDate)
            /\ dueWithin7Days[s][n] = Calendar(s, 2023, month, day)!Asked

\* The host makes the group for the 28th, and may move it to the 2nd.
MCInit == Init /\ schedule = MonthlyOn(28) /\ CalendarOfBillingDates

MCSpec == MCInit /\ [][Next]_vars
MCFairSpec == MCSpec /\ Fairness
==============================================================================
