------------------------------- MODULE MCPeriod -------------------------------
EXTENDS BillingDates, GroupShares

\* The calendar and the shares of a group have no state in common: each is
\* explored while the other is where it began.
CalendarRests == frequency = "WEEKLY" /\ dueDay = 1 /\ year = FirstYear /\ month = 0 /\ day = 1
GroupRests == Init /\ method = "EQUAL" /\ \A cost \in Totals : total <= cost

PeriodInit == DatesInit /\ Init /\ (CalendarRests \/ GroupRests)

PeriodNext ==
    \/ CalendarRests /\ Next /\ UNCHANGED dateVars
    \/ GroupRests /\ DatesNext /\ UNCHANGED vars

PeriodSpec == PeriodInit /\ [][PeriodNext]_<<dateVars, vars>>
==============================================================================
