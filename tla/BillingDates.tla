----------------------------- MODULE BillingDates -----------------------------
(***************************************************************************)
(* The calendar behind generateNextCycle: which period, and which due      *)
(* date, a group gets on a given day, for every frequency and due day, and *)
(* on which days the daily check asks for it.                              *)
(*                                                                         *)
(* A date is the number of days since Monday, 1 January of the year 1.     *)
(***************************************************************************)
EXTENDS Integers

CONSTANTS
    Frequencies,    \* the billing frequencies in use
    FirstYear,
    LastYear        \* bound: the years that pass

ASSUME DatesAssumption ==
    /\ Frequencies \subseteq {"WEEKLY", "MONTHLY", "YEARLY"}
    /\ FirstYear \in Nat \ {0}
    /\ LastYear \in Nat

VARIABLES
    frequency,  \* groups.frequency
    dueDay,     \* groups.due_day
    year,       \* today; months count from 0, as in JavaScript
    month,
    day

dateVars == <<frequency, dueDay, year, month, day>>

------------------------------------------------------------------------------
(* new Date(y, m, d), where m and d may leave their range. *)

Leap(y) == y % 4 = 0 /\ (y % 100 # 0 \/ y % 400 = 0)

MonthLength(y, m) ==
    CASE m = 1 -> IF Leap(y) THEN 29 ELSE 28
      [] m \in {3, 5, 8, 10} -> 30
      [] OTHER -> 31

\* Days of the year before month m.
DaysBefore(y, m) ==
    LET common == <<0, 31, 59, 90, 120, 151, 181, 212, 243, 273, 304, 334>>
    IN  common[m + 1] + (IF m > 1 /\ Leap(y) THEN 1 ELSE 0)

Date(y, m, d) ==
    LET n == y + (m \div 12)
        p == n - 1
    IN  365 * p + (p \div 4) - (p \div 100) + (p \div 400) + DaysBefore(n, m % 12) + d - 1

now == Date(year, month, day)
getDay == (now + 1) % 7

Lower(a, b) == IF a < b THEN a ELSE b

------------------------------------------------------------------------------
(* computePeriodDates.  Due dates are at midnight: today's is over. *)

Cycle(start, end, due) == [periodStart |-> start, periodEnd |-> end, dueDate |-> due]

\* Mutant: the period stays where it is when its due date moves on.
Monthly_Kept(m) ==
    Cycle(Date(year, month, 1), Date(year, month + 1, 0),
          Date(year, m, Lower(dueDay, MonthLength(year + (m \div 12), m % 12))))

Monthly(m) ==
    Cycle(Date(year, m, 1), Date(year, m + 1, 0),
          Date(year, m, Lower(dueDay, MonthLength(year + (m \div 12), m % 12))))

Yearly(y) == Cycle(Date(y, 0, 1), Date(y, 11, 31), Date(y, 0, Lower(dueDay, 28)))

Weekly ==
    LET monday == now + (IF getDay = 0 THEN -6 ELSE 1 - getDay)
    IN  Cycle(monday, monday + 6, monday + Lower(dueDay - 1, 6))

computePeriodDates ==
    CASE frequency = "MONTHLY" ->
            IF Monthly(month).dueDate <= now THEN Monthly(month + 1) ELSE Monthly(month)
      [] frequency = "YEARLY" ->
            IF Yearly(year).dueDate <= now THEN Yearly(year + 1) ELSE Yearly(year)
      [] frequency = "WEEKLY" -> Weekly

\* generateUpcomingCycles: the next due day of the month, whatever the frequency.
nextDueDate ==
    IF Date(year, month, dueDay) <= now
    THEN Date(year, month + 1, dueDay) ELSE Date(year, month, dueDay)

\* Mutant: the cron asks a week too early as well.
Asked_Early == nextDueDate - now <= 14
\* Mutant: the cron asks on the seventh day before only.
Asked_Once == nextDueDate - now = 7
Asked == nextDueDate - now <= 7

------------------------------------------------------------------------------
DatesInit ==
    /\ frequency \in Frequencies
    /\ dueDay \in 1..28
    /\ year = FirstYear
    /\ month = 0
    /\ day = 1

NextDay ==
    /\ day < MonthLength(year, month)
    /\ day' = day + 1
    /\ UNCHANGED <<frequency, dueDay, year, month>>

NextMonth ==
    /\ day = MonthLength(year, month)
    /\ IF month < 11 THEN month' = month + 1 /\ UNCHANGED year
       ELSE year < LastYear /\ month' = 0 /\ year' = year + 1
    /\ day' = 1
    /\ UNCHANGED <<frequency, dueDay>>

DatesNext == NextDay \/ NextMonth

DatesSpec == DatesInit /\ [][DatesNext]_dateVars

------------------------------------------------------------------------------
(* Correctness. *)

(***************************************************************************)
(* From one day to the next, a group is offered the same period again or   *)
(* the one that begins the day after it ends: periods neither overlap nor  *)
(* leave a gap, over ends of months, of years and of February              *)
(* (computePeriodDates).                                                   *)
(***************************************************************************)
PeriodsTile ==
    [][day' # day =>
           LET old == computePeriodDates
               new == computePeriodDates'
           IN  new = old \/ new.periodStart = old.periodEnd + 1]_dateVars

(***************************************************************************)
(* When the daily check asks for a period of a monthly group, the period   *)
(* it gets is the one whose due date made it ask, and that date is within  *)
(* the next seven days (generateUpcomingCycles, computePeriodDates).       *)
(***************************************************************************)
AskedForWhatIsDue ==
    frequency = "MONTHLY" /\ Asked =>
        LET due == computePeriodDates.dueDate
        IN  due = nextDueDate /\ due - now \in 1..7

\* The month whose due date comes next, counted through the years.
dueMonth == 12 * year + month + (IF Date(year, month, dueDay) <= now THEN 1 ELSE 0)

(***************************************************************************)
(* Every due date has one stretch of days before it in which the daily     *)
(* check asks for its period: it opens before the date comes, stays open   *)
(* until then, and closes with it; no due date is passed over or asked for *)
(* twice (generateUpcomingCycles).                                         *)
(***************************************************************************)
WindowsAlternate ==
    [][day' # day =>
           \/ dueMonth' = dueMonth /\ (Asked => Asked')
           \/ dueMonth' = dueMonth + 1 /\ Asked /\ ~Asked']_dateVars
==============================================================================
