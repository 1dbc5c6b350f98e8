----------------------------- MODULE PeriodProofs -----------------------------
(***************************************************************************)
(* Theorems about what a generated period is: its dates (BillingDates) and *)
(* its amounts (GroupShares).                                              *)
(*                                                                         *)
(* Sums over members and finite sets are a fold of the library.  What the  *)
(* proofs need of it is proved here by a least counterexample: of the sets *)
(* for which a statement fails, one of the smallest.                       *)
(***************************************************************************)
EXTENDS BillingDates, GroupShares, FiniteSetTheorems, WellFoundedInduction, TLAPS

------------------------------------------------------------------------------
(* Days, months and years. *)

\* 1 January of year y, a year that begins after y - 1 others.
NewYear(y) == LET p == y - 1 IN 365 * p + (p \div 4) - (p \div 100) + (p \div 400)

\* 1 January of the next year is a year's days after that of this one.
LEMMA NextYear ==
  ASSUME NEW y \in Nat \ {0}
  PROVE  NewYear(y + 1) = NewYear(y) + (IF Leap(y) THEN 366 ELSE 365)
  <1>. DEFINE p == y - 1
  <1>1. p \in Nat /\ y = p + 1
    OBVIOUS
  <1>. HIDE DEF p
  <1>2. ((p + 1) \div 4) = (p \div 4) + (IF (p + 1) % 4 = 0 THEN 1 ELSE 0)
    BY <1>1
  <1>3. ((p + 1) \div 100) = (p \div 100) + (IF (p + 1) % 100 = 0 THEN 1 ELSE 0)
    BY <1>1
  <1>4. ((p + 1) \div 400) = (p \div 400) + (IF (p + 1) % 400 = 0 THEN 1 ELSE 0)
    BY <1>1
  <1>5. /\ (p + 1) % 100 = 0 => (p + 1) % 4 = 0
        /\ (p + 1) % 400 = 0 => (p + 1) % 100 = 0
    BY <1>1
  <1>6. /\ NewYear(y) = 365 * p + (p \div 4) - (p \div 100) + (p \div 400)
        /\ NewYear(y + 1) = 365 * (p + 1) + ((p + 1) \div 4) - ((p + 1) \div 100) + ((p + 1) \div 400)
    BY <1>1 DEF NewYear, p
  <1>7. /\ (p \div 4) \in Int /\ (p \div 100) \in Int /\ (p \div 400) \in Int
    BY <1>1
  <1>. QED
    BY <1>1, <1>2, <1>3, <1>4, <1>5, <1>6, <1>7 DEF Leap

\* A date of year y, and one of a month beyond its end, as Date computes them.
LEMMA DateInYear ==
  ASSUME NEW y \in Nat \ {0}, NEW m \in 0..11, NEW d \in Int
  PROVE  /\ Date(y, m, d) = NewYear(y) + DaysBefore(y, m) + d - 1
         /\ Date(y, m + 12, d) = NewYear(y + 1) + DaysBefore(y + 1, m) + d - 1
  <1>1. m \div 12 = 0 /\ m % 12 = m /\ (m + 12) \div 12 = 1 /\ (m + 12) % 12 = m
    OBVIOUS
  <1>2. y + 0 = y
    OBVIOUS
  <1>. QED
    BY <1>1, <1>2 DEF Date, NewYear

\* A month has 28 to 31 days
LEMMA MonthHas ==
  ASSUME NEW y \in Nat \ {0}, NEW m \in 0..11
  PROVE  MonthLength(y, m) \in 28..31
  BY DEF MonthLength

\* Months follow each other within the year ...
LEMMA DaysBeforeNext ==
  ASSUME NEW y \in Nat \ {0}, NEW m \in 0..10
  PROVE  DaysBefore(y, m + 1) = DaysBefore(y, m) + MonthLength(y, m)
  BY DEF DaysBefore, MonthLength

\* ... and fill it.
LEMMA DaysBeforeEnds ==
  ASSUME NEW y \in Nat \ {0}
  PROVE  /\ DaysBefore(y, 0) = 0
         /\ DaysBefore(y, 11) + MonthLength(y, 11) = (IF Leap(y) THEN 366 ELSE 365)
         /\ \A m \in 0..11 : DaysBefore(y, m) \in Nat
  BY DEF DaysBefore, MonthLength

\* The calendar of BillingDates, as far as the proofs need it.
CalendarInv ==
    /\ frequency \in {"WEEKLY", "MONTHLY", "YEARLY"}
    /\ dueDay \in 1..28
    /\ year \in Nat \ {0}
    /\ month \in 0..11
    /\ day \in 1..MonthLength(year, month)

LEMMA InitCalendar == DatesInit => CalendarInv
  BY DatesAssumption DEF DatesInit, CalendarInv, MonthLength

LEMMA NextCalendar == CalendarInv /\ [DatesNext]_dateVars => CalendarInv'
  <1>. SUFFICES ASSUME CalendarInv, [DatesNext]_dateVars PROVE CalendarInv'
    OBVIOUS
  <1>1. CASE NextDay
    BY <1>1, MonthHas DEF NextDay, CalendarInv
  <1>2. CASE NextMonth
    <2>1. /\ year' \in Nat \ {0} /\ month' \in 0..11 /\ day' = 1
          /\ frequency' = frequency /\ dueDay' = dueDay
      BY <1>2 DEF NextMonth, CalendarInv
    <2>2. MonthLength(year', month') \in 28..31
      BY <2>1, MonthHas
    <2>. QED
      BY <2>1, <2>2 DEF CalendarInv
  <1>3. CASE UNCHANGED dateVars
    BY <1>3 DEF dateVars, CalendarInv
  <1>. QED
    BY <1>1, <1>2, <1>3 DEF DatesNext

\* Days are counted from the first of the month, which follows the last of the one before.
LEMMA DaysOfMonth ==
  ASSUME NEW y \in Nat \ {0}, NEW m \in 0..12, NEW d \in Int
  PROVE  /\ Date(y, m, d) = Date(y, m, 1) + d - 1
         /\ Date(y, m, 1) \in Int
  <1>1. CASE m \in 0..11
    <2>1. Date(y, m, d) = NewYear(y) + DaysBefore(y, m) + d - 1
      BY <1>1, DateInYear
    <2>2. Date(y, m, 1) = NewYear(y) + DaysBefore(y, m) + 1 - 1
      BY <1>1, DateInYear
    <2>3. DaysBefore(y, m) \in Int /\ NewYear(y) \in Int
      BY <1>1, DaysBeforeEnds DEF NewYear
    <2>. QED
      BY <2>1, <2>2, <2>3
  <1>2. CASE m = 12
    <2>1. /\ Date(y, 12, d) = NewYear(y + 1) + DaysBefore(y + 1, 0) + d - 1
          /\ Date(y, 12, 1) = NewYear(y + 1) + DaysBefore(y + 1, 0) + 1 - 1
      <3>1. 0 \in 0..11 /\ 0 + 12 = 12
        OBVIOUS
      <3>. QED
        BY <3>1, DateInYear
    <2>2. DaysBefore(y + 1, 0) = 0 /\ NewYear(y + 1) \in Int
      BY DaysBeforeEnds DEF NewYear
    <2>. QED
      BY <1>2, <2>1, <2>2
  <1>. QED
    BY <1>1, <1>2

\* The first of the next month is a month's days after that of this one.
LEMMA NextMonthStarts ==
  ASSUME NEW y \in Nat \ {0}, NEW m \in 0..11
  PROVE  Date(y, m + 1, 1) = Date(y, m, 1) + MonthLength(y, m)
  <1>1. Date(y, m, 1) = NewYear(y) + DaysBefore(y, m) + 1 - 1
    BY DateInYear
  <1>2. /\ NewYear(y) \in Int /\ DaysBefore(y, m) \in Int /\ MonthLength(y, m) \in Int
    BY DaysBeforeEnds, MonthHas DEF NewYear
  <1>3. CASE m < 11
    <2>1. Date(y, m + 1, 1) = NewYear(y) + DaysBefore(y, m + 1) + 1 - 1
      BY <1>3, DateInYear
    <2>2. DaysBefore(y, m + 1) = DaysBefore(y, m) + MonthLength(y, m)
      BY <1>3, DaysBeforeNext
    <2>. QED
      BY <1>1, <1>2, <2>1, <2>2
  <1>4. CASE m = 11
    <2>1. Date(y, 12, 1) = NewYear(y + 1) + DaysBefore(y + 1, 0) + 1 - 1
      <3>1. 0 \in 0..11 /\ 0 + 12 = 12
        OBVIOUS
      <3>. QED
        BY <3>1, DateInYear
    <2>2. DaysBefore(y + 1, 0) = 0 /\ NewYear(y + 1) \in Int
      BY DaysBeforeEnds DEF NewYear
    <2>3. NewYear(y + 1) = NewYear(y) + DaysBefore(y, 11) + MonthLength(y, 11)
      <3>1. NewYear(y) \in Int
        BY DEF NewYear
      <3>. QED
        <4>. DEFINE length == IF Leap(y) THEN 366 ELSE 365
        <4>1. NewYear(y + 1) = NewYear(y) + length
          BY NextYear
        <4>2. DaysBefore(y, 11) + MonthLength(y, 11) = length /\ length \in Int
          BY DaysBeforeEnds
        <4>3. DaysBefore(y, 11) \in Int /\ MonthLength(y, 11) \in Int
          BY <1>2, <1>4
        <4>. HIDE DEF length
        <4>. QED
          BY <3>1, <4>1, <4>2, <4>3
    <2>. QED
      BY <1>1, <1>2, <1>4, <2>1, <2>2, <2>3
  <1>. QED
    BY <1>3, <1>4

\* Month 12 is January of the next year.
LEMMA MonthTwelve ==
  ASSUME NEW y \in Nat \ {0}, NEW d \in Int
  PROVE  /\ Date(y, 12, d) = Date(y + 1, 0, d)
         /\ Date(y, 13, d) = Date(y + 1, 1, d)
  <1>1. 0 \in 0..11 /\ 1 \in 0..11 /\ 0 + 12 = 12 /\ 1 + 12 = 13 /\ y + 1 \in Nat \ {0}
    OBVIOUS
  <1>2. /\ Date(y, 12, d) = NewYear(y + 1) + DaysBefore(y + 1, 0) + d - 1
        /\ Date(y, 13, d) = NewYear(y + 1) + DaysBefore(y + 1, 1) + d - 1
    BY <1>1, DateInYear
  <1>. QED
    BY <1>1, <1>2, DateInYear

\* The period of month m, without the cap on the due day, which is never reached.
MonthCycle(y, m, d) == Cycle(Date(y, m, 1), Date(y, m + 1, 0), Date(y, m, d))

\* The period of year y, likewise.
YearCycle(y, d) == Cycle(Date(y, 0, 1), Date(y, 11, 31), Date(y, 0, d))

\* The cap on the due day is never reached: due days end at 28 (createGroup's DTO).
LEMMA DueDayIsInMonth ==
  ASSUME CalendarInv
  PROVE  /\ Monthly(month) = MonthCycle(year, month, dueDay)
         /\ Monthly(month + 1) = MonthCycle(year, month + 1, dueDay)
  <1>1. ASSUME NEW m \in 0..12
        PROVE  Lower(dueDay, MonthLength(year + (m \div 12), m % 12)) = dueDay
    <2>1. MonthLength(year + (m \div 12), m % 12) \in 28..31
      <3>1. m \div 12 \in Nat /\ m % 12 \in 0..11
        OBVIOUS
      <3>. QED
        BY <3>1, MonthHas DEF CalendarInv
    <2>. QED
      BY <2>1 DEF CalendarInv, Lower
  <1>2. month \in 0..12 /\ month + 1 \in 0..12
    BY DEF CalendarInv
  <1>. QED
    BY <1>1, <1>2 DEF Monthly, MonthCycle

\* computePeriodDates without caps.
ByDueDay ==
    /\ frequency = "MONTHLY" =>
          computePeriodDates = IF Date(year, month, dueDay) <= now
                               THEN MonthCycle(year, month + 1, dueDay)
                               ELSE MonthCycle(year, month, dueDay)
    /\ frequency = "YEARLY" =>
          computePeriodDates = IF Date(year, 0, dueDay) <= now
                               THEN YearCycle(year + 1, dueDay)
                               ELSE YearCycle(year, dueDay)
    /\ frequency = "WEEKLY" => computePeriodDates = Weekly

LEMMA PeriodOf == CalendarInv => ByDueDay
  <1>. SUFFICES ASSUME CalendarInv PROVE ByDueDay
    OBVIOUS
  <1>1. Lower(dueDay, 28) = dueDay
    BY DEF CalendarInv, Lower
  <1>2. Monthly(month).dueDate = Date(year, month, dueDay)
    BY DueDayIsInMonth DEF MonthCycle, Cycle
  <1>3. /\ Yearly(year) = YearCycle(year, dueDay)
        /\ Yearly(year + 1) = YearCycle(year + 1, dueDay)
    BY <1>1 DEF Yearly, YearCycle
  <1>4. Yearly(year).dueDate = Date(year, 0, dueDay)
    BY <1>3 DEF YearCycle, Cycle
  <1>. QED
    BY <1>2, <1>3, <1>4, DueDayIsInMonth DEF computePeriodDates, ByDueDay

\* Today and this month's due date, counted from the first of the month.
InMonth ==
    /\ now = Date(year, month, 1) + day - 1
    /\ now \in Int
    /\ Date(year, month, dueDay) = Date(year, month, 1) + dueDay - 1
    /\ Date(year, month, 1) \in Int
    /\ MonthLength(year, month) \in 28..31

LEMMA TodayIs == CalendarInv => InMonth
  <1>. SUFFICES ASSUME CalendarInv PROVE InMonth
    OBVIOUS
  <1>1. /\ year \in Nat \ {0} /\ month \in 0..11 /\ month \in 0..12 /\ dueDay \in Int
    BY DEF CalendarInv
  <1>2. MonthLength(year, month) \in 28..31
    BY <1>1, MonthHas
  <1>3. day \in Int
    BY <1>2 DEF CalendarInv
  <1>4. Date(year, month, dueDay) = Date(year, month, 1) + dueDay - 1
    BY <1>1, DaysOfMonth
  <1>5. Date(year, month, 1) \in Int
    BY <1>1, DaysOfMonth
  <1>6. Date(year, month, day) = Date(year, month, 1) + day - 1
    BY <1>1, <1>3, DaysOfMonth
  <1>. QED
    <2>1. now = Date(year, month, day)
      BY DEF now
    <2>. QED
      BY <1>2, <1>3, <1>4, <1>5, <1>6, <2>1 DEF InMonth

(***************************************************************************)
(* Whenever the daily check asks for a period of a monthly group           *)
(* (generateUpcomingCycles), computePeriodDates gives it the one whose due *)
(* date made it ask, one to seven days ahead: on every day of every year,  *)
(* for every due day.                                                      *)
(***************************************************************************)
THEOREM PeriodsAreAskedForWhenDue == DatesSpec => []AskedForWhatIsDue
  <1>1. ASSUME CalendarInv PROVE AskedForWhatIsDue
    <2>. SUFFICES ASSUME frequency = "MONTHLY", Asked
                  PROVE  /\ computePeriodDates.dueDate = nextDueDate
                         /\ nextDueDate - now \in 1..7
      BY DEF AskedForWhatIsDue
    <2>1. computePeriodDates.dueDate = nextDueDate
      BY <1>1, PeriodOf DEF nextDueDate, MonthCycle, Cycle, ByDueDay
    <2>2. nextDueDate \in Int /\ nextDueDate > now
      <3>1. Date(year, month + 1, dueDay) = Date(year, month + 1, 1) + dueDay - 1
        <4>1. year \in Nat \ {0} /\ month + 1 \in 0..12 /\ dueDay \in Int
          BY <1>1 DEF CalendarInv
        <4>. QED
          BY <4>1, DaysOfMonth
      <3>2. Date(year, month + 1, 1) = Date(year, month, 1) + MonthLength(year, month)
        BY <1>1, NextMonthStarts DEF CalendarInv
      <3>. QED
        BY <1>1, <3>1, <3>2, TodayIs DEF CalendarInv, nextDueDate, InMonth
    <2>. QED
      BY <1>1, <2>1, <2>2, TodayIs DEF Asked, InMonth
  <1>. QED
    BY <1>1, InitCalendar, NextCalendar, PTL DEF DatesSpec

\* A day later than today is.
LEMMA Tomorrow ==
  ASSUME CalendarInv, DatesNext
  PROVE  /\ now' = now + 1
         /\ frequency' = frequency /\ dueDay' = dueDay
  <1>1. CalendarInv'
    BY NextCalendar
  <1>2. now' = Date(year', month', 1) + day' - 1
    <2>1. InMonth'
      BY <1>1, TodayIs, PTL
    <2>. QED
      BY <2>1 DEF InMonth
  <1>3. CASE NextDay
    BY <1>2, <1>3, TodayIs DEF NextDay, CalendarInv, InMonth
  <1>4. CASE NextMonth
    <2>1. Date(year', month', 1) = Date(year, month + 1, 1)
      <3>1. CASE month < 11
        BY <1>4, <3>1 DEF NextMonth
      <3>2. CASE month >= 11
        BY <1>4, <3>2, MonthTwelve DEF NextMonth, CalendarInv
      <3>. QED
        BY <3>1, <3>2 DEF CalendarInv
    <2>2. Date(year, month + 1, 1) = Date(year, month, 1) + MonthLength(year, month)
      BY NextMonthStarts DEF CalendarInv
    <2>. QED
      BY <1>2, <1>4, <2>1, <2>2, TodayIs DEF NextMonth, InMonth
  <1>. QED
    BY <1>3, <1>4 DEF DatesNext, NextDay, NextMonth

\* The period after a step: the same, or the one that begins the day after it ends.
Tiles(old, new) == new = old \/ new.periodStart = old.periodEnd + 1

\* The periods of successive months and years follow each other.
LEMMA MonthsTile ==
  ASSUME NEW y \in Nat \ {0}, NEW m \in 0..11, NEW d \in 1..28
  PROVE  Tiles(MonthCycle(y, m, d), MonthCycle(y, m + 1, d))
  <1>1. /\ Date(y, m + 1, 0) = Date(y, m + 1, 1) + 0 - 1
        /\ Date(y, m + 1, 1) \in Int
    <2>1. m + 1 \in 0..12 /\ 0 \in Int /\ 1 \in Int
      OBVIOUS
    <2>. QED
      BY <2>1, DaysOfMonth
  <1>2. Date(y, m + 1, 1) = Date(y, m + 1, 0) + 1
    BY <1>1
  <1>. QED
    BY <1>2 DEF Tiles, MonthCycle, Cycle

LEMMA YearsTile ==
  ASSUME NEW y \in Nat \ {0}, NEW d \in 1..28
  PROVE  Tiles(YearCycle(y, d), YearCycle(y + 1, d))
  <1>1. Date(y, 11, 31) = Date(y, 11, 1) + 31 - 1 /\ Date(y, 11, 1) \in Int
    <2>1. 11 \in 0..12 /\ 31 \in Int /\ 1 \in Int
      OBVIOUS
    <2>. QED
      BY <2>1, DaysOfMonth
  <1>2. Date(y + 1, 0, 1) = Date(y, 11, 1) + MonthLength(y, 11)
    <2>1. 11 \in 0..11 /\ 11 + 1 = 12 /\ 1 \in Int
      OBVIOUS
    <2>. QED
      BY <2>1, NextMonthStarts, MonthTwelve
  <1>3. MonthLength(y, 11) = 31
    BY DEF MonthLength
  <1>4. Date(y + 1, 0, 1) = Date(y, 11, 31) + 1
    BY <1>1, <1>2, <1>3
  <1>. QED
    BY <1>4 DEF Tiles, YearCycle, Cycle

\* A step of the calendar moves a group to the next period at most, by frequency.
LEMMA MonthlyTiles ==
  ASSUME CalendarInv, DatesNext, frequency = "MONTHLY"
  PROVE  Tiles(computePeriodDates, computePeriodDates')
  <1>1. CalendarInv' /\ now' = now + 1 /\ frequency' = frequency /\ dueDay' = dueDay
    BY NextCalendar, Tomorrow
  <1>2. computePeriodDates = IF Date(year, month, dueDay) <= now
                             THEN MonthCycle(year, month + 1, dueDay)
                             ELSE MonthCycle(year, month, dueDay)
    BY PeriodOf DEF ByDueDay
  <1>3. computePeriodDates' = IF Date(year', month', dueDay) <= now + 1
                              THEN MonthCycle(year', month' + 1, dueDay)
                              ELSE MonthCycle(year', month', dueDay)
    <2>0. ByDueDay'
      BY <1>1, PeriodOf, PTL
    <2>1. computePeriodDates' = IF Date(year', month', dueDay') <= now'
                                THEN MonthCycle(year', month' + 1, dueDay')
                                ELSE MonthCycle(year', month', dueDay')
      BY <1>1, <2>0 DEF ByDueDay
    <2>. QED
      BY <1>1, <2>1
  <1>4. /\ year \in Nat \ {0} /\ month \in 0..11 /\ dueDay \in 1..28
        /\ year' \in Nat \ {0} /\ month' \in 0..11
    BY <1>1 DEF CalendarInv
  <1>5. CASE NextDay
    <2>1. year' = year /\ month' = month
      BY <1>5 DEF NextDay
    <2>2. Tiles(MonthCycle(year, month, dueDay), MonthCycle(year, month + 1, dueDay))
      BY <1>4, MonthsTile
    <2>3. Date(year, month, dueDay) \in Int /\ now \in Int
      BY <1>4, TodayIs DEF InMonth
    <2>. QED
      BY <1>2, <1>3, <2>1, <2>2, <2>3 DEF Tiles
  <1>6. CASE NextMonth
    <2>1. Date(year, month, dueDay) <= now
      BY <1>4, <1>6, TodayIs DEF NextMonth, InMonth
    <2>2. MonthCycle(year, month + 1, dueDay) = MonthCycle(year', month', dueDay)
      <3>1. CASE month < 11
        BY <1>6, <3>1 DEF NextMonth
      <3>2. CASE month = 11
        BY <1>4, <1>6, <3>2, MonthTwelve DEF NextMonth, MonthCycle
      <3>. QED
        BY <1>4, <3>1, <3>2
    <2>3. Tiles(MonthCycle(year', month', dueDay), MonthCycle(year', month' + 1, dueDay))
      BY <1>4, MonthsTile
    <2>. QED
      BY <1>2, <1>3, <2>1, <2>2, <2>3 DEF Tiles
  <1>. QED
    BY <1>5, <1>6 DEF DatesNext

LEMMA YearlyTiles ==
  ASSUME CalendarInv, DatesNext, frequency = "YEARLY"
  PROVE  Tiles(computePeriodDates, computePeriodDates')
  <1>1. CalendarInv' /\ now' = now + 1 /\ frequency' = frequency /\ dueDay' = dueDay
    BY NextCalendar, Tomorrow
  <1>2. computePeriodDates = IF Date(year, 0, dueDay) <= now
                             THEN YearCycle(year + 1, dueDay)
                             ELSE YearCycle(year, dueDay)
    BY PeriodOf DEF ByDueDay
  <1>3. computePeriodDates' = IF Date(year', 0, dueDay) <= now + 1
                              THEN YearCycle(year' + 1, dueDay)
                              ELSE YearCycle(year', dueDay)
    <2>0. ByDueDay'
      BY <1>1, PeriodOf, PTL
    <2>1. computePeriodDates' = IF Date(year', 0, dueDay') <= now'
                                THEN YearCycle(year' + 1, dueDay')
                                ELSE YearCycle(year', dueDay')
      BY <1>1, <2>0 DEF ByDueDay
    <2>. QED
      BY <1>1, <2>1
  <1>4. /\ year \in Nat \ {0} /\ month \in 0..11 /\ dueDay \in 1..28
        /\ year' \in Nat \ {0}
    BY <1>1 DEF CalendarInv
  <1>5. CASE year' = year
    <2>1. Tiles(YearCycle(year, dueDay), YearCycle(year + 1, dueDay))
      BY <1>4, YearsTile
    <2>2. Date(year, 0, dueDay) \in Int /\ now \in Int
      <3>1. 0 \in 0..12 /\ dueDay \in Int
        BY <1>4
      <3>. QED
        <4>1. Date(year, 0, 1) \in Int
          BY <1>4, <3>1, DaysOfMonth
        <4>2. Date(year, 0, dueDay) = Date(year, 0, 1) + dueDay - 1
          BY <1>4, <3>1, DaysOfMonth
        <4>. QED
          BY <3>1, <4>1, <4>2, TodayIs DEF InMonth
    <2>. QED
      BY <1>2, <1>3, <1>5, <2>1, <2>2 DEF Tiles
  <1>6. CASE year' # year
    <2>1. month = 11 /\ day = MonthLength(year, 11) /\ year' = year + 1
      BY <1>4, <1>6 DEF DatesNext, NextDay, NextMonth
    <2>2. Date(year, 0, dueDay) <= now
      <3>1. /\ Date(year, 0, dueDay) = NewYear(year) + DaysBefore(year, 0) + dueDay - 1
            /\ Date(year, 11, 1) = NewYear(year) + DaysBefore(year, 11) + 1 - 1
        <4>1. 0 \in 0..11 /\ 11 \in 0..11 /\ 1 \in Int /\ dueDay \in Int
          BY <1>4
        <4>. QED
          BY <1>4, <4>1, DateInYear
      <3>2. /\ DaysBefore(year, 0) = 0 /\ DaysBefore(year, 11) \in Nat
            /\ NewYear(year) \in Int
            /\ MonthLength(year, 11) \in 28..31
        BY <1>4, DaysBeforeEnds, MonthHas DEF NewYear
      <3>3. now = Date(year, 11, 1) + MonthLength(year, 11) - 1
        BY <2>1, TodayIs DEF InMonth
      <3>. QED
        BY <1>4, <3>1, <3>2, <3>3
    <2>3. Tiles(YearCycle(year', dueDay), YearCycle(year' + 1, dueDay))
      BY <1>4, YearsTile
    <2>. QED
      BY <1>2, <1>3, <2>1, <2>2, <2>3 DEF Tiles
  <1>. QED
    BY <1>5, <1>6

LEMMA WeeksTile ==
  ASSUME CalendarInv, DatesNext, frequency = "WEEKLY"
  PROVE  Tiles(computePeriodDates, computePeriodDates')
  <1>1. CalendarInv' /\ now' = now + 1 /\ frequency' = frequency /\ dueDay' = dueDay
    BY NextCalendar, Tomorrow
  <1>2. PICK n \in Int : n = now
    BY TodayIs DEF InMonth
  <1>. DEFINE MondayOf(t) == t + (IF (t + 1) % 7 = 0 THEN -6 ELSE 1 - ((t + 1) % 7))
              Week(t) == Cycle(MondayOf(t), MondayOf(t) + 6,
                                   MondayOf(t) + Lower(dueDay - 1, 6))
  <1>3. computePeriodDates = Week(n)
    BY <1>2, PeriodOf DEF Weekly, getDay, ByDueDay
  <1>4. computePeriodDates' = Week(n + 1)
    <2>0. ByDueDay'
      BY <1>1, PeriodOf, PTL
    <2>1. computePeriodDates' = Weekly'
      BY <1>1, <2>0 DEF ByDueDay
    <2>. QED
      BY <1>1, <1>2, <2>1 DEF Weekly, getDay
  <1>5. MondayOf(n + 1) \in {MondayOf(n), MondayOf(n) + 7} /\ MondayOf(n) \in Int
    OBVIOUS
  <1>. HIDE DEF MondayOf
  <1>6. CASE MondayOf(n + 1) = MondayOf(n)
    BY <1>3, <1>4, <1>6 DEF Tiles
  <1>7. CASE MondayOf(n + 1) = MondayOf(n) + 7
    <2>1. Week(n + 1).periodStart = Week(n).periodEnd + 1
      BY <1>5, <1>7 DEF Cycle
    <2>. QED
      BY <1>3, <1>4, <2>1 DEF Tiles
  <1>. QED
    BY <1>5, <1>6, <1>7

(***************************************************************************)
(* From day to day computePeriodDates gives a group the same period or the *)
(* one that begins the day after it ends, whatever its frequency and due   *)
(* day, over leap years and the ends of centuries.                         *)
(***************************************************************************)
THEOREM PeriodsFollowEachOther == DatesSpec => PeriodsTile
  <1>1. CalendarInv /\ [DatesNext]_dateVars =>
           [day' # day =>
               LET old == computePeriodDates
                   new == computePeriodDates'
               IN  new = old \/ new.periodStart = old.periodEnd + 1]_dateVars
    <2>. SUFFICES ASSUME CalendarInv, DatesNext
                  PROVE  Tiles(computePeriodDates, computePeriodDates')
      BY DEF Tiles
    <2>. QED
      BY MonthlyTiles, YearlyTiles, WeeksTile DEF CalendarInv
  <1>. QED
    BY <1>1, InitCalendar, NextCalendar, PTL DEF DatesSpec, PeriodsTile

\* How far the due date of this month, and of the next, is from today.
DueDates ==
    /\ nextDueDate = now + (IF dueDay > day THEN dueDay - day
                            ELSE MonthLength(year, month) + dueDay - day)
    /\ dueMonth = 12 * year + month + (IF dueDay > day THEN 0 ELSE 1)

LEMMA DueDatesAre == CalendarInv => DueDates
  <1>. SUFFICES ASSUME CalendarInv PROVE DueDates
    OBVIOUS
  <1>1. /\ year \in Nat \ {0} /\ month \in 0..11 /\ month + 1 \in 0..12 /\ dueDay \in 1..28
        /\ dueDay \in Int /\ day \in Nat
    BY MonthHas DEF CalendarInv
  <1>2. Date(year, month + 1, dueDay) = Date(year, month + 1, 1) + dueDay - 1
    BY <1>1, DaysOfMonth
  <1>3. Date(year, month + 1, 1) = Date(year, month, 1) + MonthLength(year, month)
    BY <1>1, NextMonthStarts
  <1>4. InMonth
    BY TodayIs
  <1>5. (Date(year, month, dueDay) <= now) <=> dueDay <= day
    BY <1>1, <1>4 DEF InMonth
  <1>6. CASE dueDay > day
    BY <1>1, <1>4, <1>5, <1>6 DEF DueDates, nextDueDate, dueMonth, InMonth
  <1>7. CASE dueDay <= day
    BY <1>1, <1>2, <1>3, <1>4, <1>5, <1>7 DEF DueDates, nextDueDate, dueMonth, InMonth
  <1>. QED
    BY <1>1, <1>6, <1>7

\* Until the next due date, the days left are counted down; then they are a month.
LEMMA CountsDown ==
  ASSUME CalendarInv, DatesNext
  PROVE  \/ dueMonth' = dueMonth /\ nextDueDate' = nextDueDate
         \/ /\ dueMonth' = dueMonth + 1
            /\ nextDueDate = now + 1
            /\ now' + 28 <= nextDueDate'
  <1>1. /\ year \in Nat \ {0} /\ month \in 0..11 /\ dueDay \in 1..28 /\ day \in Nat
        /\ dueDay' = dueDay /\ now' = now + 1 /\ now \in Int
    BY MonthHas, Tomorrow, TodayIs DEF CalendarInv, InMonth
  <1>2. CalendarInv'
    BY NextCalendar
  <1>3. DueDates /\ DueDates'
    BY <1>2, DueDatesAre, PTL
  <1>4. PICK old \in 28..31, new \in 28..31 :
             old = MonthLength(year, month) /\ new = MonthLength(year, month)'
    <2>1. MonthLength(year', month') \in 28..31
      BY <1>2, MonthHas DEF CalendarInv
    <2>. QED
      BY <1>1, <2>1, MonthHas
  <1>5. CASE NextDay
    <2>1. year' = year /\ month' = month /\ day' = day + 1 /\ new = old
      BY <1>4, <1>5 DEF NextDay
    <2>. QED
      BY <1>1, <1>3, <1>4, <2>1 DEF DueDates
  <1>6. CASE NextMonth
    <2>1. day = old /\ day' = 1 /\ 12 * year' + month' = 12 * year + month + 1
      BY <1>1, <1>4, <1>6 DEF NextMonth
    <2>2. PICK k \in Int : k = 12 * year + month /\ k + 1 = 12 * year' + month'
      BY <1>1, <2>1
    <2>3. /\ nextDueDate = now + old + dueDay - old /\ dueMonth = k + 1
          /\ nextDueDate' = now' + (IF dueDay > 1 THEN dueDay - 1 ELSE new + dueDay - 1)
          /\ dueMonth' = k + 1 + (IF dueDay > 1 THEN 0 ELSE 1)
      <3>1. /\ nextDueDate' = now' + (IF dueDay' > day' THEN dueDay' - day'
                                     ELSE MonthLength(year, month)' + dueDay' - day')
            /\ dueMonth' = 12 * year' + month' + (IF dueDay' > day' THEN 0 ELSE 1)
        BY <1>3 DEF DueDates
      <3>2. dueDay' = dueDay /\ day' = 1 /\ MonthLength(year, month)' = new
        BY <1>1, <1>4, <2>1
      <3>3. /\ nextDueDate' = now' + (IF dueDay > 1 THEN dueDay - 1 ELSE new + dueDay - 1)
            /\ dueMonth' = k + 1 + (IF dueDay > 1 THEN 0 ELSE 1)
        BY <2>2, <3>1, <3>2
      <3>4. nextDueDate = now + old + dueDay - old /\ dueMonth = k + 1
        BY <1>1, <1>3, <1>4, <2>1, <2>2 DEF DueDates
      <3>. QED
        BY <3>3, <3>4
    <2>. QED
      <3>1. CASE dueDay > 1
        BY <1>1, <2>2, <2>3, <3>1
      <3>2. CASE dueDay = 1
        BY <1>1, <2>2, <2>3, <3>2
      <3>. QED
        BY <1>1, <3>1, <3>2
  <1>. QED
    BY <1>5, <1>6 DEF DatesNext

(***************************************************************************)
(* The days on which the daily check asks for a period                     *)
(* (generateUpcomingCycles) form one stretch before each due date, which   *)
(* ends with it: no due date goes by unasked, and none is asked for again  *)
(* once it has come.                                                       *)
(***************************************************************************)
THEOREM DueDatesAreAskedForOnce == DatesSpec => WindowsAlternate
  <1>1. CalendarInv /\ [DatesNext]_dateVars =>
           [day' # day =>
               \/ dueMonth' = dueMonth /\ (Asked => Asked')
               \/ dueMonth' = dueMonth + 1 /\ Asked /\ ~Asked']_dateVars
    <2>. SUFFICES ASSUME CalendarInv, DatesNext
                  PROVE  \/ dueMonth' = dueMonth /\ (Asked => Asked')
                         \/ dueMonth' = dueMonth + 1 /\ Asked /\ ~Asked'
      OBVIOUS
    <2>1. /\ now \in Int /\ nextDueDate \in Int /\ nextDueDate' \in Int
          /\ now' = now + 1
      <3>1. InMonth /\ CalendarInv'
        BY TodayIs, NextCalendar
      <3>2. DueDates /\ DueDates' /\ InMonth'
        BY <3>1, DueDatesAre, TodayIs, PTL
      <3>3. now \in Int /\ now' \in Int /\ dueDay \in Int /\ dueDay' \in Int /\ day \in Int
            /\ day' \in Int /\ MonthLength(year, month) \in Int
            /\ MonthLength(year, month)' \in Int
        BY <3>1, <3>2 DEF InMonth, CalendarInv
      <3>. QED
        BY <3>2, <3>3, Tomorrow DEF DueDates
    <2>2. CASE dueMonth' = dueMonth /\ nextDueDate' = nextDueDate
      BY <2>1, <2>2 DEF Asked
    <2>3. CASE /\ dueMonth' = dueMonth + 1
               /\ nextDueDate = now + 1
               /\ now' + 28 <= nextDueDate'
      <3>1. Asked /\ ~Asked'
        <4>1. nextDueDate - now <= 7
          BY <2>1, <2>3
        <4>2. PICK n \in Int, t \in Int : n = nextDueDate' /\ t = now'
          BY <2>1
        <4>3. t + 28 <= n
          BY <2>3, <4>2
        <4>4. ~(n - t <= 7)
          BY <4>3
        <4>. QED
          BY <4>1, <4>2, <4>4 DEF Asked
      <3>. QED
        BY <2>3, <3>1
    <2>. QED
      BY <2>2, <2>3, CountsDown
  <1>. QED
    BY <1>1, InitCalendar, NextCalendar, PTL DEF DatesSpec, WindowsAlternate

------------------------------------------------------------------------------
(* Sums over finite sets. *)

\* A set of numbers has a least one.
LEMMA LeastNumber ==
  ASSUME NEW T, T \subseteq Nat, T # {}
  PROVE  \E n \in T : \A k \in T : n <= k
  <1>1. PICK n \in T : \A k \in T : <<k, n>> \notin OpToRel(<, Nat)
    BY WFMin, NatLessThanWellFounded
  <1>2. \A k \in T : ~ (k < n)
    BY <1>1 DEF OpToRel
  <1>. QED
    BY <1>2

\* Subsets of a finite set, and what is left of them without an element.
LEMMA FiniteSubsets ==
  ASSUME NEW S, IsFiniteSet(S), NEW T \in SUBSET S
  PROVE  /\ IsFiniteSet(T) /\ Cardinality(T) \in Nat
         /\ \A x \in T : /\ Cardinality(T \ {x}) \in Nat
                         /\ Cardinality(T \ {x}) = Cardinality(T) - 1
  <1>1. IsFiniteSet(T)
    BY FS_Subset
  <1>2. Cardinality(T) \in Nat
    BY <1>1, FS_CardinalityType
  <1>3. ASSUME NEW x \in T
        PROVE  /\ Cardinality(T \ {x}) \in Nat
               /\ Cardinality(T \ {x}) = Cardinality(T) - 1
    <2>1. IsFiniteSet(T \ {x}) /\ Cardinality(T \ {x}) = Cardinality(T) - 1
      BY <1>1, FS_RemoveElement
    <2>. QED
      BY <2>1, FS_CardinalityType
  <1>. QED
    BY <1>1, <1>2, <1>3

\* Induction over the subsets of a finite set: Good is the set of those a statement holds for.
LEMMA SubsetInduction ==
  ASSUME NEW S, IsFiniteSet(S), NEW Good,
         \A t \in SUBSET S : (\A x \in t : t \ {x} \in Good) => t \in Good
  PROVE  \A t \in SUBSET S : t \in Good
  <1>. SUFFICES ASSUME NEW bad \in SUBSET S, bad \notin Good
                PROVE  FALSE
    OBVIOUS
  <1>. DEFINE Bad == {t \in SUBSET S : t \notin Good}
              Sizes == {Cardinality(t) : t \in Bad}
  <1>1. Sizes \subseteq Nat /\ Sizes # {}
    BY FiniteSubsets
  <1>. HIDE DEF Sizes
  <1>2. PICK n \in Sizes : \A k \in Sizes : n <= k
    BY <1>1, LeastNumber
  <1>. USE DEF Sizes
  <1>3. PICK t \in Bad : n = Cardinality(t)
    OBVIOUS
  <1>4. ASSUME NEW x \in t PROVE t \ {x} \in Good
    <2>1. t \ {x} \in Bad => Cardinality(t) <= Cardinality(t \ {x})
      BY <1>2, <1>3
    <2>2. Cardinality(t) \in Nat /\ Cardinality(t \ {x}) = Cardinality(t) - 1
      BY <1>3, FiniteSubsets
    <2>3. t \ {x} \notin Bad
      BY <2>1, <2>2
    <2>. QED
      BY <2>3
  <1>. QED
    BY <1>3, <1>4

\* The element MapThenFoldSet takes next.
Chosen(s) == CHOOSE x \in s : TRUE

\* What the fold computes for every subset of S, as a recursive function.
Iterates(g, f, S) ==
    g = [s \in SUBSET S |-> IF s = {} THEN 0 ELSE f[Chosen(s)] + g[s \ {Chosen(s)}]]

LEMMA ChosenIn == \A s : s # {} => Chosen(s) \in s
  BY DEF Chosen

\* There is such a function: it is built up by the sizes of the subsets.
LEMMA IterateExists ==
  ASSUME NEW f, NEW S, IsFiniteSet(S)
  PROVE  \E g : Iterates(g, f, S)
  <1>. DEFINE Small(n) == {s \in SUBSET S : Cardinality(s) <= n}
              Value(g, s) == IF s = {} THEN 0 ELSE f[Chosen(s)] + g[s \ {Chosen(s)}]
              Good == {n \in Nat : \E g : g = [s \in Small(n) |-> Value(g, s)]}
  <1>1. 0 \in Good
    <2>1. \A s \in Small(0) : s = {}
      <3>. SUFFICES ASSUME NEW s \in SUBSET S, Cardinality(s) <= 0 PROVE s = {}
        OBVIOUS
      <3>1. IsFiniteSet(s) /\ Cardinality(s) = 0
        BY FiniteSubsets
      <3>. QED
        BY <3>1, FS_EmptySet
    <2>. DEFINE g == [s \in Small(0) |-> 0]
    <2>2. g = [s \in Small(0) |-> Value(g, s)]
      BY <2>1
    <2>. HIDE DEF g
    <2>. QED
      BY <2>2
  <1>2. ASSUME NEW n \in Good PROVE n + 1 \in Good
    <2>1. PICK g : g = [s \in Small(n) |-> Value(g, s)]
      OBVIOUS
    <2>. DEFINE h == [s \in Small(n + 1) |-> Value(g, s)]
    <2>2. ASSUME NEW s \in Small(n + 1), s # {}
          PROVE  s \ {Chosen(s)} \in Small(n) /\ s \ {Chosen(s)} \in Small(n + 1)
      BY <2>2, ChosenIn, FiniteSubsets
    <2>3. ASSUME NEW s \in Small(n) PROVE s \in Small(n + 1) /\ h[s] = g[s]
      <3>1. s \in Small(n + 1)
        BY FiniteSubsets
      <3>2. g[s] = Value(g, s)
        BY <2>1
      <3>. QED
        BY <3>1, <3>2
    <2>4. \A s \in Small(n + 1) : Value(g, s) = Value(h, s)
      <3>. SUFFICES ASSUME NEW s \in Small(n + 1), s # {} PROVE Value(g, s) = Value(h, s)
        OBVIOUS
      <3>. HIDE DEF h, Small
      <3>. QED
        BY <2>2, <2>3
    <2>5. h = [s \in Small(n + 1) |-> Value(h, s)]
      BY <2>4
    <2>. HIDE DEF h
    <2>6. \E k : k = [s \in Small(n + 1) |-> Value(k, s)]
      BY <2>5
    <2>7. n + 1 \in Nat
      OBVIOUS
    <2>. HIDE DEF Small, Value
    <2>. QED
      BY <2>6, <2>7
  <1>3. Cardinality(S) \in Good
    <2>. SUFFICES ASSUME Cardinality(S) \notin Good PROVE FALSE
      OBVIOUS
    <2>. DEFINE Bad == Nat \ Good
    <2>0. Bad # {} /\ Bad \subseteq Nat
      BY FS_CardinalityType
    <2>. HIDE DEF Bad
    <2>1. PICK n \in Bad : \A k \in Bad : n <= k
      BY <2>0, LeastNumber
    <2>. USE DEF Bad
    <2>. HIDE DEF Good
    <2>2. n # 0 /\ n \in Nat /\ n \notin Good
      BY <1>1
    <2>3. n - 1 \in Nat /\ n - 1 \in Good
      BY <2>1, <2>2
    <2>. QED
      BY <1>2, <2>2, <2>3
  <1>4. Small(Cardinality(S)) = SUBSET S
    BY FS_Subset
  <1>5. PICK g : g = [s \in Small(Cardinality(S)) |-> Value(g, s)]
    BY <1>3
  <1>. HIDE DEF Small
  <1>. QED
    BY <1>4, <1>5 DEF Iterates

LEMMA AddedIterates ==
  ASSUME NEW f, NEW S, IsFiniteSet(S)
  PROVE  \E g : Iterates(g, f, S) /\ Added(f, S) = g[S]
  <1>. DEFINE iter == CHOOSE g : Iterates(g, f, S)
  <1>1. Iterates(iter, f, S)
    BY IterateExists
  <1>2. Added(f, S) = iter[S]
    BY DEF Added, MapThenSumSet, MapThenFoldSet, Iterates, Chosen
  <1>. HIDE DEF iter
  <1>. QED
    BY <1>1, <1>2

\* A sum is that of the chosen element and of the others ...
LEMMA AddedChosen ==
  ASSUME NEW f, NEW S, IsFiniteSet(S)
  PROVE  /\ Added(f, {}) = 0
         /\ \A t \in SUBSET S : t # {} =>
                Added(f, t) = f[Chosen(t)] + Added(f, t \ {Chosen(t)})
  <1>1. PICK g : Iterates(g, f, S)
    BY IterateExists
  <1>2. \A t \in SUBSET S : g[t] = IF t = {} THEN 0 ELSE f[Chosen(t)] + g[t \ {Chosen(t)}]
    BY <1>1 DEF Iterates
  <1>3. ASSUME NEW T \in SUBSET S PROVE Added(f, T) = g[T]
    <2>0. IsFiniteSet(T)
      BY FS_Subset
    <2>1. PICK h : Iterates(h, f, T) /\ Added(f, T) = h[T]
      BY <2>0, AddedIterates
    <2>2. \A t \in SUBSET T : h[t] = IF t = {} THEN 0 ELSE f[Chosen(t)] + h[t \ {Chosen(t)}]
      BY <2>1 DEF Iterates
    <2>. DEFINE Good == {t \in SUBSET T : h[t] = g[t]}
    <2>3. \A t \in SUBSET T : (\A x \in t : t \ {x} \in Good) => t \in Good
      <3>. SUFFICES ASSUME NEW t \in SUBSET T, \A x \in t : t \ {x} \in Good
                    PROVE  h[t] = g[t]
        OBVIOUS
      <3>1. CASE t = {}
        BY <3>1, <1>2, <2>2
      <3>2. CASE t # {}
        <4>1. h[t \ {Chosen(t)}] = g[t \ {Chosen(t)}]
          BY <3>2, ChosenIn
        <4>2. t \in SUBSET S
          OBVIOUS
        <4>. QED
          BY <3>2, <4>1, <4>2, <1>2, <2>2
      <3>. QED
        BY <3>1, <3>2
    <2>. HIDE DEF Good
    <2>4. T \in Good
      BY <2>0, <2>3, SubsetInduction
    <2>. QED
      BY <2>1, <2>4 DEF Good
  <1>4. Added(f, {}) = 0
    BY <1>2, <1>3
  <1>5. ASSUME NEW t \in SUBSET S, t # {}
        PROVE  Added(f, t) = f[Chosen(t)] + Added(f, t \ {Chosen(t)})
    <2>1. t \ {Chosen(t)} \in SUBSET S
      OBVIOUS
    <2>. QED
      BY <1>2, <1>3, <1>5, <2>1
  <1>. QED
    BY <1>4, <1>5

LEMMA AddedType ==
  ASSUME NEW S, IsFiniteSet(S), NEW f, \A x \in S : f[x] \in Int
  PROVE  \A t \in SUBSET S : Added(f, t) \in Int
  <1>. DEFINE Good == {t \in SUBSET S : Added(f, t) \in Int}
  <1>1. \A t \in SUBSET S : (\A x \in t : t \ {x} \in Good) => t \in Good
    <2>. SUFFICES ASSUME NEW t \in SUBSET S, \A x \in t : t \ {x} \in Good
                  PROVE  Added(f, t) \in Int
      OBVIOUS
    <2>1. CASE t = {}
      BY <2>1, AddedChosen
    <2>2. CASE t # {}
      <3>1. Chosen(t) \in t
        BY <2>2, ChosenIn
      <3>2. Added(f, t) = f[Chosen(t)] + Added(f, t \ {Chosen(t)})
        BY <2>2, AddedChosen
      <3>. QED
        BY <3>1, <3>2
    <2>. QED
      BY <2>1, <2>2
  <1>. HIDE DEF Good
  <1>2. \A t \in SUBSET S : t \in Good
    BY <1>1, SubsetInduction
  <1>. QED
    BY <1>2 DEF Good

\* ... and of any element and the others: the order of adding does not matter.
LEMMA AddedStep ==
  ASSUME NEW S, IsFiniteSet(S), NEW f, \A x \in S : f[x] \in Int
  PROVE  \A t \in SUBSET S : \A x \in t : Added(f, t) = f[x] + Added(f, t \ {x})
  <1>. DEFINE Good == {t \in SUBSET S : \A x \in t : Added(f, t) = f[x] + Added(f, t \ {x})}
  <1>0. \A t \in SUBSET S : Added(f, t) \in Int
    BY AddedType
  <1>1. \A t \in SUBSET S : (\A x \in t : t \ {x} \in Good) => t \in Good
    <2>. SUFFICES ASSUME NEW t \in SUBSET S, \A x \in t : t \ {x} \in Good, NEW x \in t
                  PROVE  Added(f, t) = f[x] + Added(f, t \ {x})
      OBVIOUS
    <2>. DEFINE c == Chosen(t)
    <2>1. c \in t /\ Added(f, t) = f[c] + Added(f, t \ {c})
      BY ChosenIn, AddedChosen
    <2>. HIDE DEF c
    <2>2. CASE x = c
      BY <2>1, <2>2
    <2>3. CASE x # c
      <3>. DEFINE rest == t \ {c, x}
      <3>1. (t \ {c}) \ {x} = rest /\ (t \ {x}) \ {c} = rest /\ rest \in SUBSET S
        OBVIOUS
      <3>2. x \in t \ {c} /\ c \in t \ {x}
        BY <2>1, <2>3
      <3>3. Added(f, t \ {c}) = f[x] + Added(f, (t \ {c}) \ {x})
        BY <2>1, <3>2
      <3>4. Added(f, t \ {x}) = f[c] + Added(f, (t \ {x}) \ {c})
        BY <2>1, <3>2
      <3>5. f[x] \in Int /\ f[c] \in Int /\ Added(f, rest) \in Int
        BY <2>1, <1>0
      <3>. HIDE DEF rest
      <3>. QED
        BY <2>1, <3>1, <3>3, <3>4, <3>5
    <2>. QED
      BY <2>2, <2>3
  <1>. HIDE DEF Good
  <1>2. \A t \in SUBSET S : t \in Good
    BY <1>1, SubsetInduction
  <1>. QED
    BY <1>2 DEF Good

\* Sums of smaller parts are smaller.
LEMMA AddedMonotone ==
  ASSUME NEW S, IsFiniteSet(S), NEW f, NEW g, \A x \in S : f[x] \in Int /\ g[x] \in Int,
         NEW a \in Int, NEW b \in Int, \A x \in S : a * f[x] <= b * g[x]
  PROVE  a * Added(f, S) <= b * Added(g, S)
  <1>. DEFINE Good == {t \in SUBSET S : a * Added(f, t) <= b * Added(g, t)}
  <1>0. \A t \in SUBSET S : Added(f, t) \in Int /\ Added(g, t) \in Int
    BY AddedType
  <1>1. \A t \in SUBSET S : (\A x \in t : t \ {x} \in Good) => t \in Good
    <2>. SUFFICES ASSUME NEW t \in SUBSET S, \A x \in t : t \ {x} \in Good
                  PROVE  a * Added(f, t) <= b * Added(g, t)
      OBVIOUS
    <2>1. CASE t = {}
      <3>1. Added(f, t) = 0 /\ Added(g, t) = 0
        BY <2>1, AddedChosen
      <3>. QED
        BY <3>1
    <2>2. CASE t # {}
      <3>1. PICK x \in t : TRUE
        BY <2>2
      <3>2. PICK F \in Int, G \in Int : F = Added(f, t \ {x}) /\ G = Added(g, t \ {x})
        BY <1>0
      <3>3. Added(f, t) = f[x] + F /\ Added(g, t) = g[x] + G
        BY <3>2, AddedStep
      <3>4. a * F <= b * G
        BY <3>2
      <3>5. PICK u \in Int, v \in Int : u = f[x] /\ v = g[x] /\ a * u <= b * v
        OBVIOUS
      <3>6. a * (u + F) <= b * (v + G)
        <4>1. a * (u + F) = a * u + a * F /\ b * (v + G) = b * v + b * G
          OBVIOUS
        <4>. QED
          BY <3>4, <3>5, <4>1
      <3>. QED
        BY <3>3, <3>5, <3>6
    <2>. QED
      BY <2>1, <2>2
  <1>. HIDE DEF Good
  <1>2. \A t \in SUBSET S : t \in Good
    BY <1>1, SubsetInduction
  <1>3. S \in Good
    BY <1>2
  <1>. QED
    BY <1>3 DEF Good

\* Only the values on the set count.
LEMMA AddedSame ==
  ASSUME NEW S, IsFiniteSet(S), NEW f, NEW g, \A x \in S : f[x] \in Int /\ f[x] = g[x]
  PROVE  Added(f, S) = Added(g, S)
  <1>0. /\ 1 \in Int
        /\ \A x \in S : /\ f[x] \in Int /\ g[x] \in Int
                        /\ 1 * f[x] <= 1 * g[x] /\ 1 * g[x] <= 1 * f[x]
    OBVIOUS
  <1>1. 1 * Added(f, S) <= 1 * Added(g, S)
    BY <1>0, AddedMonotone
  <1>2. 1 * Added(g, S) <= 1 * Added(f, S)
    BY <1>0, AddedMonotone
  <1>3. Added(f, S) \in Int /\ Added(g, S) \in Int
    BY AddedType
  <1>. QED
    BY <1>1, <1>2, <1>3

\* A sum of equal parts is a product.
LEMMA AddedConstant ==
  ASSUME NEW S, IsFiniteSet(S), NEW k \in Int, NEW f, \A x \in S : f[x] = k
  PROVE  Added(f, S) = k * Cardinality(S)
  <1>. DEFINE Good == {t \in SUBSET S : Added(f, t) = k * Cardinality(t)}
  <1>1. \A t \in SUBSET S : (\A x \in t : t \ {x} \in Good) => t \in Good
    <2>. SUFFICES ASSUME NEW t \in SUBSET S, \A x \in t : t \ {x} \in Good
                  PROVE  Added(f, t) = k * Cardinality(t)
      OBVIOUS
    <2>1. CASE t = {}
      <3>1. Added(f, t) = 0 /\ Cardinality(t) = 0
        BY <2>1, AddedChosen, FS_EmptySet
      <3>. QED
        BY <3>1
    <2>2. CASE t # {}
      <3>1. PICK x \in t : TRUE
        BY <2>2
      <3>2. PICK n \in Nat : n = Cardinality(t) /\ Cardinality(t \ {x}) = n - 1
        BY FiniteSubsets
      <3>3. Added(f, t) = k + Added(f, t \ {x})
        BY AddedStep
      <3>4. Added(f, t \ {x}) = k * (n - 1)
        BY <3>2
      <3>5. k + k * (n - 1) = k * n
        OBVIOUS
      <3>. QED
        BY <3>2, <3>3, <3>4, <3>5
    <2>. QED
      BY <2>1, <2>2
  <1>. HIDE DEF Good
  <1>2. \A t \in SUBSET S : t \in Good
    BY <1>1, SubsetInduction
  <1>3. S \in Good
    BY <1>2
  <1>. QED
    BY <1>3 DEF Good

------------------------------------------------------------------------------
(* Splits. *)

\* The constants, apart from the percentages.
LEMMA Constants ==
  /\ N \in Nat \ {0}
  /\ Methods \subseteq {"EQUAL", "CUSTOM_PERCENTAGE", "CUSTOM_NOMINAL", "PRO_RATA"}
  /\ Totals \subseteq Nat \ {0} /\ Entered \subseteq Nat
  /\ Null \notin Int
  BY SharesAssumption, SMTT(20)

\* A group: some members.
Group(S) == S \subseteq Members /\ S # {}

LEMMA GroupFacts ==
  ASSUME NEW S, Group(S)
  PROVE  /\ IsFiniteSet(S) /\ Cardinality(S) \in Nat \ {0}
         /\ First(S) \in S /\ \A m \in S : First(S) <= m
         /\ S \subseteq Nat
  <1>1. S \subseteq Nat
    BY DEF Group, Members
  <1>2. IsFiniteSet(S)
    <2>0. 1 \in Int /\ N \in Int
      BY Constants
    <2>1. IsFiniteSet(1..N)
      BY <2>0, FS_Interval
    <2>. QED
      BY <2>1, FS_Subset DEF Group, Members
  <1>3. Cardinality(S) \in Nat \ {0}
    BY <1>2, FS_CardinalityType, FS_EmptySet DEF Group
  <1>4. \E m \in S : \A k \in S : m <= k
    BY <1>1, LeastNumber DEF Group
  <1>5. First(S) \in S /\ \A m \in S : First(S) <= m
    BY <1>4 DEF First, Min
  <1>. QED
    BY <1>1, <1>2, <1>3, <1>5

\* Division rounds down, by less than the divisor.
LEMMA DivBounds ==
  ASSUME NEW a \in Nat, NEW b \in Nat \ {0}
  PROVE  /\ a \div b \in Nat
         /\ b * (a \div b) <= a
         /\ a < b * (a \div b) + b
  OBVIOUS

\* Whoever takes the remainder, the split adds up to the cost.
LEMMA WithRemainderAdds ==
  ASSUME NEW S, IsFiniteSet(S), NEW raw \in [S -> Int], NEW cost \in Int, NEW m \in S,
         NEW w, w = WithRemainder(raw, cost, S, m)
  PROVE  /\ w \in [S -> Int]
         /\ Added(w, S) = cost
         /\ \A x \in S \ {m} : w[x] = raw[x]
         /\ w[m] = cost - Added(raw, S \ {m})
  <1>1. PICK all \in Int, others \in Int : all = Added(raw, S) /\ others = Added(raw, S \ {m})
    BY AddedType
  <1>2. all = raw[m] + others
    BY <1>1, AddedStep
  <1>3. w = [raw EXCEPT ![m] = @ + cost - all]
    BY <1>1 DEF WithRemainder
  <1>4. /\ w \in [S -> Int] /\ w[m] = raw[m] + cost - all
        /\ \A x \in S \ {m} : w[x] = raw[x]
    BY <1>3
  <1>5. Added(w, S \ {m}) = others
    <2>1. IsFiniteSet(S \ {m})
      BY FS_Subset
    <2>2. Added(raw, S \ {m}) = Added(w, S \ {m})
      BY <1>4, <2>1, AddedSame
    <2>. QED
      BY <1>1, <2>2
  <1>6. Added(w, S) = w[m] + others
    BY <1>4, <1>5, AddedStep
  <1>7. w[m] = cost - others /\ Added(w, S) = cost
    BY <1>2, <1>4, <1>6
  <1>. QED
    BY <1>1, <1>4, <1>7

\* calculateEqual adds up, and nobody pays less than nothing: the first takes what is left over.
LEMMA EqualSplit ==
  ASSUME NEW S, Group(S), NEW cost \in Nat
  PROVE  /\ calculateEqual(cost, S) \in [S -> Nat]
         /\ Added(calculateEqual(cost, S), S) = cost
         /\ \A m \in S \ {First(S)} : calculateEqual(cost, S)[m] = cost \div Cardinality(S)
  <1>1. PICK n \in Nat \ {0} : n = Cardinality(S)
    BY GroupFacts
  <1>2. PICK q \in Nat : q = cost \div n /\ n * q <= cost
    BY DivBounds
  <1>3. IsFiniteSet(S) /\ First(S) \in S
    BY GroupFacts
  <1>. DEFINE raw == [m \in S |-> q]
              rest == S \ {First(S)}
  <1>4. calculateEqual(cost, S) = WithRemainder(raw, cost, S, First(S))
    BY <1>1, <1>2 DEF calculateEqual
  <1>5. raw \in [S -> Int] /\ \A m \in S : raw[m] = q
    OBVIOUS
  <1>6. Added(raw, rest) = q * (n - 1)
    <2>1. IsFiniteSet(rest) /\ Cardinality(rest) = n - 1
      BY <1>1, <1>3, FS_RemoveElement
    <2>2. \A m \in rest : raw[m] = q
      OBVIOUS
    <2>. QED
      BY <2>1, <2>2, AddedConstant
  <1>7. q * (n - 1) <= cost
    <2>1. q * (n - 1) = n * q - q
      OBVIOUS
    <2>. QED
      BY <1>2, <2>1
  <1>. HIDE DEF raw
  <1>0. cost \in Int
    OBVIOUS
  <1>10. PICK w : w = WithRemainder(raw, cost, S, First(S))
    OBVIOUS
  <1>8. /\ w \in [S -> Int] /\ Added(w, S) = cost
        /\ \A m \in rest : w[m] = raw[m]
        /\ w[First(S)] = cost - Added(raw, rest)
    BY <1>0, <1>10, <1>3, <1>5, WithRemainderAdds
  <1>9. w \in [S -> Nat]
    <2>1. \A m \in rest : w[m] = q
      BY <1>5, <1>8
    <2>2. w[First(S)] \in Nat
      BY <1>6, <1>7, <1>8
    <2>. QED
      BY <1>8, <2>1, <2>2
  <1>. QED
    BY <1>1, <1>2, <1>4, <1>5, <1>8, <1>9, <1>10

\* A quotient is the only number within those bounds ...
LEMMA DivUnique ==
  ASSUME NEW a \in Nat, NEW b \in Nat \ {0}, NEW q \in Nat, b * q <= a, a < b * q + b
  PROVE  a \div b = q
  <1>1. PICK p \in Nat : p = a \div b /\ b * p <= a /\ a < b * p + b
    BY DivBounds
  <1>2. CASE p < q
    <2>1. b * (p + 1) <= b * q
      BY <1>2
    <2>2. b * (p + 1) = b * p + b
      OBVIOUS
    <2>. QED
      BY <1>1, <2>1, <2>2
  <1>3. CASE q < p
    <2>1. b * (q + 1) <= b * p
      BY <1>3
    <2>2. b * (q + 1) = b * q + b
      OBVIOUS
    <2>. QED
      BY <1>1, <2>1, <2>2
  <1>. QED
    BY <1>1, <1>2, <1>3

\* ... and is kept when both sides are scaled.
LEMMA DivScaled ==
  ASSUME NEW a \in Nat, NEW n \in Nat \ {0}, NEW d \in Nat \ {0}
  PROVE  (a * d) \div (d * n) = a \div n
  <1>1. PICK q \in Nat : q = a \div n /\ n * q <= a /\ a < n * q + n
    BY DivBounds
  <1>2. a * d \in Nat /\ d * n \in Nat \ {0}
    OBVIOUS
  <1>3. (d * n) * q <= a * d
    <2>1. d * (n * q) <= d * a
      BY <1>1
    <2>. QED
      BY <2>1
  <1>4. a * d < (d * n) * q + d * n
    <2>1. d * a < d * (n * q + n)
      BY <1>1
    <2>. QED
      BY <2>1
  <1>. QED
    BY <1>1, <1>2, <1>3, <1>4, DivUnique

\* Everybody has been active every day of the month: calculateProRata is calculateEqual.
LEMMA ProRataIsEqualSplit ==
  ASSUME NEW S, Group(S), NEW cost \in Nat, NEW days \in 28..31
  PROVE  calculateProRata(cost, S, days) = calculateEqual(cost, S)
  <1>. DEFINE activeDays == [m \in S |-> days]
  <1>1. PICK n \in Nat \ {0} : n = Cardinality(S)
    BY GroupFacts
  <1>2. Added(activeDays, S) = days * n
    <2>1. \A m \in S : activeDays[m] = days
      OBVIOUS
    <2>. HIDE DEF activeDays
    <2>. QED
      BY <1>1, <2>1, GroupFacts, AddedConstant
  <1>3. (cost * days) \div (days * n) = cost \div n
    BY DivScaled
  <1>4. Largest(activeDays, S) = First(S)
    <2>1. {m \in S : \A other \in S : activeDays[other] <= activeDays[m]} = S
      OBVIOUS
    <2>. QED
      BY <2>1 DEF Largest
  <1>5. [m \in S |-> (cost * activeDays[m]) \div Added(activeDays, S)]
           = [m \in S |-> cost \div Cardinality(S)]
    <2>1. \A m \in S : activeDays[m] = days
      OBVIOUS
    <2>. HIDE DEF activeDays
    <2>. QED
      BY <1>1, <1>2, <1>3, <2>1
  <1>. HIDE DEF activeDays
  <1>. QED
    BY <1>4, <1>5 DEF calculateProRata, calculateEqual, activeDays

\* Largest is a member with a part at least that of the others.
LEMMA LargestIn ==
  ASSUME NEW S, Group(S), NEW whole \in Nat, NEW p \in [S -> Nat],
         \A m \in S : p[m] <= whole
  PROVE  Largest(p, S) \in S /\ \A m \in S : p[m] <= p[Largest(p, S)]
  <1>. DEFINE Top == {m \in S : \A other \in S : p[other] <= p[m]}
  <1>. DEFINE Gaps == {whole - p[m] : m \in S}
  <1>7. Gaps \subseteq Nat /\ Gaps # {}
    BY DEF Group
  <1>. HIDE DEF Gaps
  <1>2. PICK g \in Gaps : \A k \in Gaps : g <= k
    BY <1>7, LeastNumber
  <1>3. PICK m \in S : g = whole - p[m]
    BY DEF Gaps
  <1>4. m \in Top
    BY <1>2, <1>3 DEF Gaps
  <1>5. Group(Top)
    BY <1>4 DEF Group
  <1>6. First(Top) \in Top
    BY <1>5, GroupFacts
  <1>. QED
    BY <1>6 DEF Largest

\* Of the cost, at most the part that p[m] of the whole amounts to.
InProportion(raw, p, whole, cost, S) == \A m \in S : whole * raw[m] <= cost * p[m]

\* Parts rounded down, of percentages that miss a hundred by a hundredth at most: the largest
\* takes the rest, which is not negative although the percentages may exceed a hundred.
LEMMA PercentSplit ==
  ASSUME NEW S, Group(S), NEW whole \in Nat \ {0, 1}, NEW p \in [S -> Nat],
         \A m \in S : p[m] <= whole,
         whole - 1 <= Added(p, S), Added(p, S) <= whole + 1,
         NEW cost \in Nat, NEW raw \in [S -> Nat],
         InProportion(raw, p, whole, cost, S)
  PROVE  /\ WithRemainder(raw, cost, S, Largest(p, S)) \in [S -> Nat]
         /\ Added(WithRemainder(raw, cost, S, Largest(p, S)), S) = cost
  <1>1. PICK L \in S : L = Largest(p, S) /\ \A m \in S : p[m] <= p[L]
    BY LargestIn
  <1>2. IsFiniteSet(S) /\ IsFiniteSet(S \ {L})
    BY GroupFacts, FS_Subset
  <1>3. p[L] >= 1
    <2>. SUFFICES ASSUME p[L] = 0 PROVE FALSE
      OBVIOUS
    <2>1. \A m \in S : p[m] = 0
      BY <1>1
    <2>2. Added(p, S) = 0 * Cardinality(S)
      BY <1>2, <2>1, AddedConstant
    <2>3. Cardinality(S) \in Nat
      BY GroupFacts
    <2>. QED
      BY <2>2, <2>3
  <1>4. PICK A \in Int, P \in Int : A = Added(raw, S \ {L}) /\ P = Added(p, S \ {L})
    <2>1. \A m \in S : raw[m] \in Int /\ p[m] \in Int
      OBVIOUS
    <2>. QED
      BY <1>2, <2>1, AddedType
  <1>5. P <= whole
    <2>1. \A m \in S : p[m] \in Int
      OBVIOUS
    <2>2. Added(p, S) = p[L] + P
      BY <1>2, <1>4, <2>1, AddedStep
    <2>. QED
      BY <1>3, <2>2
  <1>6. whole * A <= cost * P
    <2>1. \A m \in S \ {L} : raw[m] \in Int /\ p[m] \in Int /\ whole * raw[m] <= cost * p[m]
      BY DEF InProportion
    <2>2. whole \in Int /\ cost \in Int
      OBVIOUS
    <2>3. whole * Added(raw, S \ {L}) <= cost * Added(p, S \ {L})
      BY <1>2, <2>1, <2>2, AddedMonotone
    <2>. QED
      BY <1>4, <2>3
  <1>7. A <= cost
    <2>1. cost * P <= cost * whole
      BY <1>5
    <2>. QED
      BY <1>6, <2>1
  <1>0. cost \in Int /\ raw \in [S -> Int]
    OBVIOUS
  <1>10. PICK w : w = WithRemainder(raw, cost, S, L)
    OBVIOUS
  <1>8. /\ w \in [S -> Int] /\ Added(w, S) = cost
        /\ \A m \in S \ {L} : w[m] = raw[m]
        /\ w[L] = cost - Added(raw, S \ {L})
    BY <1>0, <1>10, <1>2, WithRemainderAdds
  <1>9. w \in [S -> Nat]
    BY <1>4, <1>7, <1>8
  <1>. QED
    BY <1>1, <1>8, <1>9, <1>10

\* The types of the columns; the host is active.
ColumnsOK ==
    /\ method \in {"EQUAL", "CUSTOM_PERCENTAGE", "CUSTOM_NOMINAL", "PRO_RATA"}
    /\ total \in Nat \ {0}
    /\ status \in [Members -> {"NONE", "ACTIVE", "REMOVED"}] /\ status[Host] = "ACTIVE"
    /\ amount \in [Members -> Nat]
    /\ pct \in [Members -> Percentages \cup {Null}]
    /\ period \in {"NONE", "UPCOMING", "ACTIVE"}
    /\ due \in [Members -> Nat \cup {Null}]
    /\ edited \in BOOLEAN

LEMMA HostInGroup == Host \in Members
  BY Constants DEF Host, Members

LEMMA ActiveIsGroup == ColumnsOK => Group(Active) /\ Host \in Active
  BY HostInGroup DEF ColumnsOK, Group, Active

\* The host is the first of every group it belongs to.
LEMMA HostIsFirst ==
  ASSUME NEW S, Group(S), Host \in S
  PROVE  First(S) = Host
  <1>1. First(S) \in S /\ First(S) <= Host
    BY GroupFacts
  <1>2. First(S) \in 1..N /\ Host = 1
    BY <1>1 DEF Group, Members, Host
  <1>. QED
    BY <1>1, <1>2

\* A percentage of the cost, rounded down, or a cent below where the product may come out short.
LEMMA RoundedPart ==
  ASSUME NEW c \in Nat \ {0}, NEW p \in Nat, NEW e \in {0, 1},
         e = 1 => (c * p) % 10000 = 0 /\ p > 0
  PROVE  /\ ((c * p) \div 10000) - e \in Nat
         /\ 10000 * (((c * p) \div 10000) - e) <= c * p
  <1>1. PICK x \in Nat : x = c * p /\ (p > 0 => x > 0)
    <2>1. c * p \in Nat /\ (p > 0 => c * p > 0)
      BY SMT
    <2>. QED
      BY <2>1
  <1>2. /\ (x \div 10000) - e \in Nat
        /\ 10000 * ((x \div 10000) - e) <= x
    <2>1. CASE e = 0
      BY <2>1, SMT
    <2>2. CASE e = 1
      BY <1>1, <2>2, SMT
    <2>. QED
      BY <2>1, <2>2, SMT
  <1>. QED
    BY <1>1, <1>2

LEMMA PercentageType ==
  ColumnsOK => \A m \in Members : Percentage(m) \in Nat /\ Percentage(m) <= 10000
  <1>. SUFFICES ASSUME ColumnsOK, NEW m \in Members
                PROVE  Percentage(m) \in Nat /\ Percentage(m) <= 10000
    OBVIOUS
  <1>1. pct[m] \in Percentages \cup {Null}
    BY DEF ColumnsOK
  <1>2. Percentages \subseteq 0..10000
    BY SharesAssumption, SMT
  <1>3. ASSUME NEW p \in Percentages PROVE p \in Nat /\ p <= 10000
    <2>1. p \in 0..10000
      BY <1>2, SMT
    <2>. QED
      BY <2>1, SMTT(20)
  <1>4. CASE pct[m] = Null
    BY <1>4, SMT DEF Percentage
  <1>5. CASE pct[m] # Null
    BY <1>1, <1>3, <1>5, SMT DEF Percentage
  <1>. QED
    BY <1>4, <1>5

\* calculateCustomPercent adds up, however its products are rounded.
LEMMA CustomPercentSplit ==
  ASSUME ColumnsOK, NEW S, Group(S), NEW below, NEW lenient \in BOOLEAN,
         PercentAccepted(S, lenient)
  PROVE  /\ calculateCustomPercent(total, S, below) \in [S -> Nat]
         /\ Added(calculateCustomPercent(total, S, below), S) = total
  <1>1. PICK p : p = [m \in S |-> Percentage(m)]
    OBVIOUS
  <1>2. PICK whole \in Nat \ {0, 1} : whole = 10000
    BY SMT
  <1>3. p \in [S -> Nat] /\ \A m \in S : p[m] <= whole
    BY <1>1, <1>2, PercentageType, SMT DEF Group
  <1>4. whole - 1 <= Added(p, S) /\ Added(p, S) <= whole + 1
    BY <1>1, <1>2, SMT DEF PercentAccepted
  <1>5. PICK c \in Nat \ {0} : c = total
    BY DEF ColumnsOK
  <1>. DEFINE e(m) == IF m \in below /\ (c * p[m]) % 10000 = 0 /\ p[m] > 0 THEN 1 ELSE 0
              raw == [m \in S |-> ((c * p[m]) \div 10000) - e(m)]
  <1>6. calculateCustomPercent(total, S, below) = WithRemainder(raw, c, S, Largest(p, S))
    BY <1>1, <1>5, SMT DEF calculateCustomPercent
  <1>7. raw \in [S -> Nat] /\ InProportion(raw, p, whole, c, S)
    <2>1. ASSUME NEW m \in S
          PROVE  raw[m] \in Nat /\ whole * raw[m] <= c * p[m]
      <3>1. PICK q \in Nat, x \in {0, 1} :
               /\ q = p[m] /\ x = e(m)
               /\ x = 1 => (c * q) % 10000 = 0 /\ q > 0
        <4>1. e(m) \in {0, 1} /\ (e(m) = 1 => (c * p[m]) % 10000 = 0 /\ p[m] > 0)
          BY SMT
        <4>2. p[m] \in Nat
          BY <1>3
        <4>. HIDE DEF e
        <4>. QED
          BY <4>1, <4>2, SMT
      <3>2. raw[m] = ((c * q) \div 10000) - x
        BY <3>1, SMT
      <3>3. /\ ((c * q) \div 10000) - x \in Nat
            /\ 10000 * (((c * q) \div 10000) - x) <= c * q
        BY <3>1, RoundedPart, SMT
      <3>. HIDE DEF raw, e
      <3>. QED
        BY <1>2, <3>1, <3>2, <3>3, SMT
    <2>2. raw = [m \in S |-> raw[m]]
      BY SMT
    <2>. HIDE DEF raw
    <2>. QED
      BY <2>1, <2>2, SMT DEF InProportion
  <1>. HIDE DEF raw
  <1>8. Added(WithRemainder(raw, c, S, Largest(p, S)), S) = c
        /\ WithRemainder(raw, c, S, Largest(p, S)) \in [S -> Nat]
    BY <1>3, <1>4, <1>7, PercentSplit
  <1>. QED
    BY <1>5, <1>6, <1>8

\* The splits of the current columns.
LEMMA SplitFacts ==
  ASSUME ColumnsOK, NEW shares \in Split
  PROVE  /\ shares \in [Active -> Nat]
         /\ method # "CUSTOM_NOMINAL" => AddsUp(shares)
  <1>0. Group(Active) /\ total \in Nat
    BY ActiveIsGroup DEF ColumnsOK
  <1>1. CASE method = "EQUAL"
    <2>1. shares = calculateEqual(total, Active)
      BY <1>1 DEF Split
    <2>. QED
      BY <1>0, <2>1, EqualSplit DEF AddsUp
  <1>2. CASE method = "PRO_RATA"
    <2>1. PICK d \in 28..31 : shares = calculateProRata(total, Active, d)
      BY <1>2 DEF Split
    <2>2. shares = calculateEqual(total, Active)
      BY <1>0, <2>1, ProRataIsEqualSplit
    <2>. QED
      BY <1>0, <2>2, EqualSplit DEF AddsUp
  <1>3. CASE method = "CUSTOM_PERCENTAGE"
    <2>1. PICK below \in SUBSET Active, lenient \in BOOLEAN :
              /\ PercentAccepted(Active, lenient)
              /\ shares = calculateCustomPercent(total, Active, below)
      BY <1>3 DEF Split
    <2>. QED
      BY <1>0, <2>1, CustomPercentSplit DEF AddsUp
  <1>4. CASE method = "CUSTOM_NOMINAL"
    <2>1. shares = [m \in Active |-> amount[m]]
      BY <1>4 DEF Split
    <2>. QED
      BY <1>4, <2>1 DEF ColumnsOK, Active
  <1>. QED
    BY <1>1, <1>2, <1>3, <1>4 DEF ColumnsOK

\* The equal and the pro-rata split are one and the same.
LEMMA EqualShares ==
  ColumnsOK /\ method \in {"EQUAL", "PRO_RATA"} =>
      calculateShares = {calculateEqual(total, Active)}
  <1>. SUFFICES ASSUME ColumnsOK, method \in {"EQUAL", "PRO_RATA"}
                PROVE  calculateShares = {calculateEqual(total, Active)}
    OBVIOUS
  <1>1. Group(Active) /\ total \in Nat
    BY ActiveIsGroup DEF ColumnsOK
  <1>2. AddsUp(calculateEqual(total, Active))
    BY <1>1, EqualSplit DEF AddsUp
  <1>3. Split = {calculateEqual(total, Active)}
    <2>1. CASE method = "EQUAL"
      BY <2>1 DEF Split
    <2>2. CASE method = "PRO_RATA"
      <3>1. Split = {calculateProRata(total, Active, d) : d \in 28..31}
        BY <2>2 DEF Split
      <3>2. \A d \in 28..31 : calculateProRata(total, Active, d) = calculateEqual(total, Active)
        BY <1>1, ProRataIsEqualSplit
      <3>3. 28 \in 28..31
        OBVIOUS
      <3>. QED
        BY <3>1, <3>2, <3>3
    <2>. QED
      BY <2>1, <2>2
  <1>. QED
    BY <1>2, <1>3 DEF calculateShares

------------------------------------------------------------------------------
(* The inductive invariant. *)

\* The columns the members see are the shares of the equal split.
Shown ==
    method = "EQUAL" /\ ~edited =>
        \A m \in Active : amount[m] = calculateEqual(total, Active)[m]

\* An upcoming period has a record of every active member, also after an edit.
Billed == method = "EQUAL" /\ period = "UPCOMING" => \A m \in Active : due[m] # Null

\* UpcomingAddsUp is a property of GroupShares.
SharesInv == ColumnsOK /\ Shown /\ Billed /\ UpcomingAddsUp

LEMMA AddedOverActive ==
  ASSUME NEW S, Group(S), NEW f, NEW cost \in Nat, f = calculateEqual(cost, S),
         NEW d, \A m \in S : d[m] = f[m]
  PROVE  Added(d, S) = cost
  <1>1. f \in [S -> Nat] /\ Added(f, S) = cost
    BY EqualSplit
  <1>2. \A m \in S : f[m] \in Int /\ f[m] = d[m]
    BY <1>1
  <1>3. Added(f, S) = Added(d, S)
    BY <1>2, GroupFacts, AddedSame
  <1>. QED
    BY <1>1, <1>3

LEMMA InitShares == Init => SharesInv
  <1>. SUFFICES ASSUME Init PROVE SharesInv
    OBVIOUS
  <1>1. Host \in Members /\ Members \subseteq Nat
    BY HostInGroup DEF Members
  <1>2. ColumnsOK
    <2>1. method \in {"EQUAL", "CUSTOM_PERCENTAGE", "CUSTOM_NOMINAL", "PRO_RATA"}
          /\ total \in Nat \ {0}
      BY Constants DEF Init
    <2>2. status \in [Members -> {"NONE", "ACTIVE", "REMOVED"}] /\ status[Host] = "ACTIVE"
      BY <1>1 DEF Init
    <2>3. amount \in [Members -> Nat]
      BY <2>1 DEF Init
    <2>4. /\ pct \in [Members -> Percentages \cup {Null}]
          /\ due \in [Members -> Nat \cup {Null}]
          /\ period = "NONE" /\ edited = FALSE
      BY DEF Init
    <2>. QED
      BY <2>1, <2>2, <2>3, <2>4 DEF ColumnsOK
  <1>3. Active = {Host}
    BY <1>1 DEF Init, Active
  <1>4. Group({Host}) /\ First({Host}) = Host
    <2>1. Group({Host})
      BY <1>1 DEF Group
    <2>. QED
      BY <2>1, HostIsFirst
  <1>5. calculateEqual(total, {Host})[Host] = total
    <2>1. total \in Nat
      BY <1>2 DEF ColumnsOK
    <2>2. PICK f \in [{Host} -> Nat] :
             f = calculateEqual(total, {Host}) /\ Added(f, {Host}) = total
      BY <1>4, <2>1, EqualSplit
    <2>3. \A m \in {Host} : f[m] \in Int
      OBVIOUS
    <2>4. Added(f, {Host}) = f[Host] + Added(f, {Host} \ {Host})
      BY <1>4, <2>3, GroupFacts, AddedStep
    <2>5. {Host} \ {Host} = {}
      OBVIOUS
    <2>6. Added(f, {}) = 0
      BY <1>4, GroupFacts, AddedChosen
    <2>. QED
      BY <2>2, <2>4, <2>5, <2>6
  <1>6. Shown
    BY <1>1, <1>3, <1>5 DEF Init, Shown
  <1>7. Billed /\ UpcomingAddsUp
    BY DEF Init, Billed, UpcomingAddsUp
  <1>. QED
    BY <1>2, <1>6, <1>7 DEF SharesInv

\* What recalculateEqualShares leaves of the columns c and the records d.
LEMMA RecalculatedType ==
  ASSUME ColumnsOK, NEW S, Group(S), NEW e, e = calculateEqual(total, S)
  PROVE  /\ e \in [S -> Nat]
         /\ Recalculated(amount, S) \in [Members -> Nat]
         /\ Synced(due, S) \in [Members -> Nat \cup {Null}]
         /\ \A m \in S : Recalculated(amount, S)[m] = e[m]
         /\ period = "UPCOMING" =>
              /\ \A m \in S : due[m] # Null /\ m \notin moved => Synced(due, S)[m] = e[m]
              /\ \A m \in S : due[m] # Null => Synced(due, S)[m] # Null
  <1>0. \A x \in Nat : x # Null
    BY Constants
  <1>1. e \in [S -> Nat] /\ S \subseteq Members
    BY EqualSplit DEF ColumnsOK, Group
  <1>2. Recalculated(amount, S) = [m \in Members |-> IF m \in S THEN e[m] ELSE amount[m]]
    BY DEF Recalculated
  <1>3. Synced(due, S) = [m \in Members |-> IF period = "UPCOMING" /\ m \in S /\ due[m] # Null
                                               /\ m \notin moved
                                            THEN e[m] ELSE due[m]]
    BY DEF Synced
  <1>. QED
    BY <1>0, <1>1, <1>2, <1>3 DEF ColumnsOK

\* addMember's own share is the rounded quotient, or one cent less if the cost is not in rupiah.
LEMMA NewShareType ==
  ASSUME ColumnsOK, NEW share \in NewShares, NEW n \in Nat \ {0}, n = CurrentCount
  PROVE  share \in Nat /\ share \in {total \div n, (total \div n) - 1}
         /\ (total % 100 = 0 => share = total \div n)
  <1>1. PICK t \in Nat \ {0} : t = total
    BY DEF ColumnsOK
  <1>2. t \div n \in Nat /\ (t % n = 0 => (t \div n) - 1 \in Nat)
    <2>1. t \div n \in Nat
      BY DivBounds
    <2>2. t = n * (t \div n) + (t % n)
      OBVIOUS
    <2>3. t % n = 0 => t \div n # 0
      BY <2>1, <2>2
    <2>. QED
      BY <2>1, <2>3
  <1>. QED
    BY <1>1, <1>2 DEF NewShares

\* addMember with an equal split: the others are recalculated, the newcomer's record keeps the
\* share addMember computed.
LEMMA AddEqual ==
  ASSUME SharesInv, NEW m \in Members, NEW share, NEW percentage \in Percentages \cup {Null},
         AddMember(m, share, percentage), method = "EQUAL"
  PROVE  SharesInv'
  <1>0. ColumnsOK /\ Group(Active) /\ Host \in Active
    BY ActiveIsGroup DEF SharesInv
  <1>1. PICK S, A : S = Active \cup {m} /\ A = Active
    OBVIOUS
  <1>2. /\ m \notin A /\ share \in NewShares
        /\ status' = [status EXCEPT ![m] = "ACTIVE"]
        /\ amount' = Recalculated(amount, S)
        /\ due' = [Synced(due, S) EXCEPT ![m] = IF period = "UPCOMING" THEN share ELSE @]
        /\ edited' = FALSE /\ pct' = [pct EXCEPT ![m] = percentage]
        /\ passed' = PassedOver(S) \ {m}
        /\ method' = method /\ total' = total /\ period' = period
    BY <1>1 DEF AddMember
  <1>3. Group(A) /\ Group(S) /\ Host \in S /\ m # Host /\ S \ {m} = A
    BY <1>0, <1>1, <1>2 DEF Group
  <1>4. Active' = S
    BY <1>0, <1>1, <1>2 DEF Active, ColumnsOK
  <1>5. PICK t \in Nat \ {0}, n \in Nat \ {0} : t = total /\ n = Cardinality(S) /\ n = CurrentCount
    <2>1. IsFiniteSet(A) /\ Cardinality(S) \in Nat \ {0}
      BY <1>3, GroupFacts
    <2>2. S = A \cup {m}
      BY <1>1
    <2>3. Cardinality(S) = Cardinality(A) + 1
      BY <1>2, <2>1, <2>2, FS_AddElement
    <2>. QED
      BY <1>0, <1>1, <2>1, <2>3 DEF ColumnsOK, CurrentCount
  <1>6. PICK e : e = calculateEqual(t, S)
    OBVIOUS
  <1>7. /\ e \in [S -> Nat]
        /\ Recalculated(amount, S) \in [Members -> Nat]
        /\ Synced(due, S) \in [Members -> Nat \cup {Null}]
        /\ \A x \in S : Recalculated(amount, S)[x] = e[x]
        /\ period = "UPCOMING" =>
             /\ \A x \in S : due[x] # Null /\ x \notin moved => Synced(due, S)[x] = e[x]
             /\ \A x \in S : due[x] # Null => Synced(due, S)[x] # Null
    BY <1>0, <1>3, <1>5, <1>6, RecalculatedType
  <1>8. /\ share \in Nat /\ share \in {t \div n, (t \div n) - 1}
        /\ t % 100 = 0 => share = t \div n
    BY <1>0, <1>2, <1>5, NewShareType
  <1>9. PICK d \in [Members -> Nat \cup {Null}] : d = Synced(due, S)
    BY <1>7
  <1>10. due' = [d EXCEPT ![m] = IF period = "UPCOMING" THEN share ELSE @]
    BY <1>2, <1>9
  <1>11. due' \in [Members -> Nat \cup {Null}]
    BY <1>8, <1>10
  <1>12. ColumnsOK'
    <2>1. /\ status' \in [Members -> {"NONE", "ACTIVE", "REMOVED"}] /\ status'[Host] = "ACTIVE"
          /\ pct' \in [Members -> Percentages \cup {Null}]
      BY <1>0, <1>2, <1>3, HostInGroup DEF ColumnsOK
    <2>2. amount' \in [Members -> Nat]
      BY <1>2, <1>7
    <2>3. /\ method' \in {"EQUAL", "CUSTOM_PERCENTAGE", "CUSTOM_NOMINAL", "PRO_RATA"}
          /\ total' \in Nat \ {0} /\ period' \in {"NONE", "UPCOMING", "ACTIVE"}
          /\ edited' \in BOOLEAN
      BY <1>0, <1>2 DEF ColumnsOK
    <2>. QED
      BY <1>11, <2>1, <2>2, <2>3 DEF ColumnsOK
  <1>13. Shown'
    BY <1>2, <1>4, <1>5, <1>6, <1>7 DEF Shown
  <1>14. ASSUME period = "UPCOMING"
         PROVE  Owed'[m] = share /\ \A x \in A : due'[x] # Null /\ Owed'[x] = e[x]
    <2>1. \A x \in A : due[x] # Null
      BY <1>1, <1>14 DEF SharesInv, Billed
    <2>2. \A x \in A : x \in S /\ x # m /\ x \in Members
      BY <1>1, <1>2, <1>3 DEF Group
    <2>3. \A x \in S : x \in passed' <=> x \in moved /\ x # m
      BY <1>2, <1>14 DEF PassedOver
    <2>4. Owed' = [x \in Members |-> IF x \in passed' THEN amount'[x] ELSE due'[x]]
      BY DEF Owed, Members
    <2>5. m \in S /\ due'[m] = share
      BY <1>1, <1>9, <1>10, <1>14
    <2>6. ASSUME NEW x \in A PROVE due'[x] = d[x] /\ amount'[x] = e[x]
      BY <1>2, <1>7, <1>10, <2>2
    <2>7. \A x \in A : d[x] # Null /\ (x \notin moved => d[x] = e[x])
      BY <1>7, <1>9, <1>14, <2>1, <2>2
    <2>. QED
      BY <2>2, <2>3, <2>4, <2>5, <2>6, <2>7
  <1>15. ASSUME period = "UPCOMING"
         PROVE  /\ \A x \in S : due'[x] # Null
                /\ \A x \in S : Owed'[x] \in Nat
    <2>1. due'[m] = share /\ share # Null
      BY <1>8, <1>9, <1>10, <1>15, Constants
    <2>2. \A x \in S : x = m \/ x \in A
      BY <1>1
    <2>3. \A x \in S : e[x] \in Nat
      BY <1>7
    <2>. QED
      BY <1>1, <1>8, <1>14, <1>15, <2>1, <2>2, <2>3
  <1>16. Billed'
    BY <1>2, <1>4, <1>15 DEF Billed
  <1>17. ASSUME period = "UPCOMING"
         PROVE  t - Added(Owed', S) = (t \div n) - share
    <2>1. IsFiniteSet(S) /\ IsFiniteSet(A) /\ m \in S
      BY <1>1, <1>3, GroupFacts
    <2>2. PICK h : h = Owed'
      OBVIOUS
    <2>3. \A x \in S : h[x] \in Int /\ e[x] \in Int
      BY <1>7, <1>15, <1>17, <2>2
    <2>4. PICK rest \in Int : rest = Added(e, A)
      <3>1. \A x \in A : e[x] \in Int
        BY <1>3, <2>3
      <3>. QED
        BY <2>1, <3>1, AddedType
    <2>5. Added(h, S) = h[m] + Added(h, A)
      BY <1>3, <2>1, <2>3, AddedStep
    <2>6. Added(e, S) = e[m] + Added(e, A)
      BY <1>3, <2>1, <2>3, AddedStep
    <2>7. Added(e, A) = Added(h, A)
      <3>1. \A x \in A : e[x] \in Int /\ e[x] = h[x]
        BY <1>3, <1>14, <1>17, <2>2, <2>3
      <3>. QED
        BY <2>1, <3>1, AddedSame
    <2>8. First(S) = Host
      BY <1>3, HostIsFirst
    <2>9. Added(e, S) = t /\ e[m] = t \div n
      BY <1>3, <1>5, <1>6, <2>1, <2>8, EqualSplit
    <2>10. h[m] = share
      BY <1>14, <1>17, <2>2
    <2>. QED
      BY <1>8, <2>2, <2>4, <2>5, <2>6, <2>7, <2>9, <2>10, DivBounds
  <1>18. UpcomingAddsUp'
    <2>. SUFFICES ASSUME period = "UPCOMING"
                  PROVE  /\ \A x \in S : due'[x] # Null
                         /\ IF t % 100 = 0 THEN t - Added(Owed', S) = 0
                            ELSE t - Added(Owed', S) \in 0..1
      BY <1>2, <1>4, <1>5 DEF UpcomingAddsUp
    <2>1. \A x \in S : due'[x] # Null
      BY <1>15
    <2>2. t \div n \in Nat
      BY DivBounds
    <2>. QED
      BY <1>8, <1>17, <2>1, <2>2
  <1>. QED
    BY <1>12, <1>13, <1>16, <1>18 DEF SharesInv

\* Nothing is claimed of shares that were edited, nor of the other methods.
LEMMA AddOther ==
  ASSUME SharesInv, NEW m \in Members, NEW share, NEW percentage \in Percentages \cup {Null},
         AddMember(m, share, percentage), method # "EQUAL"
  PROVE  SharesInv'
  <1>0. share \in Nat
    <2>1. share \in Entered \cup {0}
      BY DEF AddMember
    <2>. QED
      BY <2>1, Constants
  <1>1. /\ status' = [status EXCEPT ![m] = "ACTIVE"]
        /\ amount' = [amount EXCEPT ![m] = share]
        /\ due' = [due EXCEPT ![m] = IF period = "UPCOMING" THEN share ELSE @]
        /\ edited' = TRUE /\ pct' = [pct EXCEPT ![m] = percentage]
        /\ method' = method /\ total' = total /\ period' = period
    BY DEF AddMember
  <1>2. /\ status' \in [Members -> {"NONE", "ACTIVE", "REMOVED"}] /\ status'[Host] = "ACTIVE"
        /\ pct' \in [Members -> Percentages \cup {Null}]
    BY <1>1, HostInGroup DEF SharesInv, ColumnsOK
  <1>3. amount' \in [Members -> Nat] /\ due' \in [Members -> Nat \cup {Null}]
    BY <1>0, <1>1 DEF SharesInv, ColumnsOK
  <1>4. /\ method' \in {"EQUAL", "CUSTOM_PERCENTAGE", "CUSTOM_NOMINAL", "PRO_RATA"}
        /\ total' \in Nat \ {0} /\ period' \in {"NONE", "UPCOMING", "ACTIVE"}
        /\ edited' \in BOOLEAN
    BY <1>1 DEF SharesInv, ColumnsOK
  <1>5. ColumnsOK'
    BY <1>2, <1>3, <1>4 DEF ColumnsOK
  <1>6. Shown' /\ Billed' /\ UpcomingAddsUp'
    BY <1>1 DEF Shown, Billed, UpcomingAddsUp
  <1>. QED
    BY <1>5, <1>6 DEF SharesInv

\* updateMember leaves the columns edited.
LEMMA UpdateMemberShares ==
  ASSUME SharesInv, NEW m \in Members, UpdateMember(m)
  PROVE  SharesInv'
  <1>1. /\ edited' = TRUE
        /\ UNCHANGED <<method, total, status, period, due>>
        /\ amount' \in [Members -> Nat] /\ pct' \in [Members -> Percentages \cup {Null}]
    <2>1. CASE amount' \in {[amount EXCEPT ![m] = a] : a \in Entered} /\ UNCHANGED pct
      <3>1. PICK a \in Entered : amount' = [amount EXCEPT ![m] = a]
        BY <2>1
      <3>2. a \in Nat
        BY Constants
      <3>. QED
        BY <2>1, <3>1, <3>2 DEF UpdateMember, SharesInv, ColumnsOK
    <2>2. CASE pct' \in {[pct EXCEPT ![m] = p] : p \in Percentages} /\ UNCHANGED amount
      BY <2>2 DEF UpdateMember, SharesInv, ColumnsOK
    <2>. QED
      BY <2>1, <2>2 DEF UpdateMember
  <1>2. ColumnsOK'
    BY <1>1 DEF SharesInv, ColumnsOK
  <1>3. Active' = Active
    BY <1>1 DEF Active
  <1>4. Shown' /\ Billed' /\ UpcomingAddsUp'
    BY <1>1, <1>3 DEF SharesInv, Shown, Billed, UpcomingAddsUp
  <1>. QED
    BY <1>2, <1>4 DEF SharesInv

\* removeMember: the others are recalculated, in an equal split.
LEMMA RemoveMemberShares ==
  ASSUME SharesInv, NEW m \in Members, RemoveMember(m)
  PROVE  SharesInv'
  <1>0. ColumnsOK /\ Group(Active) /\ Host \in Active
    BY ActiveIsGroup DEF SharesInv
  <1>1. PICK S : S = Active \ {m}
    OBVIOUS
  <1>2. /\ m \in Active /\ m # Host
        /\ status' = [status EXCEPT ![m] = "REMOVED"]
        /\ IF method = "EQUAL"
             THEN /\ amount' = Recalculated(amount, S) /\ due' = Synced(due, S)
                  /\ edited' = FALSE /\ passed' = PassedOver(S)
             ELSE UNCHANGED <<amount, due, edited>>
        /\ UNCHANGED <<method, total, pct, period>>
    BY <1>1 DEF RemoveMember
  <1>3. Group(S) /\ S \subseteq Active
    BY <1>0, <1>1, <1>2 DEF Group
  <1>4. Active' = S
    BY <1>0, <1>1, <1>2 DEF Active, ColumnsOK
  <1>5. PICK t \in Nat \ {0} : t = total
    BY <1>0 DEF ColumnsOK
  <1>6. PICK e : e = calculateEqual(t, S)
    OBVIOUS
  <1>7. /\ e \in [S -> Nat]
        /\ Recalculated(amount, S) \in [Members -> Nat]
        /\ Synced(due, S) \in [Members -> Nat \cup {Null}]
        /\ \A x \in S : Recalculated(amount, S)[x] = e[x]
        /\ period = "UPCOMING" =>
             /\ \A x \in S : due[x] # Null /\ x \notin moved => Synced(due, S)[x] = e[x]
             /\ \A x \in S : due[x] # Null => Synced(due, S)[x] # Null
    BY <1>0, <1>3, <1>5, <1>6, RecalculatedType
  <1>8. status' \in [Members -> {"NONE", "ACTIVE", "REMOVED"}] /\ status'[Host] = "ACTIVE"
    BY <1>0, <1>2, HostInGroup DEF ColumnsOK
  <1>9. CASE method = "EQUAL"
    <2>1. ColumnsOK'
      BY <1>0, <1>2, <1>7, <1>8, <1>9 DEF ColumnsOK
    <2>2. Shown'
      BY <1>2, <1>4, <1>5, <1>6, <1>7, <1>9 DEF Shown
    <2>3. ASSUME period = "UPCOMING"
          PROVE  \A x \in S : Owed'[x] = e[x] /\ due'[x] # Null
      <3>1. \A x \in S : due[x] # Null /\ x \in Members
        BY <1>0, <1>3, <1>9, <2>3 DEF SharesInv, Billed, Group
      <3>2. \A x \in S : x \in passed' <=> x \in moved
        BY <1>2, <1>9, <2>3 DEF PassedOver
      <3>3. Owed' = [x \in Members |-> IF x \in passed' THEN amount'[x] ELSE due'[x]]
        BY DEF Owed, Members
      <3>4. ASSUME NEW x \in S
            PROVE  amount'[x] = e[x] /\ due'[x] # Null /\ (x \notin moved => due'[x] = e[x])
        BY <1>2, <1>7, <1>9, <2>3, <3>1
      <3>. QED
        BY <3>1, <3>2, <3>3, <3>4
    <2>4. Billed'
      BY <1>2, <1>4, <2>3 DEF Billed
    <2>5. ASSUME period = "UPCOMING" PROVE Added(Owed', S) = t
      <3>1. PICK d : d = Owed'
        OBVIOUS
      <3>2. \A x \in S : d[x] = e[x]
        BY <2>3, <2>5, <3>1
      <3>3. t \in Nat
        OBVIOUS
      <3>4. Added(d, S) = t
        BY <1>3, <1>6, <3>2, <3>3, AddedOverActive
      <3>. QED
        BY <3>1, <3>4
    <2>6. UpcomingAddsUp'
      <3>. SUFFICES ASSUME period = "UPCOMING"
                    PROVE  /\ \A x \in S : due'[x] # Null
                           /\ IF t % 100 = 0 THEN t - Added(Owed', S) = 0
                              ELSE t - Added(Owed', S) \in 0..1
        BY <1>2, <1>4, <1>5 DEF UpcomingAddsUp
      <3>. QED
        BY <2>3, <2>5
    <2>. QED
      BY <2>1, <2>2, <2>4, <2>6 DEF SharesInv
  <1>10. CASE method # "EQUAL"
    <2>1. ColumnsOK'
      BY <1>0, <1>2, <1>8, <1>10 DEF ColumnsOK
    <2>2. Shown' /\ Billed' /\ UpcomingAddsUp'
      BY <1>2, <1>10 DEF Shown, Billed, UpcomingAddsUp
    <2>. QED
      BY <2>1, <2>2 DEF SharesInv
  <1>. QED
    BY <1>9, <1>10

\* updateGroup changes the method only while there is no period.
LEMMA UpdateGroupShares ==
  ASSUME SharesInv, NEW to \in Methods, NEW cost \in Totals, UpdateGroup(to, cost)
  PROVE  SharesInv'
  <1>1. /\ method' = to /\ total' = cost /\ edited' = TRUE
        /\ to # method => period = "NONE"
        /\ UNCHANGED <<status, amount, pct, period, due>>
    BY DEF UpdateGroup
  <1>2. ColumnsOK'
    <2>1. to \in {"EQUAL", "CUSTOM_PERCENTAGE", "CUSTOM_NOMINAL", "PRO_RATA"}
          /\ cost \in Nat \ {0}
      BY Constants
    <2>. QED
      BY <1>1, <2>1 DEF SharesInv, ColumnsOK
  <1>3. Active' = Active
    BY <1>1 DEF Active
  <1>4. Shown' /\ Billed' /\ UpcomingAddsUp'
    BY <1>1, <1>3 DEF SharesInv, Shown, Billed, UpcomingAddsUp
  <1>. QED
    BY <1>2, <1>4 DEF SharesInv

\* generateNextCycle: records of what calculateShares returns, or of nobody.
LEMMA GenerateShares ==
  ASSUME SharesInv, GenerateNextCycle
  PROVE  SharesInv'
  <1>0. ColumnsOK /\ Group(Active)
    BY ActiveIsGroup DEF SharesInv
  <1>1. period' = "UPCOMING" /\ UNCHANGED <<method, total, status, amount, pct, edited>>
    BY DEF GenerateNextCycle
  <1>2. Active' = Active
    BY <1>1 DEF Active
  <1>3. due' \in [Members -> Nat \cup {Null}]
    <2>1. CASE calculateShares = {}
      BY <1>0, <2>1 DEF GenerateNextCycle, ColumnsOK
    <2>2. CASE calculateShares # {}
      <3>1. PICK shares \in Split :
               due' = [x \in Members |-> IF x \in Active THEN shares[x] ELSE Null]
        BY <2>2 DEF GenerateNextCycle, calculateShares
      <3>2. shares \in [Active -> Nat]
        BY <1>0, SplitFacts
      <3>. QED
        BY <3>1, <3>2
    <2>. QED
      BY <2>1, <2>2
  <1>4. ColumnsOK'
    BY <1>0, <1>1, <1>3 DEF ColumnsOK
  <1>5. Shown'
    BY <1>1, <1>2 DEF SharesInv, Shown
  <1>6. ASSUME method = "EQUAL"
        PROVE  (\A x \in Active : due'[x] # Null) /\ Added(Owed', Active) = total
    <2>1. PICK e : e = calculateEqual(total, Active) /\ calculateShares = {e}
      BY <1>0, <1>6, EqualShares
    <2>2. due' = [x \in Members |-> IF x \in Active THEN e[x] ELSE Null]
      BY <2>1 DEF GenerateNextCycle
    <2>3. PICK t, S, d : t \in Nat /\ t = total /\ S = Active /\ d = due' /\ d = Owed'
      <3>1. passed' = {}
        BY DEF GenerateNextCycle
      <3>2. Owed' = due'
        BY <1>3, <3>1 DEF Owed, Members
      <3>. QED
        BY <1>0, <3>2 DEF ColumnsOK
    <2>4. e \in [S -> Nat]
      BY <1>0, <2>1, <2>3, EqualSplit
    <2>5. \A x \in S : d[x] = e[x]
      BY <1>0, <2>2, <2>3 DEF Group
    <2>6. Added(d, S) = t
      BY <1>0, <2>1, <2>3, <2>5, AddedOverActive
    <2>7. \A x \in S : d[x] # Null
      BY <2>4, <2>5, Constants
    <2>. QED
      BY <2>3, <2>6, <2>7
  <1>7. Billed'
    BY <1>1, <1>2, <1>6 DEF Billed
  <1>8. UpcomingAddsUp'
    <2>. SUFFICES ASSUME method = "EQUAL"
                  PROVE  /\ \A x \in Active : due'[x] # Null
                         /\ IF total % 100 = 0 THEN total - Added(Owed', Active) = 0
                            ELSE total - Added(Owed', Active) \in 0..1
      BY <1>1, <1>2 DEF UpcomingAddsUp
    <2>1. total \in Nat
      BY <1>0 DEF ColumnsOK
    <2>. QED
      BY <1>6, <2>1
  <1>. QED
    BY <1>4, <1>5, <1>7, <1>8 DEF SharesInv

\* The host settles a record: the period is no longer upcoming.
LEMMA SettleShares ==
  ASSUME SharesInv, NEW m \in Members, HostSettles(m)
  PROVE  SharesInv'
  <1>1. /\ period' \in {"ACTIVE", "NONE"}
        /\ UNCHANGED <<method, total, status, amount, pct, edited>>
        /\ due' = due \/ due' = [x \in Members |-> Null]
    BY DEF HostSettles
  <1>2. ColumnsOK'
    BY <1>1 DEF SharesInv, ColumnsOK
  <1>3. Active' = Active
    BY <1>1 DEF Active
  <1>4. Shown' /\ Billed' /\ UpcomingAddsUp'
    BY <1>1, <1>3 DEF SharesInv, Shown, Billed, UpcomingAddsUp
  <1>. QED
    BY <1>2, <1>4 DEF SharesInv

\* What the amounts do not depend on: the status of a record.
LEMMA SameShares ==
  ASSUME SharesInv,
         UNCHANGED <<method, total, status, amount, pct, period, due, edited, passed>>
  PROVE  SharesInv'
  <1>1. ColumnsOK'
    BY DEF SharesInv, ColumnsOK
  <1>2. Active' = Active /\ Owed' = Owed
    BY DEF Active, Owed, Members
  <1>. QED
    BY <1>1, <1>2 DEF SharesInv, Shown, Billed, UpcomingAddsUp

LEMMA NextShares == SharesInv /\ [Next]_vars => SharesInv'
  <1>. SUFFICES ASSUME SharesInv, [Next]_vars PROVE SharesInv'
    OBVIOUS
  <1>1. CASE UNCHANGED vars
    BY <1>1, SameShares DEF vars
  <1>2. ASSUME NEW m \in Members, NEW share, NEW percentage \in Percentages \cup {Null},
               AddMember(m, share, percentage)
        PROVE  SharesInv'
    BY <1>2, AddEqual, AddOther
  <1>3. ASSUME NEW m \in Members, RecordMoves(m) \/ RecordReopens(m)
        PROVE  SharesInv'
    BY <1>3, SameShares DEF RecordMoves, RecordReopens
  <1>. QED
    BY <1>1, <1>2, <1>3, UpdateMemberShares, RemoveMemberShares, UpdateGroupShares,
       GenerateShares, SettleShares DEF Next

(***************************************************************************)
(* The inductive invariant holds however addMember, updateMember,          *)
(* removeMember, updateGroup and generateNextCycle follow each other.      *)
(***************************************************************************)
THEOREM SharesInvariant == Spec => []SharesInv
  BY InitShares, NextShares, PTL DEF Spec

(***************************************************************************)
(* What calculateEqual, calculateProRata and calculateCustomPercent return *)
(* adds up to the cost, to the cent and for any number of members; nominal *)
(* shares are left to their check (calculateShares).                       *)
(***************************************************************************)
THEOREM EverySplitAddsUp == Spec => []SplitsAddUp
  <1>1. SharesInv => SplitsAddUp
    BY SplitFacts DEF SharesInv, SplitsAddUp
  <1>. QED
    BY <1>1, SharesInvariant, PTL

(***************************************************************************)
(* As long as nobody edits shares or cost of an equal split, the next      *)
(* period bills exactly what the member columns show                       *)
(* (recalculateEqualShares, calculateEqual).                               *)
(***************************************************************************)
THEOREM ShownSharesAreBilled == Spec => []ShownIsBilled
  <1>1. SharesInv => ShownIsBilled
    <2>. SUFFICES ASSUME SharesInv, method = "EQUAL", ~edited
                  PROVE  calculateShares = {[m \in Active |-> amount[m]]}
      BY DEF ShownIsBilled
    <2>1. Group(Active) /\ total \in Nat
      BY ActiveIsGroup DEF SharesInv, ColumnsOK
    <2>2. PICK e \in [Active -> Nat] : e = calculateEqual(total, Active)
      BY <2>1, EqualSplit
    <2>3. \A m \in Active : amount[m] = e[m]
      BY <2>2 DEF SharesInv, Shown
    <2>4. e = [m \in Active |-> amount[m]]
      BY <2>2, <2>3
    <2>. QED
      BY <2>2, <2>4, EqualShares DEF SharesInv
  <1>. QED
    BY <1>1, SharesInvariant, PTL

(***************************************************************************)
(* In an upcoming period of an equal split everybody active has a record,  *)
(* and however members join, leave and return these add up to the cost,    *)
(* once the records a recalculation passed over, which were no longer      *)
(* PENDING, are counted at what their members owe now; of a cost not in    *)
(* whole rupiah one cent at most is missing (addMember, removeMember,      *)
(* recalculateEqualShares).                                                *)
(***************************************************************************)
THEOREM UpcomingPeriodsAddUp == Spec => []UpcomingAddsUp
  <1>1. SharesInv => UpcomingAddsUp
    BY DEF SharesInv
  <1>. QED
    BY <1>1, SharesInvariant, PTL
==============================================================================
