----------------------------- MODULE Gregorian ------------------------------
(***************************************************************************)
(* Dates, as the program uses them through chrono::NaiveDate: a day is its *)
(* number, with 2000-01-01, a Saturday, as day 0, and a month is the count *)
(* of months since January 2000.                                           *)
(***************************************************************************)
EXTENDS Integers, FiniteSets

\* Days before the year y, counted from 2000.
YearStart(y) ==
  365 * y + (y + 3) \div 4 - (y + 99) \div 100 + (y + 399) \div 400

IsLeap(y) == y % 4 = 0 /\ (y % 100 # 0 \/ y % 400 = 0)

DaysBefore == <<0, 31, 59, 90, 120, 151, 181, 212, 243, 273, 304, 334>>

\* NaiveDate::from_ymd_opt(.., .., 1).
FirstOf(month) ==
  LET y == month \div 12
      m == (month % 12) + 1
  IN YearStart(y) + DaysBefore[m] + (IF m > 2 /\ IsLeap(y) THEN 1 ELSE 0)

\* 400 years have 4800 months and 146097 days; a month begins no more than three
\* days before or after its share of them.
MonthOf(day) ==
  LET guess == (4800 * day) \div 146097
  IN CHOOSE m \in guess - 2..guess + 2 : FirstOf(m) <= day /\ day < FirstOf(m + 1)

YearOf(day) == MonthOf(day) \div 12

\* date.day()
DayOfMonth(day) == day - FirstOf(MonthOf(day)) + 1

\* weekday().num_days_from_sunday()
Weekday(day) == (day + 6) % 7

IsWeekend(day) == Weekday(day) \in {0, 6}

\* Jumps of whole months forget the day: the first of the month is as good as any.
ShiftMonth(day, delta) == FirstOf(MonthOf(day) + delta)

DaysIn(month) == FirstOf(month + 1) - FirstOf(month)

DaysOfMonth(month) == FirstOf(month)..FirstOf(month + 1) - 1
DaysOfYear(year) == FirstOf(12 * year)..FirstOf(12 * year + 12) - 1

Weekdays(a, b) == {x \in a..b : ~IsWeekend(x)}

\* The day that n weekdays take one from day on, backwards if n is negative.
\* No stretch of n + 2 * (n \div 5 + 1) days has fewer than n weekdays.
StepWeekdays(day, n) ==
  CASE n = 0 -> day
    [] n > 0 -> CHOOSE x \in Weekdays(day + 1, day + 2 * n + 2) :
                  Cardinality(Weekdays(day + 1, x)) = n
    [] n < 0 -> CHOOSE x \in Weekdays(day + 2 * n - 2, day - 1) :
                  Cardinality(Weekdays(x, day - 1)) = -n

\* The earliest and the latest of some days.
Earliest(days) == CHOOSE d \in days : \A x \in days : d <= x
Latest(days) == CHOOSE d \in days : \A x \in days : d >= x
=============================================================================
