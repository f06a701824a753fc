-------------------------- MODULE NavigationProofs --------------------------
(***************************************************************************)
(* Theorems about Navigation, for any days, settings and length of the     *)
(* message queue, and the lemmas about dates they rest on: months and      *)
(* weekdays as Gregorian defines them, for every day there is.             *)
(***************************************************************************)
EXTENDS Navigation, FiniteSetTheorems, TLAPS

-----------------------------------------------------------------------------
(* Months.                                                                 *)

\* Every month has 28 to 31 days.
LEMMA MonthLength ==
  ASSUME NEW m \in Int
  PROVE  FirstOf(m) \in Int /\ FirstOf(m + 1) - FirstOf(m) \in 28..31
  BY DEF FirstOf, YearStart, DaysBefore, IsLeap

\* No month begins more than 15000/4800 days away from its share of 400 years.
LEMMA MonthDrift ==
  ASSUME NEW m \in Int
  PROVE  /\ 146097 * m - 15000 <= 4800 * FirstOf(m)
         /\ 4800 * FirstOf(m) <= 146097 * m + 15000
  <1> DEFINE y == m \div 12
             k == m % 12
             leap == IF k + 1 > 2 /\ IsLeap(y) THEN 1 ELSE 0
  <1>1. y \in Int /\ k \in 0..11 /\ m = 12 * y + k
    OBVIOUS
  <1>2. /\ YearStart(y) \in Int
        /\ -4752 <= 4800 * YearStart(y) - 1753164 * y
        /\ 4800 * YearStart(y) - 1753164 * y <= 8388
    BY <1>1 DEF YearStart
  <1>3. /\ DaysBefore[k + 1] \in Int
        /\ -9000 <= 4800 * DaysBefore[k + 1] - 146097 * k
        /\ 4800 * DaysBefore[k + 1] - 146097 * k <= 2705
        /\ k + 1 > 2 => 4800 * DaysBefore[k + 1] - 146097 * k <= -1200
    BY <1>1 DEF DaysBefore
  <1>4. FirstOf(m) = YearStart(y) + DaysBefore[k + 1] + leap
    BY DEF FirstOf
  <1>5. leap \in 0..1 /\ (leap = 1 => k + 1 > 2)
    OBVIOUS
  <1> HIDE DEF y, k, leap
  <1> QED BY <1>1, <1>2, <1>3, <1>4, <1>5

\* A later month begins when an earlier one has ended.
LEMMA MonthsInOrder ==
  ASSUME NEW m \in Int, NEW n \in Int, m < n
  PROVE  FirstOf(m + 1) <= FirstOf(n)
  <1>1. CASE n = m + 1
    BY <1>1, MonthLength
  <1>2. CASE n >= m + 2
    <2>1. m + 1 \in Int /\ FirstOf(m + 1) \in Int /\ FirstOf(n) \in Int
      BY MonthLength
    <2>2. 4800 * FirstOf(m + 1) <= 146097 * (m + 1) + 15000
      BY <2>1, MonthDrift
    <2>3. 146097 * n - 15000 <= 4800 * FirstOf(n)
      BY MonthDrift
    <2> QED BY <1>2, <2>1, <2>2, <2>3
  <1> QED BY <1>1, <1>2

\* MonthOf finds the month that a day is in, for every day there is.
LEMMA MonthOfDay ==
  ASSUME NEW day \in Int
  PROVE  /\ MonthOf(day) \in Int
         /\ FirstOf(MonthOf(day)) <= day /\ day < FirstOf(MonthOf(day) + 1)
  <1> DEFINE guess == (4800 * day) \div 146097
             In(m) == FirstOf(m) <= day /\ day < FirstOf(m + 1)
  <1>1. guess \in Int /\ 146097 * guess <= 4800 * day /\ 4800 * day < 146097 * (guess + 1)
    OBVIOUS
  <1> HIDE DEF guess
  <1>2. FirstOf(guess - 1) \in Int /\ FirstOf(guess) \in Int /\ FirstOf(guess + 1) \in Int /\ FirstOf(guess + 2) \in Int
    BY <1>1, MonthLength
  <1>3. 4800 * FirstOf(guess - 1) <= 146097 * (guess - 1) + 15000
    BY <1>1, MonthDrift
  <1>4. 146097 * (guess + 2) - 15000 <= 4800 * FirstOf(guess + 2)
    BY <1>1, MonthDrift
  <1>5. FirstOf(guess - 1) <= day /\ day < FirstOf(guess + 2)
    BY <1>1, <1>2, <1>3, <1>4
  <1>6. In(guess - 1) \/ In(guess) \/ In(guess + 1)
    BY <1>1, <1>2, <1>5
  <1>7. \E m \in guess - 2..guess + 2 : In(m)
    BY <1>1, <1>6
  <1>8. MonthOf(day) \in guess - 2..guess + 2 /\ In(MonthOf(day))
    BY <1>7 DEF MonthOf, guess
  <1> QED BY <1>1, <1>8

\* and no other contains it.
LEMMA MonthOfIs ==
  ASSUME NEW day \in Int, NEW m \in Int, FirstOf(m) <= day, day < FirstOf(m + 1)
  PROVE  MonthOf(day) = m
  <1> DEFINE n == MonthOf(day)
  <1>1. n \in Int /\ FirstOf(n) <= day /\ day < FirstOf(n + 1)
    BY MonthOfDay
  <1> HIDE DEF n
  <1>2. FirstOf(m) \in Int /\ FirstOf(n) \in Int /\ FirstOf(m + 1) \in Int /\ FirstOf(n + 1) \in Int
    BY <1>1, MonthLength
  <1>3. ~(m < n) /\ ~(n < m)
    BY <1>1, <1>2, MonthsInOrder
  <1> QED BY <1>1, <1>3 DEF n

-----------------------------------------------------------------------------
(* Weekdays.                                                               *)

\* The weekday before and the one after a day, as step_weekdays goes through them.
NextWeekday(x) == x + (IF Weekday(x) = 5 THEN 3 ELSE IF Weekday(x) = 6 THEN 2 ELSE 1)
LastWeekday(x) == x - (IF Weekday(x) = 1 THEN 3 ELSE IF Weekday(x) = 0 THEN 2 ELSE 1)

LEMMA WeekdaysFinite ==
  ASSUME NEW a \in Int, NEW b \in Int
  PROVE  IsFiniteSet(Weekdays(a, b)) /\ Cardinality(Weekdays(a, b)) \in Nat
  <1>1. IsFiniteSet(a..b)
    BY FS_Interval
  <1>2. Weekdays(a, b) \subseteq a..b
    BY DEF Weekdays
  <1> QED BY <1>1, <1>2, FS_Subset, FS_CardinalityType

\* One day more than a set that does not have it.
LEMMA OneMore ==
  ASSUME NEW S, IsFiniteSet(S), NEW x, x \notin S
  PROVE  Cardinality(S \cup {x}) = Cardinality(S) + 1
  BY FS_AddElement

\* The count of weekdays tells them apart.
LEMMA CountForward ==
  ASSUME NEW a \in Int, NEW x \in Int, NEW y \in Int, a <= x, x < y, ~IsWeekend(y)
  PROVE  /\ Cardinality(Weekdays(a, x)) < Cardinality(Weekdays(a, y))
         /\ (\A z \in x + 1..y - 1 : IsWeekend(z))
              => Cardinality(Weekdays(a, y)) = Cardinality(Weekdays(a, x)) + 1
  <1> DEFINE S == Weekdays(a, x) \cup {y}
  <1>1. IsFiniteSet(Weekdays(a, x)) /\ Cardinality(Weekdays(a, x)) \in Nat
        /\ IsFiniteSet(Weekdays(a, y)) /\ Cardinality(Weekdays(a, y)) \in Nat
    BY WeekdaysFinite
  <1>2. y \notin Weekdays(a, x)
    BY DEF Weekdays
  <1>3. Cardinality(S) = Cardinality(Weekdays(a, x)) + 1
    BY <1>1, <1>2, OneMore
  <1>4. S \subseteq Weekdays(a, y)
    BY DEF Weekdays
  <1>5. Cardinality(S) <= Cardinality(Weekdays(a, y))
    BY <1>1, <1>4, FS_Subset
  <1>6. (\A z \in x + 1..y - 1 : IsWeekend(z)) => S = Weekdays(a, y)
    BY DEF Weekdays
  <1> QED BY <1>1, <1>3, <1>5, <1>6

LEMMA CountBackward ==
  ASSUME NEW b \in Int, NEW x \in Int, NEW y \in Int, x <= b, y < x, ~IsWeekend(y)
  PROVE  /\ Cardinality(Weekdays(x, b)) < Cardinality(Weekdays(y, b))
         /\ (\A z \in y + 1..x - 1 : IsWeekend(z))
              => Cardinality(Weekdays(y, b)) = Cardinality(Weekdays(x, b)) + 1
  <1> DEFINE S == Weekdays(x, b) \cup {y}
  <1>1. IsFiniteSet(Weekdays(x, b)) /\ Cardinality(Weekdays(x, b)) \in Nat
        /\ IsFiniteSet(Weekdays(y, b)) /\ Cardinality(Weekdays(y, b)) \in Nat
    BY WeekdaysFinite
  <1>2. y \notin Weekdays(x, b)
    BY DEF Weekdays
  <1>3. Cardinality(S) = Cardinality(Weekdays(x, b)) + 1
    BY <1>1, <1>2, OneMore
  <1>4. S \subseteq Weekdays(y, b)
    BY DEF Weekdays
  <1>5. Cardinality(S) <= Cardinality(Weekdays(y, b))
    BY <1>1, <1>4, FS_Subset
  <1>6. (\A z \in y + 1..x - 1 : IsWeekend(z)) => S = Weekdays(y, b)
    BY DEF Weekdays
  <1> QED BY <1>1, <1>3, <1>5, <1>6

\* x is the weekday that n steps from day on lead to.
Ahead(day, n, x) ==
  x \in Int /\ day < x /\ ~IsWeekend(x) /\ Cardinality(Weekdays(day + 1, x)) = n
Back(day, n, x) ==
  x \in Int /\ x < day /\ ~IsWeekend(x) /\ Cardinality(Weekdays(x, day - 1)) = n

LEMMA StepForward ==
  ASSUME NEW day \in Int, NEW n \in Nat \ {0}, NEW x, Ahead(day, n, x), x <= day + 2 * n + 2
  PROVE  StepWeekdays(day, n) = x
  <1> DEFINE S == Weekdays(day + 1, day + 2 * n + 2)
  <1>1. x \in S /\ Cardinality(Weekdays(day + 1, x)) = n
    BY DEF Ahead, Weekdays
  <1>2. \A z \in S : Cardinality(Weekdays(day + 1, z)) = n => z = x
    <2> SUFFICES ASSUME NEW z \in S, Cardinality(Weekdays(day + 1, z)) = n, z # x PROVE FALSE
      OBVIOUS
    <2>1. z \in Int /\ x \in Int /\ day + 1 <= z /\ day + 1 <= x /\ ~IsWeekend(z) /\ ~IsWeekend(x)
      BY <1>1 DEF Weekdays
    <2>2. (x < z \/ z < x) /\ day + 1 \in Int
      BY <2>1
    <2> QED BY <1>1, <2>1, <2>2, CountForward
  <1>3. StepWeekdays(day, n) = CHOOSE z \in S : Cardinality(Weekdays(day + 1, z)) = n
    BY DEF StepWeekdays
  <1> HIDE DEF S
  <1> QED BY <1>1, <1>2, <1>3

LEMMA StepBack ==
  ASSUME NEW day \in Int, NEW n \in Int, n < 0, NEW x, Back(day, -n, x), day + 2 * n - 2 <= x
  PROVE  StepWeekdays(day, n) = x
  <1> DEFINE S == Weekdays(day + 2 * n - 2, day - 1)
  <1>1. x \in S /\ Cardinality(Weekdays(x, day - 1)) = -n
    BY DEF Back, Weekdays
  <1>2. \A z \in S : Cardinality(Weekdays(z, day - 1)) = -n => z = x
    <2> SUFFICES ASSUME NEW z \in S, Cardinality(Weekdays(z, day - 1)) = -n, z # x PROVE FALSE
      OBVIOUS
    <2>1. z \in Int /\ x \in Int /\ z <= day - 1 /\ x <= day - 1 /\ ~IsWeekend(z) /\ ~IsWeekend(x)
      BY <1>1 DEF Weekdays
    <2>2. (x < z \/ z < x) /\ day - 1 \in Int
      BY <2>1
    <2> QED BY <1>1, <2>1, <2>2, CountBackward
  <1>3. StepWeekdays(day, n) = CHOOSE z \in S : Cardinality(Weekdays(z, day - 1)) = -n
    BY DEF StepWeekdays
  <1> HIDE DEF S
  <1> QED BY <1>1, <1>2, <1>3

LEMMA NextIs ==
  ASSUME NEW x \in Int
  PROVE  /\ NextWeekday(x) \in Int /\ x < NextWeekday(x) /\ ~IsWeekend(NextWeekday(x))
         /\ \A z \in x + 1..NextWeekday(x) - 1 : IsWeekend(z)
  BY DEF NextWeekday, Weekday, IsWeekend

LEMMA LastIs ==
  ASSUME NEW x \in Int
  PROVE  /\ LastWeekday(x) \in Int /\ LastWeekday(x) < x /\ ~IsWeekend(LastWeekday(x))
         /\ \A z \in LastWeekday(x) + 1..x - 1 : IsWeekend(z)
  BY DEF LastWeekday, Weekday, IsWeekend

\* The hops from a day of the week to the next weekday, and back.
Hop(x, y) ==
  \/ Weekday(x) \in 0..4 /\ y = x + 1 /\ Weekday(y) = Weekday(x) + 1
  \/ Weekday(x) = 5 /\ y = x + 3 /\ Weekday(y) = 1
  \/ Weekday(x) = 6 /\ y = x + 2 /\ Weekday(y) = 1

HopBack(x, y) ==
  \/ Weekday(x) \in 2..6 /\ y = x - 1 /\ Weekday(y) = Weekday(x) - 1
  \/ Weekday(x) = 1 /\ y = x - 3 /\ Weekday(y) = 5
  \/ Weekday(x) = 0 /\ y = x - 2 /\ Weekday(y) = 5

LEMMA NextHops == ASSUME NEW x \in Int PROVE Hop(x, NextWeekday(x))
  BY DEF Hop, NextWeekday, Weekday

LEMMA LastHops == ASSUME NEW x \in Int PROVE HopBack(x, LastWeekday(x))
  BY DEF HopBack, LastWeekday, Weekday

LEMMA FirstAhead == ASSUME NEW day \in Int PROVE Ahead(day, 1, NextWeekday(day))
  <1> DEFINE x == NextWeekday(day)
  <1>1. x \in Int /\ day < x /\ ~IsWeekend(x) /\ \A z \in day + 1..x - 1 : IsWeekend(z)
    BY NextIs
  <1> HIDE DEF x
  <1>2. Weekdays(day + 1, x) = {x}
    BY <1>1 DEF Weekdays
  <1>3. Ahead(day, 1, x)
    BY <1>1, <1>2, FS_Singleton DEF Ahead
  <1> QED BY <1>3 DEF x

LEMMA FirstBack == ASSUME NEW day \in Int PROVE Back(day, 1, LastWeekday(day))
  <1> DEFINE x == LastWeekday(day)
  <1>1. x \in Int /\ x < day /\ ~IsWeekend(x) /\ \A z \in x + 1..day - 1 : IsWeekend(z)
    BY LastIs
  <1> HIDE DEF x
  <1>2. Weekdays(x, day - 1) = {x}
    BY <1>1 DEF Weekdays
  <1>3. Back(day, 1, x)
    BY <1>1, <1>2, FS_Singleton DEF Back
  <1> QED BY <1>3 DEF x

LEMMA NextAhead ==
  ASSUME NEW day \in Int, NEW n \in Nat, NEW x, Ahead(day, n, x)
  PROVE  Ahead(day, n + 1, NextWeekday(x))
  <1>1. x \in Int /\ day + 1 \in Int /\ day + 1 <= x
    BY DEF Ahead
  <1>2. /\ NextWeekday(x) \in Int /\ x < NextWeekday(x) /\ ~IsWeekend(NextWeekday(x))
        /\ \A z \in x + 1..NextWeekday(x) - 1 : IsWeekend(z)
    BY <1>1, NextIs
  <1>3. Cardinality(Weekdays(day + 1, NextWeekday(x))) = Cardinality(Weekdays(day + 1, x)) + 1
    BY <1>1, <1>2, CountForward
  <1> QED BY <1>1, <1>2, <1>3 DEF Ahead

LEMMA NextBack ==
  ASSUME NEW day \in Int, NEW n \in Nat, NEW x, Back(day, n, x)
  PROVE  Back(day, n + 1, LastWeekday(x))
  <1>1. x \in Int /\ day - 1 \in Int /\ x <= day - 1
    BY DEF Back
  <1>2. /\ LastWeekday(x) \in Int /\ LastWeekday(x) < x /\ ~IsWeekend(LastWeekday(x))
        /\ \A z \in LastWeekday(x) + 1..x - 1 : IsWeekend(z)
    BY <1>1, LastIs
  <1>3. Cardinality(Weekdays(LastWeekday(x), day - 1)) = Cardinality(Weekdays(x, day - 1)) + 1
    BY <1>1, <1>2, CountBackward
  <1> QED BY <1>1, <1>2, <1>3 DEF Back

\* The steps that the program takes.
LEMMA ShortSteps ==
  ASSUME NEW day \in Int
  PROVE  /\ StepWeekdays(day, 0) = day
         /\ StepWeekdays(day, 1) = NextWeekday(day)
         /\ StepWeekdays(day, 2) = NextWeekday(NextWeekday(day))
         /\ StepWeekdays(day, -1) = LastWeekday(day)
         /\ StepWeekdays(day, -2) = LastWeekday(LastWeekday(day))
  <1>1. StepWeekdays(day, 0) = day
    BY DEF StepWeekdays
  <1>2. Ahead(day, 1, NextWeekday(day)) /\ Back(day, 1, LastWeekday(day))
    BY FirstAhead, FirstBack
  <1>3. Ahead(day, 1 + 1, NextWeekday(NextWeekday(day))) /\ Back(day, 1 + 1, LastWeekday(LastWeekday(day)))
    BY <1>2, NextAhead, NextBack
  <1>4. /\ NextWeekday(day) <= day + 4 /\ NextWeekday(NextWeekday(day)) <= day + 6
        /\ day - 4 <= LastWeekday(day) /\ day - 6 <= LastWeekday(LastWeekday(day))
    BY DEF NextWeekday, LastWeekday, Weekday
  <1>5. StepWeekdays(day, 1) = NextWeekday(day) /\ StepWeekdays(day, -1) = LastWeekday(day)
    BY <1>2, <1>4, StepForward, StepBack
  <1>6. /\ StepWeekdays(day, 2) = NextWeekday(NextWeekday(day))
        /\ StepWeekdays(day, -2) = LastWeekday(LastWeekday(day))
    BY <1>3, <1>4, StepForward, StepBack
  <1> QED BY <1>1, <1>5, <1>6

\* Five weekdays from a weekday on are a week.
LEMMA FiveSteps ==
  ASSUME NEW day \in Int
  PROVE  /\ StepWeekdays(day, 5) \in Int /\ StepWeekdays(day, -5) \in Int
         /\ ~IsWeekend(day) => StepWeekdays(day, 5) = day + 7 /\ StepWeekdays(day, -5) = day - 7
  <1> DEFINE Next2(x) == NextWeekday(NextWeekday(x))
             Last2(x) == LastWeekday(LastWeekday(x))
             five == NextWeekday(Next2(Next2(day)))
             back == LastWeekday(Last2(Last2(day)))
  <1>1. Ahead(day, 1 + 1 + 1 + 1 + 1, five) /\ Back(day, 1 + 1 + 1 + 1 + 1, back)
    <2>1. Ahead(day, 1, NextWeekday(day)) /\ Back(day, 1, LastWeekday(day))
      BY FirstAhead, FirstBack
    <2>2. Ahead(day, 1 + 1, Next2(day)) /\ Back(day, 1 + 1, Last2(day))
      BY <2>1, NextAhead, NextBack
    <2>3. Ahead(day, 1 + 1 + 1, NextWeekday(Next2(day))) /\ Back(day, 1 + 1 + 1, LastWeekday(Last2(day)))
      BY <2>2, NextAhead, NextBack
    <2>4. Ahead(day, 1 + 1 + 1 + 1, Next2(Next2(day))) /\ Back(day, 1 + 1 + 1 + 1, Last2(Last2(day)))
      BY <2>3, NextAhead, NextBack
    <2> QED BY <2>4, NextAhead, NextBack
  <1>2. /\ five <= day + 12 /\ (~IsWeekend(day) => five = day + 7)
        /\ day - 12 <= back /\ (~IsWeekend(day) => back = day - 7)
    <2>1. five <= day + 12 /\ (~IsWeekend(day) => five = day + 7)
      <3> DEFINE a == NextWeekday(day)
                 b == NextWeekday(a)
                 c == NextWeekday(b)
                 d == NextWeekday(c)
      <3>1. a \in Int /\ b \in Int /\ c \in Int /\ d \in Int
        BY NextIs
      <3>2. Hop(day, a) /\ Hop(a, b) /\ Hop(b, c) /\ Hop(c, d) /\ Hop(d, five)
        BY <3>1, NextHops
      <3> HIDE DEF a, b, c, d, five
      <3> QED BY <3>1, <3>2 DEF Hop, IsWeekend
    <2>2. day - 12 <= back /\ (~IsWeekend(day) => back = day - 7)
      <3> DEFINE a == LastWeekday(day)
                 b == LastWeekday(a)
                 c == LastWeekday(b)
                 d == LastWeekday(c)
      <3>1. a \in Int /\ b \in Int /\ c \in Int /\ d \in Int
        BY LastIs
      <3>2. HopBack(day, a) /\ HopBack(a, b) /\ HopBack(b, c) /\ HopBack(c, d) /\ HopBack(d, back)
        BY <3>1, LastHops
      <3> HIDE DEF a, b, c, d, back
      <3> QED BY <3>1, <3>2 DEF HopBack, IsWeekend
    <2> QED BY <2>1, <2>2
  <1> HIDE DEF five, back
  <1>3. StepWeekdays(day, 5) = five /\ StepWeekdays(day, -5) = back
    BY <1>1, <1>2, StepForward, StepBack
  <1>4. five \in Int /\ back \in Int
    BY <1>1 DEF Ahead, Back
  <1> QED BY <1>2, <1>3, <1>4

-----------------------------------------------------------------------------
(* What the invariants say.                                                *)

\* Two to MaxDrag days in a row.
RangeOK(dates) ==
  \E first \in Int, last \in Int :
    dates = first..last /\ 1 <= last - first /\ last - first < MaxDrag

IsSeq(s) == \E S : s \in Seq(S)

Kinds ==
  {"Today", "PrevMonth", "NextMonth", "PrevPeriod", "NextPeriod", "Refresh", "SetView",
   "MiniCalendarJumpMonth", "JumpToDate", "SetCustomViewDates"}

\* A message can only make the range view show a range.
MessageOK(m) ==
  /\ m.kind \in Kinds
  /\ m.kind = "SetCustomViewDates" => RangeOK(m.dates)
  /\ m.kind = "SetView" => m.view \in Choosable

\* Every range there is, or may become one: shown, saved, or in a message.
RangesOK ==
  /\ IsSeq(inbox) /\ \A i \in 1..Len(inbox) : MessageOK(inbox[i])
  /\ view \in Views /\ saved.view \in Views
  /\ view = "Custom" => RangeOK(custom)
  /\ saved.view = "Custom" => RangeOK(saved.custom)

MiniKinds == {"PrevMonth", "NextMonth", "MiniCalendarJumpMonth"}

\* The window is as it should be, or a message that paints all of it is waiting.
WillFollow ==
  running =>
    \/ screen = Painting(view, date, custom, mini, settings)
    \/ \E i \in 1..Len(inbox) : inbox[i].kind \notin MiniKinds

-----------------------------------------------------------------------------
(* Ranges of days.                                                         *)

LEMMA RangeIsRange == ASSUME NEW dates, RangeOK(dates) PROVE IsRange(dates) /\ dates # {}
  <1>1. PICK first \in Int, last \in Int :
          dates = first..last /\ 1 <= last - first /\ last - first < MaxDrag
    BY DEF RangeOK
  <1>2. first \in dates /\ last \in dates
    BY <1>1
  <1> QED BY <1>1, <1>2 DEF IsRange

\* Paging moves a range as a whole.
LEMMA RangeMoves ==
  ASSUME NEW dates, RangeOK(dates), NEW direction \in {-1, 1}
  PROVE  RangeOK({x + direction * Cardinality(dates) : x \in dates})
  <1>1. PICK first \in Int, last \in Int :
          dates = first..last /\ 1 <= last - first /\ last - first < MaxDrag
    BY DEF RangeOK
  <1>2. Cardinality(dates) = last - first + 1
    BY <1>1, FS_Interval
  <1> DEFINE d == direction * (last - first + 1)
  <1>3. d \in Int
    BY <1>1
  <1> HIDE DEF d
  <1>4. {x + d : x \in first..last} = first + d..last + d
    <2>1. \A x \in first..last : x + d \in first + d..last + d
      BY <1>3
    <2>2. \A y \in first + d..last + d : y - d \in first..last /\ y = (y - d) + d
      BY <1>3
    <2> QED BY <2>1, <2>2
  <1>5. first + d \in Int /\ last + d \in Int /\ (last + d) - (first + d) = last - first
    BY <1>3
  <1>6. RangeOK({x + d : x \in first..last})
    BY <1>1, <1>4, <1>5 DEF RangeOK
  <1> QED BY <1>1, <1>2, <1>6 DEF d

\* A drag across more than one day gives a range, in whichever direction it went.
LEMMA DragGivesRange ==
  ASSUME NEW origin \in Int, NEW other \in Int, Cardinality(CappedDateRange(origin, other)) >= 2
  PROVE  RangeOK(CappedDateRange(origin, other))
  <1> DEFINE dates == CappedDateRange(origin, other)
  <1>1. origin # other
    <2> SUFFICES ASSUME origin = other PROVE FALSE
      OBVIOUS
    <2>1. dates = {origin}
      BY DEF CappedDateRange, MaxDrag
    <2>2. Cardinality(dates) = 1
      BY <2>1, FS_Singleton
    <2> QED BY <2>2
  <1>2. CASE origin < other
    <2> DEFINE last == IF other < origin + 7 THEN other ELSE origin + 7
    <2>1. dates = origin..last
      BY <1>2 DEF CappedDateRange, MaxDrag
    <2> QED BY <1>2, <2>1 DEF RangeOK, MaxDrag
  <1>3. CASE other < origin
    <2> DEFINE first == IF origin - 7 < other THEN other ELSE origin - 7
    <2>1. dates = first..origin
      BY <1>3 DEF CappedDateRange, MaxDrag
    <2> QED BY <1>3, <2>1 DEF RangeOK, MaxDrag
  <1> QED BY <1>1, <1>2, <1>3

-----------------------------------------------------------------------------
(* The queue.                                                              *)

LEMMA QueueHead ==
  ASSUME NEW s, IsSeq(s), s # <<>>
  PROVE  /\ 1 \in 1..Len(s) /\ Head(s) = s[1]
         /\ IsSeq(Tail(s))
         /\ \A i \in 1..Len(s) : i = 1 \/ (i - 1 \in 1..Len(Tail(s)) /\ Tail(s)[i - 1] = s[i])
         /\ \A i \in 1..Len(Tail(s)) : i + 1 \in 1..Len(s) /\ Tail(s)[i] = s[i + 1]
  <1>1. PICK S : s \in Seq(S)
    BY DEF IsSeq
  <1>2. Tail(s) \in Seq(S)
    BY <1>1
  <1> QED BY <1>1, <1>2 DEF IsSeq

LEMMA QueueGrows ==
  ASSUME NEW s, NEW t, IsSeq(s), IsSeq(t)
  PROVE  /\ IsSeq(s \o t)
         /\ \A i \in 1..Len(s) : i \in 1..Len(s \o t) /\ (s \o t)[i] = s[i]
         /\ \A i \in 1..Len(s \o t) :
              \/ i \in 1..Len(s) /\ (s \o t)[i] = s[i]
              \/ i - Len(s) \in 1..Len(t) /\ (s \o t)[i] = t[i - Len(s)]
  <1>1. PICK S : s \in Seq(S)
    BY DEF IsSeq
  <1>2. PICK T : t \in Seq(T)
    BY DEF IsSeq
  <1>3. s \in Seq(S \cup T) /\ t \in Seq(S \cup T)
    BY <1>1, <1>2
  <1>4. s \o t \in Seq(S \cup T)
    BY <1>3
  <1> QED BY <1>3, <1>4 DEF IsSeq

LEMMA QueueOfOne ==
  ASSUME NEW m
  PROVE  IsSeq(<<m>>) /\ Len(<<m>>) = 1 /\ <<m>>[1] = m
  <1>1. <<m>> \in Seq({m})
    OBVIOUS
  <1> QED BY <1>1 DEF IsSeq

LEMMA QueueOfTwo ==
  ASSUME NEW m, NEW n
  PROVE  IsSeq(<<m, n>>) /\ Len(<<m, n>>) = 2 /\ <<m, n>>[1] = m /\ <<m, n>>[2] = n
  <1>1. <<m, n>> \in Seq({m, n})
    OBVIOUS
  <1> QED BY <1>1 DEF IsSeq

LEMMA QueueEmpty == IsSeq(<<>>) /\ Len(<<>>) = 0
  <1>1. <<>> \in Seq({})
    OBVIOUS
  <1> QED BY <1>1 DEF IsSeq

\* What a click queues, whatever it is on.
LEMMA ClicksOK ==
  ASSUME NEW batch \in HeaderClicks \cup MiniClicks \cup HeadingClicks
  PROVE  IsSeq(batch) /\ \A i \in 1..Len(batch) : MessageOK(batch[i])
  <1>1. ASSUME NEW m, batch = <<m>>, MessageOK(m)
        PROVE  IsSeq(batch) /\ \A i \in 1..Len(batch) : MessageOK(batch[i])
    BY <1>1, QueueOfOne
  <1>2. CASE batch \in HeaderClicks
    BY <1>1, <1>2 DEF HeaderClicks, MessageOK, Kinds
  <1>3. CASE batch \in MiniClicks
    <2>1. CASE \E r \in RangeDrops : batch = <<[kind |-> "SetCustomViewDates", dates |-> r]>>
      <3>1. PICK r \in RangeDrops : batch = <<[kind |-> "SetCustomViewDates", dates |-> r]>>
        BY <2>1
      <3>2. RangeOK(r)
        <4>1. PICK d \in (MiniCells \cap PickDays) \X (MiniCells \cap PickDays) :
                r = CappedDateRange(d[1], d[2]) /\ Cardinality(r) >= 2
          BY DEF RangeDrops
        <4>2. d[1] \in Int /\ d[2] \in Int
          BY NavigationAssumption
        <4> QED BY <4>1, <4>2, DragGivesRange
      <3> QED BY <1>1, <3>1, <3>2 DEF MessageOK, Kinds
    <2> QED BY <1>1, <1>3, <2>1 DEF MiniClicks, MessageOK, Kinds
  <1>4. CASE batch \in HeadingClicks
    <2>1. \E day, v : /\ v \in Choosable
                      /\ batch = <<[kind |-> "JumpToDate", date |-> day],
                                   [kind |-> "SetView", view |-> v]>>
      <3>1. CASE screen.view = "Year"
        BY <3>1, <1>4 DEF HeadingClicks, Choosable
      <3>2. CASE screen.view \in {"Month", "Schedule"}
        BY <3>2, <1>4 DEF HeadingClicks, Choosable
      <3> QED BY <3>1, <3>2, <1>4 DEF HeadingClicks
    <2>2. PICK day, v : /\ v \in Choosable
                        /\ batch = <<[kind |-> "JumpToDate", date |-> day],
                                     [kind |-> "SetView", view |-> v]>>
      BY <2>1
    <2> QED BY <2>2, QueueOfTwo DEF MessageOK, Kinds
  <1> QED BY <1>2, <1>3, <1>4

-----------------------------------------------------------------------------
(* The range view has a range.                                             *)

\* A handler uses up its message and, if that is in order, leaves ranges in order.
LEMMA HandleRanges == ASSUME RangesOK, Handle PROVE RangesOK'
  <1> DEFINE m == Head(inbox)
  <1>1. IsSeq(inbox) /\ inbox # <<>> /\ inbox' = Tail(inbox) /\ UNCHANGED saved
    BY DEF RangesOK, Handle
  <1>2. MessageOK(m) /\ IsSeq(inbox') /\ \A i \in 1..Len(inbox') : MessageOK(inbox'[i])
    BY <1>1, QueueHead DEF RangesOK
  <1>3. view' \in Views /\ (view' = "Custom" => RangeOK(custom'))
    <2>1. ASSUME NEW direction \in {-1, 1}, Period(direction)
          PROVE  view' \in Views /\ (view' = "Custom" => RangeOK(custom'))
      <3>1. view' = view /\ view \in Views /\ (view = "Custom" => RangeOK(custom))
        BY <2>1 DEF Period, RangesOK
      <3>2. CASE view = "Custom"
        <4>1. custom' = {x + direction * Cardinality(custom) : x \in custom}
          BY <2>1, <3>2 DEF Period
        <4> QED BY <3>1, <3>2, <4>1, RangeMoves
      <3>3. CASE view # "Custom"
        BY <3>1, <3>3
      <3> QED BY <3>2, <3>3
    <2>2. ASSUME view' \in Choosable PROVE view' \in Views /\ view' # "Custom"
      BY <2>2 DEF Views, Choosable
    <2>3. ASSUME UNCHANGED <<view, custom>>
          PROVE  view' \in Views /\ (view' = "Custom" => RangeOK(custom'))
      BY <2>3 DEF RangesOK
    <2>4. CASE m.kind = "SetCustomViewDates"
      BY <2>4, <1>2 DEF Handle, SetCustomViewDates, MessageOK, Views
    <2>5. CASE m.kind = "JumpToDate"
      <3>1. view' = "Day" \/ UNCHANGED view
        BY <2>5 DEF Handle, JumpToDate
      <3>2. UNCHANGED custom
        BY <2>5 DEF Handle, JumpToDate
      <3> QED BY <3>1, <3>2, <2>2, <2>3 DEF Choosable
    <2>6. CASE m.kind = "SetView"
      <3>1. view' = m.view
        BY <2>6 DEF Handle, SetView
      <3> QED BY <3>1, <2>2, <2>6, <1>2 DEF MessageOK
    <2>7. CASE m.kind \in {"PrevPeriod", "NextPeriod"}
      BY <2>1, <2>7 DEF Handle
    <2>8. CASE m.kind \in {"Today", "PrevMonth", "NextMonth", "MiniCalendarJumpMonth", "Refresh"}
      <3>1. UNCHANGED <<view, custom>>
        BY <2>8 DEF Handle, GoToday, PageMini, JumpMini, Repaint, model
      <3> QED BY <3>1, <2>3
    <2> QED BY <2>4, <2>5, <2>6, <2>7, <2>8, <1>2 DEF MessageOK, Kinds
  <1> QED BY <1>1, <1>2, <1>3 DEF RangesOK

\* What a start queues.
LEMMA RestoreOK ==
  ASSUME NEW v \in Views, NEW day, NEW dates, v = "Custom" => RangeOK(dates)
  PROVE  /\ IsSeq(Restore(v, day, dates))
         /\ \A i \in 1..Len(Restore(v, day, dates)) : MessageOK(Restore(v, day, dates)[i])
  <1>1. ASSUME NEW m, Restore(v, day, dates) = <<m>>, MessageOK(m)
        PROVE  /\ IsSeq(Restore(v, day, dates))
               /\ \A i \in 1..Len(Restore(v, day, dates)) : MessageOK(Restore(v, day, dates)[i])
    BY <1>1, QueueOfOne
  <1>2. CASE v = "Custom"
    <2>1. Restore(v, day, dates) = <<[kind |-> "SetCustomViewDates", dates |-> dates]>>
      BY <1>2, RangeIsRange DEF Restore, Choosable
    <2> QED BY <1>1, <1>2, <2>1 DEF MessageOK, Kinds
  <1>3. CASE v \in Choosable \ {"Month"}
    <2>1. Restore(v, day, dates) = <<[kind |-> "SetView", view |-> v]>>
      BY <1>3 DEF Restore, Choosable
    <2> QED BY <1>1, <1>3, <2>1 DEF MessageOK, Kinds
  <1>4. CASE v = "Month" /\ day # today
    <2>1. Restore(v, day, dates) = <<[kind |-> "JumpToDate", date |-> day]>>
      BY <1>4 DEF Restore
    <2> QED BY <1>1, <2>1 DEF MessageOK, Kinds
  <1>5. CASE v = "Month" /\ day = today
    <2>1. Restore(v, day, dates) = <<>>
      BY <1>5 DEF Restore
    <2> QED BY <2>1, QueueEmpty
  <1> QED BY <1>2, <1>3, <1>4, <1>5 DEF Views

LEMMA RangesNext == RangesOK /\ [Next]_vars => RangesOK'
  <1> SUFFICES ASSUME RangesOK, [Next]_vars PROVE RangesOK'
    OBVIOUS
  <1>1. ASSUME UNCHANGED <<model, saved>>,
               IsSeq(inbox'), \A i \in 1..Len(inbox') : MessageOK(inbox'[i])
        PROVE  RangesOK'
    BY <1>1 DEF RangesOK, model
  <1>2. CASE Click
    <2>1. PICK batch \in HeaderClicks \cup MiniClicks \cup HeadingClicks : inbox' = inbox \o batch
      BY <1>2 DEF Click
    <2> QED BY <1>1, <1>2, <2>1, ClicksOK, QueueGrows DEF Click, RangesOK
  <1>3. CASE ChangeSettings
    <2> DEFINE m == [kind |-> "Refresh"]
    <2>1. IsSeq(<<m>>) /\ \A i \in 1..Len(<<m>>) : MessageOK(<<m>>[i])
      BY QueueOfOne DEF MessageOK, Kinds
    <2>2. inbox' = inbox \o <<m>>
      <3>1. PICK S : inbox \in Seq(S)
        BY DEF RangesOK, IsSeq
      <3>2. inbox \in Seq(S \cup {m})
        BY <3>1
      <3> QED BY <1>3, <3>2 DEF ChangeSettings, Announce
    <2> QED BY <1>1, <1>3, <2>1, <2>2, QueueGrows DEF ChangeSettings, RangesOK
  <1>4. CASE Resize
    <2>1. inbox' = <<[kind |-> "Refresh"]>>
      BY <1>4 DEF Resize
    <2>2. IsSeq(inbox') /\ \A i \in 1..Len(inbox') : MessageOK(inbox'[i])
      BY <2>1, QueueOfOne DEF MessageOK, Kinds
    <2> QED BY <1>1, <1>4, <2>2 DEF Resize
  <1>5. CASE Midnight \/ UNCHANGED vars
    BY <1>1, <1>5 DEF Midnight, vars, RangesOK
  <1>6. CASE Close \/ CloseFails
    <2>1. inbox' = <<>> /\ UNCHANGED model
      BY <1>6 DEF Close, CloseFails
    <2>2. \/ saved' = saved
          \/ saved'.view = view /\ (view = "Custom" => saved'.custom = custom)
      BY <1>6 DEF Close, CloseFails, Remembered
    <2> QED BY <2>1, <2>2, QueueEmpty DEF RangesOK, model
  <1>7. CASE Open
    <2>1. view' = "Month" /\ UNCHANGED saved /\ inbox' = Restore(saved.view, date', saved.custom)
      BY <1>7 DEF Open
    <2>2. IsSeq(inbox') /\ \A i \in 1..Len(inbox') : MessageOK(inbox'[i])
      BY <2>1, RestoreOK DEF RangesOK
    <2> QED BY <2>1, <2>2 DEF RangesOK, Views, Choosable
  <1> QED BY <1>2, <1>3, <1>4, <1>5, <1>6, <1>7, HandleRanges DEF Next

LEMMA RangesInit == Init => RangesOK
  BY QueueEmpty DEF Init, RangesOK, Views, Choosable

\* However it was dragged, paged, left, closed over and reopened, the range view shows two to
\* eight days in a row, which its title and its columns index into.
THEOREM RangesAreSound == Spec => []CustomRange
  <1>1. RangesOK => CustomRange
    BY RangeIsRange DEF RangesOK, CustomRange
  <1> QED BY <1>1, RangesInit, RangesNext, PTL DEF Spec

-----------------------------------------------------------------------------
(* The screen.                                                             *)

LEMMA HandleFollows == ASSUME RangesOK, WillFollow, Handle PROVE WillFollow'
  <1> DEFINE m == Head(inbox)
  <1>1. /\ running /\ IsSeq(inbox) /\ inbox # <<>> /\ inbox' = Tail(inbox)
        /\ UNCHANGED settings
    BY DEF RangesOK, Handle
  <1>2. m = inbox[1] /\ MessageOK(m)
    BY <1>1, QueueHead DEF RangesOK
  <1>3. CASE m.kind \in MiniKinds
    <2>1. RefreshMini /\ UNCHANGED <<view, date, custom>>
      BY <1>3 DEF Handle, MiniKinds, PageMini, JumpMini
    <2>2. CASE screen = Painting(view, date, custom, mini, settings)
      BY <2>1, <2>2, <1>1 DEF WillFollow, RefreshMini, Painting
    <2>3. CASE \E i \in 1..Len(inbox) : inbox[i].kind \notin MiniKinds
      <3>1. PICK i \in 1..Len(inbox) : inbox[i].kind \notin MiniKinds
        BY <2>3
      <3>2. i # 1
        BY <3>1, <1>2, <1>3
      <3>3. i - 1 \in 1..Len(inbox') /\ inbox'[i - 1] = inbox[i]
        BY <1>1, <3>2, QueueHead
      <3> QED BY <3>1, <3>3 DEF WillFollow
    <2> QED BY <1>1, <2>2, <2>3 DEF WillFollow
  <1>4. CASE m.kind \notin MiniKinds
    <2>1. Refresh
      BY <1>2, <1>4 DEF MessageOK, Kinds, MiniKinds, Handle, Period, GoToday, SetView,
                        SetCustomViewDates, JumpToDate, Repaint
    <2> QED BY <2>1, <1>1 DEF WillFollow, Refresh
  <1> QED BY <1>3, <1>4

LEMMA FollowNext == RangesOK /\ WillFollow /\ [Next]_vars => WillFollow'
  <1> SUFFICES ASSUME RangesOK, WillFollow, [Next]_vars PROVE WillFollow'
    OBVIOUS
  <1>1. CASE Click
    <2>1. PICK batch \in HeaderClicks \cup MiniClicks \cup HeadingClicks : inbox' = inbox \o batch
      BY <1>1 DEF Click
    <2>2. IsSeq(inbox) /\ IsSeq(batch)
      BY ClicksOK DEF RangesOK
    <2>3. \A i \in 1..Len(inbox) : i \in 1..Len(inbox') /\ inbox'[i] = inbox[i]
      BY <2>1, <2>2, QueueGrows
    <2> QED BY <1>1, <2>3 DEF Click, WillFollow, model
  <1>2. CASE ChangeSettings
    <2>1. PICK S : inbox \in Seq(S)
      BY DEF RangesOK, IsSeq
    <2>2. inbox \in Seq(S \cup {[kind |-> "Refresh"]})
      BY <2>1
    <2>3. Len(inbox') \in 1..Len(inbox') /\ inbox'[Len(inbox')] = [kind |-> "Refresh"]
      BY <1>2, <2>2 DEF ChangeSettings, Announce
    <2> QED BY <2>3 DEF WillFollow, MiniKinds
  <1>3. CASE Resize
    <2>1. 1 \in 1..Len(inbox') /\ inbox'[1].kind = "Refresh"
      BY <1>3, QueueOfOne DEF Resize
    <2> QED BY <2>1 DEF WillFollow, MiniKinds
  <1>4. CASE Midnight \/ UNCHANGED vars
    BY <1>4 DEF Midnight, vars, model, WillFollow
  <1>5. CASE Close \/ CloseFails
    BY <1>5 DEF Close, CloseFails, WillFollow
  <1>6. CASE Open
    <2>1. inbox' = Restore(saved.view, date', saved.custom) /\ UNCHANGED <<saved, today, settings>>
      BY <1>6 DEF Open
    <2>2. ASSUME NEW k, inbox' = <<k>>, k.kind \notin MiniKinds PROVE WillFollow'
      BY <2>2, QueueOfOne DEF WillFollow
    <2>3. CASE saved.view = "Custom"
      <3>1. inbox' = <<[kind |-> "SetCustomViewDates", dates |-> saved.custom]>>
        BY <2>1, <2>3, RangeIsRange DEF Restore, RangesOK, Choosable
      <3> QED BY <3>1, <2>2 DEF MiniKinds
    <2>4. CASE saved.view \in Choosable \ {"Month"}
      <3>1. inbox' = <<[kind |-> "SetView", view |-> saved.view]>>
        BY <2>1, <2>4 DEF Restore, Choosable
      <3> QED BY <3>1, <2>2 DEF MiniKinds
    <2>5. CASE saved.view = "Month" /\ date' # today
      <3>1. inbox' = <<[kind |-> "JumpToDate", date |-> date']>>
        BY <2>1, <2>5 DEF Restore
      <3> QED BY <3>1, <2>2 DEF MiniKinds
    <2>6. CASE saved.view = "Month" /\ date' = today
      <3>1. /\ view' = "Month" /\ mini' = None
            /\ screen' = [Painting("Month", today, {}, None, settings) EXCEPT !.mini = MonthOf(date')]
        BY <1>6 DEF Open
      <3>2. screen' = Painting("Month", date', custom', None, settings')
        BY <2>1, <2>6, <3>1 DEF Painting, Shown, MiniMonth
      <3> QED BY <3>1, <3>2 DEF WillFollow
    <2> QED BY <2>3, <2>4, <2>5, <2>6 DEF RangesOK, Views
  <1> QED BY <1>1, <1>2, <1>3, <1>4, <1>5, <1>6, HandleFollows DEF Next

\* Whatever was clicked, set, closed and opened in whatever order, a window with nothing left to
\* handle shows the view, days, month and range that the model and the settings say.
THEOREM ScreenIsCurrent == Spec => []ScreenFollows
  <1>1. Init => WillFollow
    BY DEF Init, WillFollow
  <1>2. WillFollow => ScreenFollows
    BY QueueEmpty DEF WillFollow, ScreenFollows
  <1> QED BY <1>1, <1>2, RangesInit, RangesNext, FollowNext, PTL DEF Spec

-----------------------------------------------------------------------------
(* Types.                                                                  *)

LEMMA EarliestIs ==
  ASSUME NEW days, NEW d \in days, days \subseteq Int, \A x \in days : d <= x
  PROVE  Earliest(days) = d
  <1>1. \A x \in days : (\A y \in days : x <= y) => x = d
    OBVIOUS
  <1> QED BY <1>1 DEF Earliest

LEMMA LatestIs ==
  ASSUME NEW days, NEW d \in days, days \subseteq Int, \A x \in days : d >= x
  PROVE  Latest(days) = d
  <1>1. \A x \in days : (\A y \in days : x >= y) => x = d
    OBVIOUS
  <1> QED BY <1>1 DEF Latest

LEMMA RangeEnds ==
  ASSUME NEW dates, RangeOK(dates)
  PROVE  /\ dates \subseteq Int /\ dates # {}
         /\ Earliest(dates) \in Int /\ Latest(dates) \in Int
         /\ dates = Earliest(dates)..Latest(dates)
         /\ Cardinality(dates) = Latest(dates) - Earliest(dates) + 1
         /\ Earliest(dates) < Latest(dates)
  <1>1. PICK first \in Int, last \in Int :
          dates = first..last /\ 1 <= last - first /\ last - first < MaxDrag
    BY DEF RangeOK
  <1>2. first \in dates /\ last \in dates /\ dates \subseteq Int
    BY <1>1
  <1>3. /\ \A x \in dates : first <= x
        /\ \A x \in dates : last >= x
    BY <1>1
  <1>4. Earliest(dates) = first
    BY <1>2, <1>3, EarliestIs
  <1>5. Latest(dates) = last
    BY <1>2, <1>3, LatestIs
  <1>6. Cardinality(dates) = last - first + 1
    BY <1>1, FS_Interval
  <1> QED BY <1>1, <1>2, <1>4, <1>5, <1>6

LEMMA ShiftType ==
  ASSUME NEW day \in Int, NEW delta \in Int
  PROVE  ShiftMonth(day, delta) \in Int
  <1>1. MonthOf(day) + delta \in Int
    BY MonthOfDay
  <1> QED BY <1>1, MonthLength DEF ShiftMonth

LEMMA StepType ==
  ASSUME TypeOK, view # "Custom", NEW direction \in {-1, 1}
  PROVE  Step(direction) \in Int
  <1>1. date \in Int
    BY DEF TypeOK
  <1>2. ShiftMonth(date, direction) \in Int /\ ShiftMonth(date, 12 * direction) \in Int
    BY <1>1, ShiftType
  <1>3. StepWeekdays(date, 5 * direction) \in Int
    BY <1>1, FiveSteps
  <1>4. date + direction * (IF settings.range = 0 THEN 1 ELSE settings.range) \in Int
    <2>1. settings.range \in Ranges
      BY DEF TypeOK, Settings
    <2>2. Ranges \subseteq Int
      BY NavigationAssumption
    <2>3. settings.range \in Int
      BY <2>1, <2>2
    <2>4. CASE direction = 1
      BY <1>1, <2>3, <2>4
    <2>5. CASE direction = -1
      BY <1>1, <2>3, <2>5
    <2> QED BY <2>4, <2>5
  <1>5. view \in Choosable /\ settings.weekends \in BOOLEAN
    BY DEF TypeOK, Views, Settings
  <1> QED BY <1>1, <1>2, <1>3, <1>4, <1>5 DEF Step, Choosable

\* What a message carries.
LEMMA MessageParts ==
  ASSUME NEW m \in Message
  PROVE  /\ m.kind \in Kinds
         /\ m.kind = "SetView" => m.view \in Choosable
         /\ m.kind \in {"MiniCalendarJumpMonth", "JumpToDate"} => m.date \in Int
         /\ m.kind = "SetCustomViewDates" => m.dates \subseteq Int
  BY DEF Message, Kinds

LEMMA ClicksType ==
  ASSUME NEW batch \in HeaderClicks \cup MiniClicks \cup HeadingClicks
  PROVE  batch \in Seq(Message)
  <1>1. ASSUME NEW m \in Message, batch = <<m>> PROVE batch \in Seq(Message)
    BY <1>1
  <1>2. CASE batch \in HeaderClicks
    <2>1. CASE \E k \in {"Today", "PrevPeriod", "NextPeriod"} : batch = <<[kind |-> k]>>
      BY <1>1, <2>1 DEF Message
    <2>2. CASE \E v \in Choosable : batch = <<[kind |-> "SetView", view |-> v]>>
      BY <1>1, <2>2 DEF Message
    <2> QED BY <1>2, <2>1, <2>2 DEF HeaderClicks
  <1>3. CASE batch \in MiniClicks
    <2>1. CASE \E k \in {"PrevMonth", "NextMonth"} : batch = <<[kind |-> k]>>
      BY <1>1, <2>1 DEF Message
    <2>2. CASE \E m \in PickMonths : batch = <<[kind |-> "MiniCalendarJumpMonth", date |-> FirstOf(m)]>>
      <3>1. \A m \in PickMonths : FirstOf(m) \in Int
        BY NavigationAssumption, MonthLength
      <3> QED BY <1>1, <2>2, <3>1 DEF Message
    <2>3. CASE \E d \in PickDays : batch = <<[kind |-> "JumpToDate", date |-> d]>>
      BY <1>1, <2>3, NavigationAssumption DEF Message
    <2>4. CASE \E r \in RangeDrops : batch = <<[kind |-> "SetCustomViewDates", dates |-> r]>>
      <3>1. PICK r \in RangeDrops : batch = <<[kind |-> "SetCustomViewDates", dates |-> r]>>
        BY <2>4
      <3>2. r \in SUBSET Int
        <4>1. PICK d \in (MiniCells \cap PickDays) \X (MiniCells \cap PickDays) :
                r = CappedDateRange(d[1], d[2])
          BY DEF RangeDrops
        <4>2. d[1] \in Int
          BY NavigationAssumption
        <4> QED BY <4>1, <4>2 DEF CappedDateRange, MaxDrag
      <3> QED BY <1>1, <3>1, <3>2 DEF Message
    <2> QED BY <1>3, <2>1, <2>2, <2>3, <2>4 DEF MiniClicks
  <1>4. CASE batch \in HeadingClicks
    <2>1. \E day \in Int, v \in Choosable :
            batch = <<[kind |-> "JumpToDate", date |-> day], [kind |-> "SetView", view |-> v]>>
      <3>1. CASE screen.view = "Year"
        <4>1. \A m \in PickMonths : FirstOf(m) \in Int
          BY NavigationAssumption, MonthLength
        <4> QED BY <3>1, <1>4, <4>1 DEF HeadingClicks, Choosable
      <3>2. CASE screen.view \in {"Month", "Schedule"}
        BY <3>2, <1>4, NavigationAssumption DEF HeadingClicks, Choosable
      <3> QED BY <3>1, <3>2, <1>4 DEF HeadingClicks
    <2>2. PICK day \in Int, v \in Choosable :
            batch = <<[kind |-> "JumpToDate", date |-> day], [kind |-> "SetView", view |-> v]>>
      BY <2>1
    <2>3. [kind |-> "JumpToDate", date |-> day] \in Message /\ [kind |-> "SetView", view |-> v] \in Message
      BY DEF Message
    <2> QED BY <2>2, <2>3
  <1> QED BY <1>2, <1>3, <1>4

\* A handler leaves the model in order.
LEMMA HandleType == ASSUME TypeOK, RangesOK, Handle PROVE TypeOK'
  <1> DEFINE m == Head(inbox)
             ModelOK == view \in Views /\ date \in Int /\ custom \subseteq Int /\ mini \in Int \cup {None}
  <1>1. inbox \in Seq(Message) /\ inbox # <<>> /\ inbox' = Tail(inbox) /\ ModelOK
        /\ UNCHANGED <<running, settings, saved, today>>
    BY DEF TypeOK, Handle
  <1>2. m \in Message /\ inbox' \in Seq(Message)
    BY <1>1
  <1>3. /\ m.kind \in Kinds
        /\ m.kind = "SetView" => m.view \in Choosable
        /\ m.kind \in {"MiniCalendarJumpMonth", "JumpToDate"} => m.date \in Int
        /\ m.kind = "SetCustomViewDates" => m.dates \subseteq Int /\ RangeOK(m.dates)
    <2>1. MessageOK(m)
      BY <1>1, QueueHead DEF RangesOK
    <2> QED BY <1>2, <2>1, MessageParts DEF MessageOK
  <1>4. ModelOK'
    <2>1. ASSUME NEW direction \in {-1, 1}, Period(direction) PROVE ModelOK'
      <3>1. CASE view = "Custom"
        <4>1. RangeOK(custom) /\ RangeOK(custom')
          <5>1. RangeOK(custom)
            BY <3>1 DEF RangesOK
          <5>2. custom' = {x + direction * Cardinality(custom) : x \in custom}
            BY <2>1, <3>1 DEF Period
          <5>3. RangeOK({x + direction * Cardinality(custom) : x \in custom})
            BY <5>1, RangeMoves
          <5> QED BY <5>1, <5>2, <5>3
        <4>2. custom # {} /\ custom' \subseteq Int /\ Earliest(custom') \in Int
          BY <4>1, RangeEnds
        <4> QED BY <1>1, <2>1, <3>1, <4>2 DEF Period
      <3>2. CASE view # "Custom"
        BY <1>1, <2>1, <3>2, StepType DEF Period
      <3> QED BY <3>1, <3>2
    <2>2. ASSUME NEW direction \in {-1, 1}, PageMini(direction) PROVE ModelOK'
      <3>1. (IF mini = None THEN date ELSE mini) \in Int /\ direction \in Int
        BY <1>1
      <3>2. ShiftMonth(IF mini = None THEN date ELSE mini, direction) \in Int
        BY <3>1, ShiftType
      <3>3. mini' \in Int
        BY <2>2, <3>2 DEF PageMini
      <3> QED BY <1>1, <2>2, <3>3 DEF PageMini
    <2>3. CASE m.kind \in {"PrevPeriod", "NextPeriod"}
      BY <2>1, <2>3 DEF Handle
    <2>4. CASE m.kind \in {"PrevMonth", "NextMonth"}
      BY <2>2, <2>4 DEF Handle
    <2>5. CASE m.kind = "MiniCalendarJumpMonth"
      BY <1>1, <1>3, <2>5 DEF Handle, JumpMini
    <2>6. CASE m.kind = "Today"
      BY <1>1, <2>6 DEF Handle, GoToday, TypeOK
    <2>7. CASE m.kind = "SetView"
      BY <1>1, <1>3, <2>7 DEF Handle, SetView, Views
    <2>8. CASE m.kind = "SetCustomViewDates"
      <3>1. Earliest(m.dates) \in Int
        BY <1>3, <2>8, RangeEnds
      <3> QED BY <1>1, <1>3, <2>8, <3>1 DEF Handle, SetCustomViewDates, Views
    <2>9. CASE m.kind = "JumpToDate"
      BY <1>1, <1>3, <2>9 DEF Handle, JumpToDate, Views, Choosable
    <2>10. CASE m.kind = "Refresh"
      BY <1>1, <2>10 DEF Handle, Repaint, model
    <2> QED BY <1>3, <2>3, <2>4, <2>5, <2>6, <2>7, <2>8, <2>9, <2>10 DEF Kinds
  <1> QED BY <1>1, <1>2, <1>4 DEF TypeOK

LEMMA TypeNext == TypeOK /\ RangesOK /\ [Next]_vars => TypeOK'
  <1> SUFFICES ASSUME TypeOK, RangesOK, [Next]_vars PROVE TypeOK'
    OBVIOUS
  <1>1. CASE Click
    <2>1. PICK batch \in HeaderClicks \cup MiniClicks \cup HeadingClicks : inbox' = inbox \o batch
      BY <1>1 DEF Click
    <2>2. batch \in Seq(Message)
      BY ClicksType
    <2>3. inbox' \in Seq(Message)
      BY <2>1, <2>2 DEF TypeOK
    <2> QED BY <1>1, <2>3 DEF Click, TypeOK, model
  <1>2. CASE ChangeSettings
    <2>1. [kind |-> "Refresh"] \in Message
      BY DEF Message
    <2>2. inbox' \in Seq(Message)
      BY <1>2, <2>1 DEF ChangeSettings, Announce, TypeOK
    <2> QED BY <1>2, <2>2 DEF ChangeSettings, TypeOK, model
  <1>3. CASE Resize
    <2>1. [kind |-> "Refresh"] \in Message
      BY DEF Message
    <2>2. inbox' \in Seq(Message)
      BY <1>3, <2>1 DEF Resize
    <2> QED BY <1>3, <2>2 DEF Resize, TypeOK, model
  <1>4. CASE Midnight
    <2>1. today' \in Int
      BY <1>4 DEF Midnight, TypeOK
    <2> QED BY <1>4, <2>1 DEF Midnight, model, TypeOK
  <1>5. CASE UNCHANGED vars
    BY <1>5 DEF vars, model, TypeOK
  <1>6. CASE Close \/ CloseFails
    <2>1. inbox' \in Seq(Message) /\ running' = FALSE
      <3>1. inbox' = <<>> /\ running' = FALSE
        BY <1>6 DEF Close, CloseFails
      <3>2. <<>> \in Seq(Message)
        OBVIOUS
      <3> QED BY <3>1, <3>2
    <2>2. saved' = saved \/ saved' = Remembered
      BY <1>6 DEF Close, CloseFails
    <2>3. Remembered \in [view : Views, date : Int \cup {None}, custom : SUBSET Int]
      BY DEF Remembered, TypeOK
    <2> QED BY <1>6, <2>1, <2>2, <2>3 DEF Close, CloseFails, TypeOK, model
  <1>7. CASE Open
    <2>1. /\ saved.view \in Views /\ saved.date \in Int \cup {None} /\ saved.custom \in SUBSET Int
          /\ running' = TRUE /\ view' = "Month" /\ mini' = None /\ custom' = saved.custom
          /\ date' = (IF saved.date = None THEN today ELSE saved.date)
          /\ inbox' = Restore(saved.view, date', saved.custom)
          /\ UNCHANGED <<settings, saved, today>>
      BY <1>7 DEF Open, TypeOK
    <2>2. date' \in Int
      BY <2>1 DEF TypeOK
    <2>3. inbox' \in Seq(Message)
      <3>1. ASSUME NEW k \in Message, inbox' = <<k>> PROVE inbox' \in Seq(Message)
        BY <3>1
      <3>2. CASE saved.view = "Custom" /\ saved.custom # {}
        <4>1. inbox' = <<[kind |-> "SetCustomViewDates", dates |-> saved.custom]>>
          BY <2>1, <3>2 DEF Restore, Choosable
        <4> QED BY <2>1, <3>1, <4>1 DEF Message
      <3>3. CASE saved.view \in Choosable \ {"Month"}
        <4>1. inbox' = <<[kind |-> "SetView", view |-> saved.view]>>
          BY <2>1, <3>3 DEF Restore, Choosable
        <4> QED BY <3>1, <3>3, <4>1 DEF Message
      <3>4. CASE saved.view = "Month" /\ date' # today
        <4>1. inbox' = <<[kind |-> "JumpToDate", date |-> date']>>
          BY <2>1, <3>4 DEF Restore
        <4> QED BY <2>2, <3>1, <4>1 DEF Message
      <3>5. CASE (saved.view = "Custom" /\ saved.custom = {}) \/ (saved.view = "Month" /\ date' = today)
        <4>1. inbox' = <<>>
          BY <2>1, <3>5 DEF Restore, Choosable
        <4> QED BY <4>1
      <3> QED BY <2>1, <3>2, <3>3, <3>4, <3>5 DEF Views
    <2> QED BY <2>1, <2>2, <2>3 DEF TypeOK, Views, Choosable
  <1> QED BY <1>1, <1>2, <1>3, <1>4, <1>5, <1>6, <1>7, HandleType DEF Next

LEMMA TypeInit == Init => TypeOK
  <1> SUFFICES ASSUME Init PROVE TypeOK
    OBVIOUS
  <1>1. inbox \in Seq(Message) /\ settings \in Settings /\ running \in BOOLEAN
    <2>1. <<>> \in Seq(Message)
      OBVIOUS
    <2> QED BY <2>1 DEF Init
  <1>2. view \in Views /\ date \in Int /\ custom \subseteq Int /\ mini \in Int \cup {None} /\ today \in Int
    BY NavigationAssumption DEF Init, Views, Choosable
  <1>3. saved \in [view : Views, date : Int \cup {None}, custom : SUBSET Int]
    BY DEF Init, Views, Choosable
  <1> QED BY <1>1, <1>2, <1>3 DEF TypeOK

\* Dates stay dates and messages stay messages: whatever is clicked, paged, dragged, saved and
\* restored, every anchor is a day, which for months and weekdays takes the calendar.
THEOREM TypeCorrect == Spec => []TypeOK
  BY TypeInit, TypeNext, RangesInit, RangesNext, PTL DEF Spec

-----------------------------------------------------------------------------
(* A window comes back as it was.                                          *)

\* The message that brings the saved view back is waiting.
Restoring ==
  /\ view = "Month" /\ date = saved.date
  /\ \/ saved.view = "Custom" /\ inbox = <<[kind |-> "SetCustomViewDates", dates |-> saved.custom]>>
     \/ saved.view \in Choosable /\ inbox = <<[kind |-> "SetView", view |-> saved.view]>>
     \/ saved.view = "Month" /\ inbox = <<[kind |-> "JumpToDate", date |-> saved.date]>>

\* It has done its work, and nothing that waits undoes it.
Restored ==
  /\ view = saved.view /\ Shown(view, date, custom, settings) = closing.days
  /\ \A i \in 1..Len(inbox) : inbox[i].kind = "Refresh"

\* What was on screen is what was saved, and what a new window shows or is about to.
ComesBack ==
  closing # None =>
    /\ saved.date # None
    /\ closing.view = saved.view
    /\ closing.days = Shown(saved.view, saved.date, saved.custom, settings)
    /\ running => Restoring \/ Restored

\* Only the range view looks at the range.
LEMMA RangeUnused ==
  ASSUME NEW v \in Choosable, NEW day, NEW a, NEW b, NEW s
  PROVE  Shown(v, day, a, s) = Shown(v, day, b, s)
  BY DEF Shown, Choosable

LEMMA RangeShown == ASSUME NEW day, NEW dates, NEW s PROVE Shown("Custom", day, dates, s) = dates
  BY DEF Shown

LEMMA OneWaits ==
  ASSUME NEW m, inbox = <<m>>
  PROVE  inbox # <<>> /\ Head(inbox) = m /\ Tail(inbox) = <<>> /\ Len(<<>>) = 0
  OBVIOUS

LEMMA HandleBack == ASSUME RangesOK, ComesBack, Handle PROVE ComesBack'
  <1> SUFFICES ASSUME closing' # None PROVE Restored'
    BY DEF Handle, ComesBack
  <1>1. /\ running /\ IsSeq(inbox) /\ inbox # <<>> /\ inbox' = Tail(inbox)
        /\ UNCHANGED <<settings, saved, closing>>
    BY DEF RangesOK, Handle
  <1>2. /\ saved.date # None /\ closing.view = saved.view
        /\ closing.days = Shown(saved.view, saved.date, saved.custom, settings)
        /\ Restoring \/ Restored
    BY <1>1 DEF ComesBack
  <1>3. CASE Restored
    <2>1. Head(inbox).kind = "Refresh"
      BY <1>1, <1>3, QueueHead DEF Restored
    <2>2. UNCHANGED model
      BY <2>1 DEF Handle, Repaint
    <2>3. \A i \in 1..Len(inbox') : inbox'[i].kind = "Refresh"
      BY <1>1, <1>3, QueueHead DEF Restored
    <2> QED BY <1>1, <1>3, <2>2, <2>3 DEF Restored, model
  <1>4. CASE Restoring
    <2>1. ASSUME inbox' = <<>>, view' = saved.view,
                 Shown(view', date', custom', settings) = Shown(saved.view, saved.date, saved.custom, settings)
          PROVE  Restored'
      <3>1. \A i \in 1..Len(inbox') : FALSE
        BY <2>1, QueueEmpty
      <3> QED BY <1>1, <1>2, <2>1, <3>1 DEF Restored
    <2>2. CASE saved.view = "Custom" /\ inbox = <<[kind |-> "SetCustomViewDates", dates |-> saved.custom]>>
      <3>1. Head(inbox).kind = "SetCustomViewDates" /\ Head(inbox).dates = saved.custom
        BY <2>2, OneWaits
      <3>2. SetCustomViewDates(saved.custom)
        BY <3>1 DEF Handle
      <3>3. view' = "Custom" /\ custom' = saved.custom
        BY <3>2 DEF SetCustomViewDates
      <3>4. Shown(view', date', custom', settings) = Shown(saved.view, saved.date, saved.custom, settings)
        BY <2>2, <3>3, RangeShown
      <3>5. inbox' = <<>>
        BY <1>1, <2>2, OneWaits
      <3> QED BY <2>1, <2>2, <3>3, <3>4, <3>5
    <2>3. CASE saved.view \in Choosable /\ inbox = <<[kind |-> "SetView", view |-> saved.view]>>
      <3>1. Head(inbox).kind = "SetView" /\ Head(inbox).view = saved.view
        BY <2>3, OneWaits
      <3>2. SetView(saved.view)
        BY <3>1 DEF Handle
      <3>3. view' = saved.view /\ date' = saved.date
        BY <1>4, <3>2 DEF SetView, Restoring
      <3>4. Shown(view', date', custom', settings) = Shown(saved.view, saved.date, saved.custom, settings)
        BY <2>3, <3>3, RangeUnused
      <3>5. inbox' = <<>>
        BY <1>1, <2>3, OneWaits
      <3> QED BY <2>1, <3>3, <3>4, <3>5
    <2>4. CASE saved.view = "Month" /\ inbox = <<[kind |-> "JumpToDate", date |-> saved.date]>>
      <3>1. Head(inbox).kind = "JumpToDate" /\ Head(inbox).date = saved.date
        BY <2>4, OneWaits
      <3>2. JumpToDate(saved.date)
        BY <3>1 DEF Handle
      <3>3. view' = saved.view /\ date' = saved.date
        BY <1>4, <2>4, <3>2 DEF JumpToDate, Restoring
      <3>4. Shown(view', date', custom', settings) = Shown(saved.view, saved.date, saved.custom, settings)
        BY <2>4, <3>3, RangeUnused DEF Choosable
      <3>5. inbox' = <<>>
        BY <1>1, <2>4, OneWaits
      <3> QED BY <2>1, <3>3, <3>4, <3>5
    <2> QED BY <1>4, <2>2, <2>3, <2>4 DEF Restoring
  <1> QED BY <1>2, <1>3, <1>4

\* A window that closes in peace remembers what it showed.
LEMMA CloseRemembers ==
  ASSUME TypeOK, RangesOK, WillFollow, Close PROVE ComesBack'
  <1> SUFFICES ASSUME closing' # None PROVE ComesBack'
    BY DEF ComesBack
  <1>1. running /\ ~running' /\ inbox = <<>> /\ closing' = screen /\ saved' = Remembered /\ UNCHANGED settings
    BY DEF Close
  <1>2. screen = Painting(view, date, custom, mini, settings)
    BY <1>1, QueueEmpty DEF WillFollow
  <1>3. saved'.view = view /\ saved'.date = date /\ saved'.custom = (IF view = "Custom" THEN custom ELSE {})
    BY <1>1 DEF Remembered
  <1>4. closing'.view = view /\ closing'.days = Shown(view, date, custom, settings)
    BY <1>1, <1>2 DEF Painting
  <1>5. Shown(view, date, custom, settings) = Shown(view, date, saved'.custom, settings)
    <2>1. CASE view = "Custom"
      BY <1>3, <2>1
    <2>2. CASE view \in Choosable
      BY <2>2, RangeUnused
    <2> QED BY <2>1, <2>2 DEF RangesOK, Views
  <1>6. date # None
    BY NavigationAssumption DEF TypeOK
  <1> QED BY <1>1, <1>3, <1>4, <1>5, <1>6 DEF ComesBack

LEMMA OpenBrings ==
  ASSUME RangesOK, ComesBack, Open PROVE ComesBack'
  <1> SUFFICES ASSUME closing # None PROVE Restoring' \/ Restored'
    BY DEF Open, ComesBack
  <1>1. /\ saved.date # None /\ closing.view = saved.view
        /\ closing.days = Shown(saved.view, saved.date, saved.custom, settings)
    BY DEF ComesBack
  <1>2. /\ view' = "Month" /\ date' = saved.date /\ custom' = saved.custom
        /\ inbox' = Restore(saved.view, saved.date, saved.custom)
        /\ UNCHANGED <<settings, saved, today, closing>>
    BY <1>1 DEF Open
  <1>3. CASE saved.view = "Custom"
    <2>1. inbox' = <<[kind |-> "SetCustomViewDates", dates |-> saved.custom]>>
      BY <1>2, <1>3, RangeIsRange DEF Restore, RangesOK, Choosable
    <2> QED BY <1>2, <1>3, <2>1 DEF Restoring
  <1>4. CASE saved.view \in Choosable \ {"Month"}
    <2>1. inbox' = <<[kind |-> "SetView", view |-> saved.view]>>
      BY <1>2, <1>4 DEF Restore, Choosable
    <2> QED BY <1>2, <1>4, <2>1 DEF Restoring
  <1>5. CASE saved.view = "Month" /\ saved.date # today
    <2>1. inbox' = <<[kind |-> "JumpToDate", date |-> saved.date]>>
      BY <1>2, <1>5 DEF Restore
    <2> QED BY <1>2, <1>5, <2>1 DEF Restoring
  <1>6. CASE saved.view = "Month" /\ saved.date = today
    <2>1. inbox' = <<>>
      BY <1>2, <1>6 DEF Restore
    <2>2. \A i \in 1..Len(inbox') : FALSE
      BY <2>1, QueueEmpty
    <2> QED BY <1>1, <1>2, <1>6, <2>2 DEF Restored
  <1> QED BY <1>3, <1>4, <1>5, <1>6 DEF RangesOK, Views

LEMMA BackNext == TypeOK /\ RangesOK /\ WillFollow /\ ComesBack /\ [Next]_vars => ComesBack'
  <1> SUFFICES ASSUME TypeOK, RangesOK, WillFollow, ComesBack, [Next]_vars PROVE ComesBack'
    OBVIOUS
  <1>1. CASE Click \/ ChangeSettings \/ CloseFails
    BY <1>1 DEF Click, ChangeSettings, CloseFails, ComesBack
  <1>2. CASE Resize
    <2>1. /\ inbox = <<>> /\ inbox' = <<[kind |-> "Refresh"]>> /\ running
          /\ UNCHANGED <<running, model, settings, saved, closing>>
      BY <1>2 DEF Resize
    <2>2. \A i \in 1..Len(inbox') : inbox'[i].kind = "Refresh"
      BY <2>1, QueueOfOne
    <2>3. Restoring => FALSE
      BY <2>1, OneWaits DEF Restoring
    <2> QED BY <2>1, <2>2, <2>3 DEF ComesBack, Restored, model
  <1>3. CASE Midnight \/ UNCHANGED vars
    BY <1>3 DEF Midnight, vars, model, ComesBack, Restoring, Restored
  <1> QED BY <1>1, <1>2, <1>3, HandleBack, CloseRemembers, OpenBrings DEF Next

\* A window closed with nothing waiting comes back with its view on its days, on whatever day
\* and after whatever messages, as long as nobody touches it: App::shutdown saves enough, and
\* the message that App::init queues behind its first painting is the right one.
THEOREM WindowComesBack == Spec => []ViewSurvives
  <1>1. Init => ComesBack
    BY DEF Init, ComesBack
  <1>2. Init => WillFollow
    BY DEF Init, WillFollow
  <1>3. ComesBack /\ WillFollow => ViewSurvives
    <2> SUFFICES ASSUME ComesBack, WillFollow, running, inbox = <<>>, closing # None
                 PROVE  screen.view = closing.view /\ screen.days = closing.days
      BY DEF ViewSurvives
    <2>1. screen = Painting(view, date, custom, mini, settings)
      BY QueueEmpty DEF WillFollow
    <2>2. Restoring => FALSE
      BY OneWaits DEF Restoring
    <2>3. closing.view = saved.view /\ view = saved.view /\ Shown(view, date, custom, settings) = closing.days
      BY <2>2 DEF ComesBack, Restored
    <2> QED BY <2>1, <2>3 DEF Painting
  <1> QED BY <1>1, <1>2, <1>3, TypeInit, TypeNext, RangesInit, RangesNext, FollowNext, BackNext, PTL DEF Spec

-----------------------------------------------------------------------------
(* A day that is picked is shown.                                          *)

LEMMA SettingsParts ==
  ASSUME TypeOK
  PROVE  settings.firstDay \in 0..6 /\ settings.range \in Nat /\ settings.weekends \in BOOLEAN
  <1>1. settings.firstDay \in FirstDays /\ settings.range \in Ranges /\ settings.weekends \in BOOLEAN
    BY DEF TypeOK, Settings
  <1>2. FirstDays \subseteq 0..6 /\ Ranges \subseteq Nat
    BY NavigationAssumption
  <1> QED BY <1>1, <1>2

\* Later months begin later.
LEMMA MonthsMonotone ==
  ASSUME NEW m \in Int, NEW n \in Int, m <= n
  PROVE  FirstOf(m) \in Int /\ FirstOf(n) \in Int /\ FirstOf(m) <= FirstOf(n)
  <1>1. FirstOf(m) \in Int /\ FirstOf(n) \in Int /\ FirstOf(m + 1) - FirstOf(m) \in 28..31
    BY MonthLength
  <1>2. FirstOf(m + 1) \in Int
    BY MonthLength
  <1>3. CASE m = n
    BY <1>1, <1>3
  <1>4. CASE m < n
    <2>1. FirstOf(m + 1) <= FirstOf(n)
      BY <1>4, MonthsInOrder
    <2> QED BY <1>1, <1>2, <2>1
  <1> QED BY <1>3, <1>4

LEMMA DayInYear == ASSUME NEW day \in Int PROVE day \in DaysOfYear(YearOf(day))
  <1> DEFINE m == MonthOf(day)
             y == YearOf(day)
  <1>1. m \in Int /\ FirstOf(m) <= day /\ day < FirstOf(m + 1)
    BY MonthOfDay
  <1>2. y = m \div 12
    BY DEF YearOf
  <1> HIDE DEF m, y
  <1>3. y \in Int /\ 12 * y <= m /\ m + 1 <= 12 * y + 12 /\ 12 * y \in Int /\ 12 * y + 12 \in Int
    BY <1>1, <1>2
  <1>4. FirstOf(12 * y) <= FirstOf(m) /\ FirstOf(12 * y) \in Int /\ FirstOf(m) \in Int
    BY <1>1, <1>3, MonthsMonotone
  <1>5. FirstOf(m + 1) <= FirstOf(12 * y + 12) /\ FirstOf(m + 1) \in Int /\ FirstOf(12 * y + 12) \in Int
    <2>1. m + 1 \in Int
      BY <1>1
    <2> QED BY <1>3, <2>1, MonthsMonotone
  <1>6. day \in FirstOf(12 * y)..FirstOf(12 * y + 12) - 1
    BY <1>1, <1>4, <1>5
  <1> QED BY <1>6 DEF DaysOfYear, y

\* Every view that has the day for its anchor shows it, with two exceptions.
LEMMA AnchorShown ==
  ASSUME TypeOK, NEW v \in Choosable, NEW day \in Int, NEW dates,
         settings.weekends \/ ~IsWeekend(day) \/ v \notin {"Week", "FiveDay"}
  PROVE  Shows(Shown(v, day, dates, settings), day)
  <1>1. settings.firstDay \in 0..6 /\ settings.range \in Nat /\ settings.weekends \in BOOLEAN
    BY SettingsParts
  <1>2. CASE v = "Day"
    BY <1>2 DEF Shown, Shows
  <1>3. CASE v = "Week"
    <2> DEFINE back == (Weekday(day) - settings.firstDay) % 7
    <2>1. back \in 0..6
      BY <1>1 DEF Weekday
    <2> HIDE DEF back
    <2>2. day \in Span(day - back, 7)
      BY <2>1 DEF Span
    <2>3. day \in WeekWindow(day, settings)
      BY <1>3, <2>2 DEF WeekWindow, back
    <2> QED BY <1>3, <2>3 DEF Shown, Shows
  <1>4. CASE v = "FiveDay"
    <2>1. CASE settings.weekends
      <3>1. day \in FiveDayWindow(day, settings)
        BY <2>1 DEF FiveDayWindow
      <3> QED BY <1>4, <3>1 DEF Shown, Shows
    <2>2. CASE ~settings.weekends
      <3>1. ~IsWeekend(day)
        BY <1>4, <2>2
      <3>2. FiveDayWindow(day, settings) = {StepWeekdays(day, n) : n \in -2..2}
        BY <2>2, <3>1 DEF FiveDayWindow
      <3>3. StepWeekdays(day, 0) = day /\ 0 \in -2..2
        BY ShortSteps
      <3> QED BY <1>4, <3>2, <3>3 DEF Shown, Shows
    <2> QED BY <2>1, <2>2
  <1>5. CASE v = "Month"
    <2>1. day \in DaysOfMonth(MonthOf(day))
      <3>1. /\ MonthOf(day) \in Int /\ FirstOf(MonthOf(day)) <= day /\ day < FirstOf(MonthOf(day) + 1)
        BY MonthOfDay
      <3>2. FirstOf(MonthOf(day)) \in Int /\ FirstOf(MonthOf(day) + 1) \in Int
        BY <3>1, MonthLength
      <3> QED BY <3>1, <3>2 DEF DaysOfMonth
    <2> QED BY <1>5, <2>1 DEF Shown, Shows
  <1>6. CASE v = "Year"
    BY <1>6, DayInYear DEF Shown, Shows
  <1>7. CASE v = "Schedule"
    <2>1. day \in Span(day, 30)
      BY DEF Span
    <2> QED BY <1>7, <2>1 DEF Shown, Shows
  <1>8. CASE v = "Table"
    <2>1. Span(day, settings.range) = {} \/ day \in Span(day, settings.range)
      <3>1. CASE settings.range = 0
        BY <3>1 DEF Span
      <3>2. CASE settings.range > 0
        BY <1>1, <3>2 DEF Span
      <3> QED BY <1>1, <3>1, <3>2
    <2> QED BY <1>8, <2>1 DEF Shown, Shows
  <1> QED BY <1>2, <1>3, <1>4, <1>5, <1>6, <1>7, <1>8 DEF Choosable

PickShown ==
  Handle /\ Head(inbox).kind = "JumpToDate" =>
    LET day == Head(inbox).date
    IN \/ Shows(screen'.days, day)
       \/ ~settings.weekends /\ IsWeekend(day) /\ view' \in {"Week", "FiveDay"}

LEMMA PickStep == TypeOK /\ RangesOK => PickShown
  <1> SUFFICES ASSUME TypeOK, RangesOK, Handle, Head(inbox).kind = "JumpToDate",
                      settings.weekends \/ ~IsWeekend(Head(inbox).date) \/ view' \notin {"Week", "FiveDay"}
               PROVE  Shows(screen'.days, Head(inbox).date)
    BY DEF PickShown, TypeOK, Settings
  <1> DEFINE day == Head(inbox).date
  <1>1. JumpToDate(day) /\ UNCHANGED settings
    BY DEF Handle
  <1>2. day \in Int
    <2>1. inbox \in Seq(Message) /\ inbox # <<>>
      BY DEF TypeOK, Handle
    <2>2. Head(inbox) \in Message
      BY <2>1
    <2> QED BY <2>2, MessageParts
  <1>3. screen'.days = Shown(view', day, custom, settings)
    BY <1>1 DEF JumpToDate, Refresh, Painting
  <1>4. CASE view' = "Custom"
    <2>1. day \in custom
      BY <1>1, <1>4 DEF JumpToDate
    <2> QED BY <1>3, <1>4, <2>1, RangeShown DEF Shows
  <1>5. CASE view' \in Choosable
    BY <1>2, <1>3, <1>5, AnchorShown
  <1>6. view' \in Views
    BY <1>1 DEF JumpToDate, RangesOK, Views, Choosable
  <1> QED BY <1>4, <1>5, <1>6 DEF Views

\* A day that is clicked is on screen afterwards, in every view and whatever was shown before;
\* only a weekend day that the user hides may be missing from a week or from five days.
THEOREM PickIsShown == Spec => PickedDayIsShown
  <1>1. TypeOK /\ RangesOK => PickShown
    BY PickStep
  <1>2. [](TypeOK /\ RangesOK) => [][PickShown]_vars
    BY <1>1, PTL
  <1>3. Spec => [](TypeOK /\ RangesOK)
    BY TypeInit, TypeNext, RangesInit, RangesNext, PTL DEF Spec
  <1> QED BY <1>2, <1>3 DEF PickedDayIsShown, PickShown

-----------------------------------------------------------------------------
(* Pages tile the calendar.                                                *)

\* Days in a row, and the days in a row after them.
LEMMA StretchesAdjoin ==
  ASSUME NEW p \in Int, NEW q \in Int, NEW r \in Int, p <= q, q + 1 <= r
  PROVE  Adjoins(p..q, q + 1..r)
  <1>1. Latest(p..q) = q
    <2>1. q \in p..q /\ p..q \subseteq Int /\ \A x \in p..q : q >= x
      OBVIOUS
    <2> QED BY <2>1, LatestIs
  <1>2. Earliest(q + 1..r) = q + 1
    <2>1. q + 1 \in q + 1..r /\ q + 1..r \subseteq Int /\ \A x \in q + 1..r : q + 1 <= x
      OBVIOUS
    <2> QED BY <2>1, EarliestIs
  <1>3. \A x \in p..q, y \in q + 1..r : x < y
    OBVIOUS
  <1>4. \A x \in q + 1..q + 1 - 1 : FALSE
    OBVIOUS
  <1> QED BY <1>1, <1>2, <1>3, <1>4 DEF Adjoins

LEMMA SpansAdjoin ==
  ASSUME NEW day \in Int, NEW n \in Nat, n > 0
  PROVE  Adjoins(Span(day, n), Span(day + n, n))
  <1>1. day + n - 1 \in Int /\ day + n + n - 1 \in Int /\ day <= day + n - 1
        /\ day + n - 1 + 1 = day + n /\ day + n <= day + n + n - 1
    OBVIOUS
  <1>2. Adjoins(day..day + n - 1, day + n - 1 + 1..day + n + n - 1)
    BY <1>1, StretchesAdjoin
  <1> QED BY <1>1, <1>2 DEF Span

LEMMA MonthsAdjoin ==
  ASSUME NEW m \in Int
  PROVE  Adjoins(DaysOfMonth(m), DaysOfMonth(m + 1))
  <1>1. /\ FirstOf(m) \in Int /\ FirstOf(m + 1) \in Int /\ FirstOf(m + 1 + 1) \in Int
        /\ FirstOf(m) < FirstOf(m + 1) /\ FirstOf(m + 1) < FirstOf(m + 1 + 1)
    <2>1. m + 1 \in Int /\ m + 1 + 1 \in Int
      OBVIOUS
    <2>2. FirstOf(m) \in Int /\ FirstOf(m + 1) - FirstOf(m) \in 28..31
      BY MonthLength
    <2>3. FirstOf(m + 1) \in Int /\ FirstOf(m + 1 + 1) - FirstOf(m + 1) \in 28..31
      BY <2>1, MonthLength
    <2>4. FirstOf(m + 1 + 1) \in Int
      BY <2>1, MonthLength
    <2> QED BY <2>2, <2>3, <2>4
  <1> DEFINE p == FirstOf(m)
             q == FirstOf(m + 1) - 1
             r == FirstOf(m + 1 + 1) - 1
  <1>2. p \in Int /\ q \in Int /\ r \in Int /\ p <= q /\ q + 1 <= r /\ q + 1 = FirstOf(m + 1)
    BY <1>1
  <1>3. Adjoins(p..q, q + 1..r)
    <2> HIDE DEF p, q, r
    <2> QED BY <1>2, StretchesAdjoin
  <1> QED BY <1>2, <1>3 DEF DaysOfMonth

LEMMA YearsAdjoin ==
  ASSUME NEW y \in Int
  PROVE  Adjoins(DaysOfYear(y), DaysOfYear(y + 1))
  <1> DEFINE a == 12 * y
             b == 12 * y + 12
             c == 12 * (y + 1) + 12
  <1>1. a \in Int /\ b \in Int /\ c \in Int /\ a < b /\ b < c /\ b = 12 * (y + 1)
    OBVIOUS
  <1> HIDE DEF a, b, c
  <1>2. FirstOf(a) \in Int /\ FirstOf(b) \in Int /\ FirstOf(c) \in Int
    BY <1>1, MonthLength
  <1>3. FirstOf(a) < FirstOf(b) /\ FirstOf(b) < FirstOf(c)
    <2>1. ASSUME NEW m \in Int, NEW n \in Int, m < n PROVE FirstOf(m) < FirstOf(n)
      <3>1. FirstOf(m) \in Int /\ FirstOf(m + 1) - FirstOf(m) \in 28..31 /\ FirstOf(n) \in Int
        BY MonthLength
      <3>2. FirstOf(m + 1) \in Int
        BY MonthLength
      <3>3. FirstOf(m + 1) <= FirstOf(n)
        BY <2>1, MonthsInOrder
      <3> QED BY <3>1, <3>2, <3>3
    <2> QED BY <1>1, <2>1
  <1> DEFINE p == FirstOf(a)
             q == FirstOf(b) - 1
             r == FirstOf(c) - 1
  <1>4. p \in Int /\ q \in Int /\ r \in Int /\ p <= q /\ q + 1 <= r /\ q + 1 = FirstOf(b)
    BY <1>2, <1>3
  <1>5. Adjoins(p..q, q + 1..r)
    <2> HIDE DEF p, q, r
    <2> QED BY <1>4, StretchesAdjoin
  <1>6. DaysOfYear(y) = p..q
    BY DEF DaysOfYear, a, b
  <1>7. DaysOfYear(y + 1) = FirstOf(b)..r
    <2>1. DaysOfYear(y + 1) = FirstOf(12 * (y + 1))..FirstOf(12 * (y + 1) + 12) - 1
      BY DEF DaysOfYear
    <2> QED BY <1>1, <2>1 DEF c
  <1> QED BY <1>4, <1>5, <1>6, <1>7

\* Weeks with and without their weekends.
LEMMA WeeksAdjoin ==
  ASSUME TypeOK, NEW day \in Int
  PROVE  Adjoins(WeekWindow(day, settings), WeekWindow(day + 7, settings))
  <1>1. settings.firstDay \in 0..6 /\ settings.weekends \in BOOLEAN
    BY SettingsParts
  <1> DEFINE start == day - ((Weekday(day) - settings.firstDay) % 7)
             next == (day + 7) - ((Weekday(day + 7) - settings.firstDay) % 7)
             Week(from) == {x \in Span(from, 7) : settings.weekends \/ ~IsWeekend(x)}
  <1>2. start \in Int /\ next = start + 7
    BY <1>1 DEF Weekday
  <1>3. ASSUME NEW d \in Int, NEW from, from = d - ((Weekday(d) - settings.firstDay) % 7)
        PROVE  WeekWindow(d, settings) = Week(from)
    BY <1>3 DEF WeekWindow
  <1>4. /\ day + 7 \in Int
        /\ start = day - ((Weekday(day) - settings.firstDay) % 7)
        /\ next = (day + 7) - ((Weekday(day + 7) - settings.firstDay) % 7)
    OBVIOUS
  <1> HIDE DEF start, next
  <1>5. WeekWindow(day, settings) = Week(start) /\ WeekWindow(day + 7, settings) = Week(next)
    BY <1>3, <1>4
  <1>6. WeekWindow(day, settings) = Week(start) /\ WeekWindow(day + 7, settings) = Week(start + 7)
    BY <1>2, <1>5
  <1>7. CASE settings.weekends
    <2>1. Week(start) = Span(start, 7) /\ Week(start + 7) = Span(start + 7, 7)
      BY <1>7
    <2>2. Adjoins(Span(start, 7), Span(start + 7, 7))
      BY <1>2, SpansAdjoin
    <2> QED BY <1>6, <2>1, <2>2
  <1>8. CASE ~settings.weekends
    <2> DEFINE last == IF ~IsWeekend(start + 6) THEN start + 6
                       ELSE IF ~IsWeekend(start + 5) THEN start + 5 ELSE start + 4
               first == IF ~IsWeekend(start + 7) THEN start + 7
                        ELSE IF ~IsWeekend(start + 8) THEN start + 8 ELSE start + 9
    <2>1. /\ last \in start + 4..start + 6 /\ ~IsWeekend(last)
          /\ \A x \in last + 1..start + 6 : IsWeekend(x)
      BY <1>2 DEF IsWeekend, Weekday
    <2>2. /\ first \in start + 7..start + 9 /\ ~IsWeekend(first)
          /\ \A x \in start + 7..first - 1 : IsWeekend(x)
      BY <1>2 DEF IsWeekend, Weekday
    <2> HIDE DEF last, first
    <2>3. /\ Week(start) = {x \in start..start + 6 : ~IsWeekend(x)}
          /\ Week(start + 7) = {x \in start + 7..start + 13 : ~IsWeekend(x)}
      BY <1>2, <1>8 DEF Span
    <2>4. Latest(Week(start)) = last
      <3>1. last \in Week(start) /\ Week(start) \subseteq Int
        BY <1>2, <2>1, <2>3
      <3>2. \A x \in Week(start) : last >= x
        <4> SUFFICES ASSUME NEW x \in Week(start), ~(last >= x) PROVE FALSE
          OBVIOUS
        <4>1. x \in start..start + 6 /\ ~IsWeekend(x)
          BY <2>3
        <4>2. x \in last + 1..start + 6
          BY <1>2, <2>1, <4>1
        <4> QED BY <2>1, <4>1, <4>2
      <3> QED BY <3>1, <3>2, LatestIs
    <2>5. Earliest(Week(start + 7)) = first
      <3>1. first \in Week(start + 7) /\ Week(start + 7) \subseteq Int
        BY <1>2, <2>2, <2>3
      <3>2. \A x \in Week(start + 7) : first <= x
        <4> SUFFICES ASSUME NEW x \in Week(start + 7), ~(first <= x) PROVE FALSE
          OBVIOUS
        <4>1. x \in start + 7..start + 13 /\ ~IsWeekend(x)
          BY <2>3
        <4>2. x \in start + 7..first - 1
          BY <1>2, <2>2, <4>1
        <4> QED BY <2>2, <4>1, <4>2
      <3> QED BY <3>1, <3>2, EarliestIs
    <2>6. \A x \in Week(start), y \in Week(start + 7) : x < y
      BY <1>2, <2>3
    <2>7. \A x \in last + 1..first - 1 : IsWeekend(x)
      <3> SUFFICES ASSUME NEW x \in last + 1..first - 1 PROVE IsWeekend(x)
        OBVIOUS
      <3>1. x \in last + 1..start + 6 \/ x \in start + 7..first - 1
        BY <1>2, <2>1, <2>2
      <3> QED BY <2>1, <2>2, <3>1
    <2>8. Adjoins(Week(start), Week(start + 7))
      BY <1>8, <2>4, <2>5, <2>6, <2>7 DEF Adjoins
    <2> QED BY <1>6, <2>8
  <1> QED BY <1>1, <1>7, <1>8

\* Five weekdays around a weekday, and the five after them.
LEMMA FiveDaysAdjoin ==
  ASSUME NEW day \in Int, ~settings.weekends, ~IsWeekend(day)
  PROVE  Adjoins(FiveDayWindow(day, settings), FiveDayWindow(day + 7, settings))
  <1> DEFINE a == LastWeekday(LastWeekday(day))
             b == LastWeekday(day)
             c == NextWeekday(day)
             d == NextWeekday(NextWeekday(day))
  <1>1. /\ a \in Int /\ b \in Int /\ c \in Int /\ d \in Int
        /\ a < b /\ b < day /\ day < c /\ c < d /\ d < a + 7
        /\ \A x \in d + 1..a + 6 : IsWeekend(x)
    BY DEF NextWeekday, LastWeekday, IsWeekend, Weekday
  <1>2. ~IsWeekend(day + 7)
    BY DEF IsWeekend, Weekday
  <1>3. /\ LastWeekday(LastWeekday(day + 7)) = a + 7 /\ LastWeekday(day + 7) = b + 7
        /\ NextWeekday(day + 7) = c + 7 /\ NextWeekday(NextWeekday(day + 7)) = d + 7
    BY DEF NextWeekday, LastWeekday, IsWeekend, Weekday
  <1> HIDE DEF a, b, c, d
  <1>4. ASSUME NEW e \in Int, ~IsWeekend(e)
        PROVE  FiveDayWindow(e, settings) =
                 {LastWeekday(LastWeekday(e)), LastWeekday(e), e, NextWeekday(e), NextWeekday(NextWeekday(e))}
    <2>1. FiveDayWindow(e, settings) = {StepWeekdays(e, n) : n \in -2..2}
      BY <1>4 DEF FiveDayWindow
    <2>2. \A n \in -2..2 : n \in {-2, -1, 0, 1, 2}
      OBVIOUS
    <2>3. \A n \in {-2, -1, 0, 1, 2} : n \in -2..2
      OBVIOUS
    <2>4. /\ StepWeekdays(e, -2) = LastWeekday(LastWeekday(e)) /\ StepWeekdays(e, -1) = LastWeekday(e)
          /\ StepWeekdays(e, 0) = e
          /\ StepWeekdays(e, 1) = NextWeekday(e) /\ StepWeekdays(e, 2) = NextWeekday(NextWeekday(e))
      BY ShortSteps
    <2>5. {StepWeekdays(e, n) : n \in -2..2} = {StepWeekdays(e, n) : n \in {-2, -1, 0, 1, 2}}
      BY <2>2, <2>3
    <2>6. {StepWeekdays(e, n) : n \in {-2, -1, 0, 1, 2}} =
            {StepWeekdays(e, -2), StepWeekdays(e, -1), StepWeekdays(e, 0), StepWeekdays(e, 1), StepWeekdays(e, 2)}
      OBVIOUS
    <2> QED BY <2>1, <2>4, <2>5, <2>6
  <1>5. FiveDayWindow(day, settings) = {a, b, day, c, d}
    BY <1>4 DEF a, b, c, d
  <1>6. FiveDayWindow(day + 7, settings) = {a + 7, b + 7, day + 7, c + 7, d + 7}
    <2>1. day + 7 \in Int
      OBVIOUS
    <2> QED BY <1>2, <1>3, <1>4, <2>1
  <1>7. Latest({a, b, day, c, d}) = d
    <2>1. d \in {a, b, day, c, d} /\ {a, b, day, c, d} \subseteq Int /\ \A x \in {a, b, day, c, d} : d >= x
      BY <1>1
    <2> QED BY <2>1, LatestIs
  <1>8. Earliest({a + 7, b + 7, day + 7, c + 7, d + 7}) = a + 7
    <2> DEFINE e == a + 7
               later == {a + 7, b + 7, day + 7, c + 7, d + 7}
    <2>1. e \in later /\ later \subseteq Int /\ \A x \in later : e <= x
      BY <1>1
    <2> HIDE DEF e, later
    <2>2. Earliest(later) = e
      BY <2>1, EarliestIs
    <2> QED BY <2>2 DEF e, later
  <1>9. \A x \in {a, b, day, c, d}, y \in {a + 7, b + 7, day + 7, c + 7, d + 7} : x < y
    BY <1>1
  <1>10. a + 7 - 1 = a + 6
    BY <1>1
  <1>11. Adjoins({a, b, day, c, d}, {a + 7, b + 7, day + 7, c + 7, d + 7})
    BY <1>1, <1>7, <1>8, <1>9, <1>10 DEF Adjoins
  <1> QED BY <1>5, <1>6, <1>11

\* A dragged range, moved by its own length.
LEMMA RangesAdjoin ==
  ASSUME NEW dates, RangeOK(dates)
  PROVE  /\ Adjoins(dates, {x + 1 * Cardinality(dates) : x \in dates})
         /\ Adjoins({x + (-1) * Cardinality(dates) : x \in dates}, dates)
  <1>1. PICK first \in Int, last \in Int : dates = first..last /\ 1 <= last - first
    BY DEF RangeOK
  <1> DEFINE n == last - first + 1
  <1>2. Cardinality(dates) = n
    BY <1>1, FS_Interval
  <1>3. n \in Int /\ n > 0 /\ last - n \in Int /\ last + n \in Int
        /\ first + n = last + 1 /\ first - n <= last - n /\ last - n + 1 = first /\ last + 1 <= last + n
    BY <1>1
  <1> HIDE DEF n
  <1>4. {x + 1 * n : x \in first..last} = last + 1..last + n
    <2>1. \A x \in first..last : x + 1 * n \in last + 1..last + n
      BY <1>3
    <2>2. \A y \in last + 1..last + n : y - n \in first..last /\ y = (y - n) + 1 * n
      BY <1>3
    <2> QED BY <2>1, <2>2
  <1>5. {x + (-1) * n : x \in first..last} = first - n..last - n
    <2>1. \A x \in first..last : x + (-1) * n \in first - n..last - n
      BY <1>3
    <2>2. \A y \in first - n..last - n : y + n \in first..last /\ y = (y + n) + (-1) * n
      BY <1>3
    <2> QED BY <2>1, <2>2
  <1>6. Adjoins(first..last, last + 1..last + n)
    BY <1>1, <1>3, StretchesAdjoin
  <1>7. Adjoins(first - n..last - n, last - n + 1..last)
    <2>1. first - n \in Int /\ last - n \in Int /\ last - n + 1 <= last
      BY <1>1, <1>3
    <2> QED BY <1>3, <2>1, StretchesAdjoin
  <1>8. last - n + 1..last = first..last
    BY <1>3
  <1>9. /\ {x + 1 * Cardinality(dates) : x \in dates} = last + 1..last + n
        /\ {x + (-1) * Cardinality(dates) : x \in dates} = first - n..last - n
    <2>1. {x + 1 * Cardinality(dates) : x \in dates} = {x + 1 * n : x \in first..last}
      BY <1>1, <1>2
    <2>2. {x + (-1) * Cardinality(dates) : x \in dates} = {x + (-1) * n : x \in first..last}
      BY <1>1, <1>2
    <2> QED BY <1>4, <1>5, <2>1, <2>2
  <1> QED BY <1>1, <1>6, <1>7, <1>8, <1>9

\* The months and years that a jump of whole months leads to.
LEMMA ShiftedMonth ==
  ASSUME NEW day \in Int, NEW n \in Int
  PROVE  ShiftMonth(day, n) \in Int /\ MonthOf(ShiftMonth(day, n)) = MonthOf(day) + n
  <1> DEFINE m == MonthOf(day) + n
  <1>1. m \in Int
    BY MonthOfDay
  <1> HIDE DEF m
  <1>2. FirstOf(m) \in Int /\ FirstOf(m + 1) \in Int /\ FirstOf(m) < FirstOf(m + 1)
    BY <1>1, MonthLength
  <1>3. MonthOf(FirstOf(m)) = m
    BY <1>1, <1>2, MonthOfIs
  <1> QED BY <1>2, <1>3 DEF ShiftMonth, m

LEMMA ShiftedYear ==
  ASSUME NEW day \in Int, NEW n \in Int
  PROVE  YearOf(ShiftMonth(day, 12 * n)) = YearOf(day) + n /\ YearOf(day) \in Int
  <1>1. 12 * n \in Int /\ MonthOf(day) \in Int
    BY MonthOfDay
  <1>2. MonthOf(ShiftMonth(day, 12 * n)) = MonthOf(day) + 12 * n
    BY <1>1, ShiftedMonth
  <1>3. (MonthOf(day) + 12 * n) \div 12 = MonthOf(day) \div 12 + n /\ MonthOf(day) \div 12 \in Int
    BY <1>1
  <1> QED BY <1>2, <1>3 DEF YearOf

\* What a step of a view shows goes on where the view ends, and ends where it begins.
LEMMA StepTiles ==
  ASSUME TypeOK, view \in Choosable, NEW dates, NEW direction \in {-1, 1},
         ~(view = "Table" /\ settings.range = 0),
         ~(view = "FiveDay" /\ ~settings.weekends /\ IsWeekend(date))
  PROVE  LET now == Shown(view, date, dates, settings)
             next == Shown(view, Step(direction), dates, settings)
         IN IF direction = 1 THEN Adjoins(now, next) ELSE Adjoins(next, now)
  <1> DEFINE now == Shown(view, date, dates, settings)
             next == Shown(view, Step(direction), dates, settings)
             Goal == IF direction = 1 THEN Adjoins(now, next) ELSE Adjoins(next, now)
  <1>1. date \in Int /\ settings.range \in Nat /\ settings.weekends \in BOOLEAN /\ direction \in Int
    BY SettingsParts DEF TypeOK
  <1>2. CASE view \in {"Day", "Schedule", "Table"}
    <2> DEFINE n == CASE view = "Day" -> 1 [] view = "Schedule" -> 30 [] view = "Table" -> settings.range
    <2>1. n \in Nat /\ n > 0
      BY <1>1, <1>2
    <2>2. Step(direction) = date + direction * n
      BY <1>1, <1>2 DEF Step
    <2>3. \A day \in Int : Shown(view, day, dates, settings) = Span(day, n)
      <3>1. \A day \in Int : Span(day, 1) = {day}
        BY DEF Span
      <3> QED BY <1>2, <3>1 DEF Shown
    <2> HIDE DEF n
    <2>4. CASE direction = 1
      <3>1. Step(direction) = date + n
        BY <1>1, <2>1, <2>2, <2>4
      <3>2. Adjoins(Span(date, n), Span(date + n, n))
        BY <1>1, <2>1, SpansAdjoin
      <3> QED BY <1>1, <2>1, <2>3, <2>4, <3>1, <3>2
    <2>5. CASE direction = -1
      <3>1. Step(direction) = date - n
        BY <1>1, <2>1, <2>2, <2>5
      <3>2. Adjoins(Span(date - n, n), Span((date - n) + n, n))
        <4>1. date - n \in Int
          BY <1>1, <2>1
        <4> QED BY <2>1, <4>1, SpansAdjoin
      <3>3. (date - n) + n = date /\ date - n \in Int
        BY <1>1, <2>1
      <3> QED BY <1>1, <2>3, <2>5, <3>1, <3>2, <3>3
    <2> QED BY <2>4, <2>5
  <1>3. CASE view = "Month"
    <2>1. MonthOf(Step(direction)) = MonthOf(date) + direction /\ MonthOf(date) \in Int
      BY <1>1, <1>3, ShiftedMonth, MonthOfDay DEF Step
    <2>2. now = DaysOfMonth(MonthOf(date)) /\ next = DaysOfMonth(MonthOf(date) + direction)
      BY <1>3, <2>1 DEF Shown
    <2>3. CASE direction = 1
      BY <2>1, <2>2, <2>3, MonthsAdjoin
    <2>4. CASE direction = -1
      <3>1. MonthOf(date) + -1 \in Int /\ (MonthOf(date) + -1) + 1 = MonthOf(date)
        BY <2>1
      <3>2. Adjoins(DaysOfMonth(MonthOf(date) + -1), DaysOfMonth((MonthOf(date) + -1) + 1))
        BY <3>1, MonthsAdjoin
      <3> QED BY <2>2, <2>4, <3>1, <3>2
    <2> QED BY <2>3, <2>4
  <1>4. CASE view = "Year"
    <2>1. YearOf(Step(direction)) = YearOf(date) + direction /\ YearOf(date) \in Int
      BY <1>1, <1>4, ShiftedYear DEF Step
    <2>2. now = DaysOfYear(YearOf(date)) /\ next = DaysOfYear(YearOf(date) + direction)
      BY <1>4, <2>1 DEF Shown
    <2>3. CASE direction = 1
      BY <2>1, <2>2, <2>3, YearsAdjoin
    <2>4. CASE direction = -1
      <3>1. YearOf(date) + -1 \in Int /\ (YearOf(date) + -1) + 1 = YearOf(date)
        BY <2>1
      <3>2. Adjoins(DaysOfYear(YearOf(date) + -1), DaysOfYear((YearOf(date) + -1) + 1))
        BY <3>1, YearsAdjoin
      <3> QED BY <2>2, <2>4, <3>1, <3>2
    <2> QED BY <2>3, <2>4
  <1>5. CASE view = "Week"
    <2>1. Step(direction) = date + 7 * direction
      BY <1>5 DEF Step
    <2>2. \A day \in Int : Shown(view, day, dates, settings) = WeekWindow(day, settings)
      BY <1>5 DEF Shown
    <2>3. CASE direction = 1
      <3>1. Step(direction) = date + 7 /\ date + 7 \in Int
        BY <1>1, <2>1, <2>3
      <3> QED BY <1>1, <2>2, <2>3, <3>1, WeeksAdjoin
    <2>4. CASE direction = -1
      <3>1. Step(direction) = date - 7 /\ date - 7 \in Int /\ (date - 7) + 7 = date
        BY <1>1, <2>1, <2>4
      <3>2. Adjoins(WeekWindow(date - 7, settings), WeekWindow((date - 7) + 7, settings))
        BY <3>1, WeeksAdjoin
      <3> QED BY <1>1, <2>2, <2>4, <3>1, <3>2
    <2> QED BY <2>3, <2>4
  <1>6. CASE view = "FiveDay" /\ settings.weekends
    <2>1. Step(direction) = date + 5 * direction
      BY <1>6 DEF Step
    <2>2. \A day \in Int : Shown(view, day, dates, settings) = Span(day - 2, 5)
      BY <1>6 DEF Shown, FiveDayWindow, Span
    <2>3. CASE direction = 1
      <3>1. Step(direction) = date + 5 /\ date + 5 \in Int /\ (date + 5) - 2 = (date - 2) + 5 /\ date - 2 \in Int
        BY <1>1, <2>1, <2>3
      <3>2. Adjoins(Span(date - 2, 5), Span((date - 2) + 5, 5))
        BY <3>1, SpansAdjoin
      <3> QED BY <1>1, <2>2, <2>3, <3>1, <3>2
    <2>4. CASE direction = -1
      <3>1. Step(direction) = date - 5 /\ date - 5 \in Int /\ (date - 5) - 2 = date - 7 /\ date - 7 \in Int
            /\ (date - 7) + 5 = date - 2
        BY <1>1, <2>1, <2>4
      <3>2. Adjoins(Span(date - 7, 5), Span((date - 7) + 5, 5))
        BY <3>1, SpansAdjoin
      <3> QED BY <1>1, <2>2, <2>4, <3>1, <3>2
    <2> QED BY <2>3, <2>4
  <1>7. CASE view = "FiveDay" /\ ~settings.weekends
    <2>1. Step(direction) = StepWeekdays(date, 5 * direction) /\ ~IsWeekend(date)
      BY <1>7 DEF Step
    <2>2. \A day \in Int : Shown(view, day, dates, settings) = FiveDayWindow(day, settings)
      BY <1>7 DEF Shown
    <2>3. CASE direction = 1
      <3>1. Step(direction) = date + 7 /\ date + 7 \in Int
        BY <1>1, <2>1, <2>3, FiveSteps
      <3> QED BY <1>1, <1>7, <2>1, <2>2, <2>3, <3>1, FiveDaysAdjoin
    <2>4. CASE direction = -1
      <3>1. Step(direction) = date - 7 /\ date - 7 \in Int /\ (date - 7) + 7 = date
        BY <1>1, <2>1, <2>4, FiveSteps
      <3>2. ~IsWeekend(date - 7)
        BY <1>1, <2>1 DEF IsWeekend, Weekday
      <3>3. Adjoins(FiveDayWindow(date - 7, settings), FiveDayWindow((date - 7) + 7, settings))
        BY <1>7, <3>1, <3>2, FiveDaysAdjoin
      <3> QED BY <1>1, <2>2, <2>4, <3>1, <3>3
    <2> QED BY <2>3, <2>4
  <1> QED BY <1>1, <1>2, <1>3, <1>4, <1>5, <1>6, <1>7 DEF Choosable

PageTiles ==
  Paging /\ ~(view = "Table" /\ settings.range = 0)
         /\ ~(view = "FiveDay" /\ ~settings.weekends /\ IsWeekend(date))
    => Tiles

LEMMA PageStep == TypeOK /\ RangesOK => PageTiles
  <1> SUFFICES ASSUME TypeOK, RangesOK, Paging,
                      ~(view = "Table" /\ settings.range = 0),
                      ~(view = "FiveDay" /\ ~settings.weekends /\ IsWeekend(date))
               PROVE  Tiles
    BY DEF PageTiles
  <1> DEFINE direction == IF Head(inbox).kind = "NextPeriod" THEN 1 ELSE -1
  <1>1. direction \in {-1, 1} /\ Period(direction) /\ UNCHANGED settings
        /\ (direction = 1 <=> Head(inbox).kind = "NextPeriod")
    <2>1. CASE Head(inbox).kind = "NextPeriod"
      <3>1. Period(1) /\ UNCHANGED settings
        BY <2>1 DEF Paging, Handle
      <3> QED BY <2>1, <3>1
    <2>2. CASE Head(inbox).kind = "PrevPeriod"
      <3>1. Period(-1) /\ UNCHANGED settings
        BY <2>2 DEF Paging, Handle
      <3> QED BY <2>2, <3>1
    <2> QED BY <2>1, <2>2 DEF Paging
  <1> HIDE DEF direction
  <1>2. Head(inbox).kind \in {"PrevPeriod", "NextPeriod"}
    BY DEF Paging
  <1>3. UNCHANGED view
    BY <1>1 DEF Period
  <1>4. CASE view = "Custom"
    <2>1. RangeOK(custom) /\ custom' = {x + direction * Cardinality(custom) : x \in custom}
      BY <1>1, <1>4 DEF Period, RangesOK
    <2>2. /\ Shown(view, date, custom, settings) = custom
          /\ Shown(view', date', custom', settings') = custom'
      BY <1>3, <1>4, RangeShown
    <2>3. IF direction = 1 THEN Adjoins(custom, custom') ELSE Adjoins(custom', custom)
      <3>1. CASE direction = 1
        <4>1. custom' = {x + 1 * Cardinality(custom) : x \in custom}
          BY <2>1, <3>1
        <4> QED BY <2>1, <3>1, <4>1, RangesAdjoin
      <3>2. CASE direction = -1
        <4>1. custom' = {x + (-1) * Cardinality(custom) : x \in custom}
          BY <2>1, <3>2
        <4>2. Adjoins({x + (-1) * Cardinality(custom) : x \in custom}, custom)
          BY <2>1, RangesAdjoin
        <4>3. Adjoins(custom', custom)
          BY <4>1, <4>2
        <4> QED BY <3>2, <4>3
      <3> QED BY <1>1, <3>1, <3>2
    <2> QED BY <1>1, <2>2, <2>3, <1>2 DEF Tiles
  <1>5. CASE view # "Custom"
    <2>1. date' = Step(direction) /\ custom' = custom /\ view \in Choosable
      BY <1>1, <1>5 DEF Period, RangesOK, Views
    <2>2. IF direction = 1
          THEN Adjoins(Shown(view, date, custom, settings), Shown(view, Step(direction), custom, settings))
          ELSE Adjoins(Shown(view, Step(direction), custom, settings), Shown(view, date, custom, settings))
      BY <1>1, <2>1, StepTiles
    <2>3. Shown(view', date', custom', settings') = Shown(view, Step(direction), custom, settings)
      BY <1>1, <1>3, <2>1
    <2> QED BY <1>1, <2>2, <2>3 DEF Tiles
  <1> QED BY <1>4, <1>5

\* Paging shows every day once, hidden weekend days aside, over months of any length and leap
\* years and for every range that was dragged.  Not covered, because it does not hold: the five
\* days without weekends from an anchor on a weekend day, of which the comment of step_weekdays
\* (main.rs:1409-1412) claims it too; and, because it has no pages, the table without a limit.
THEOREM PagesTileTime == Spec => PagesTile
  <1>1. TypeOK /\ RangesOK => PageTiles
    BY PageStep
  <1>2. [](TypeOK /\ RangesOK) => [][PageTiles]_vars
    BY <1>1, PTL
  <1>3. Spec => [](TypeOK /\ RangesOK)
    BY TypeInit, TypeNext, RangesInit, RangesNext, PTL DEF Spec
  <1> QED BY <1>2, <1>3 DEF PagesTile, PageTiles
=============================================================================
