------------------------------ MODULE LocalTime ------------------------------
(***************************************************************************)
(* Instants and the clock on the wall, as app/src/main.rs goes from one to *)
(* the other through chrono.  Time is counted in units that divide the     *)
(* quarter of an hour.  A clock is the record of the instant at which it   *)
(* is set and by how much: forward for a gap, back for a fold, by 0 for a  *)
(* zone without clock changes.                                             *)
(***************************************************************************)
EXTENDS Integers

CONSTANTS
  DayLen,    \* units in a day of 24 hours
  Now        \* the instant at which the handlers run

Wall(clock, instant) == IF instant < clock.at THEN instant ELSE instant + clock.by

\* date_naive() and time() of an instant.
DateOf(clock, instant) == Wall(clock, instant) \div DayLen
TimeOf(clock, instant) == Wall(clock, instant) % DayLen

\* The instants at which the clock shows a date and a time.
Candidates(clock, date, time) ==
  LET shown == date * DayLen + time
  IN {i \in {shown, shown - clock.by} : Wall(clock, i) = shown}

\* local_datetime: the earlier of two in a fold, the time of the call in a gap.
LocalDatetime(clock, date, time) ==
  LET found == Candidates(clock, date, time)
  IN IF found = {} THEN Now ELSE CHOOSE i \in found : \A j \in found : i <= j

\* The second time a fold shows the same time: the editor cannot tell it from
\* the first.
SecondPass(clock, instant) ==
  LocalDatetime(clock, DateOf(clock, instant), TimeOf(clock, instant)) < instant

Least(a, b) == IF a < b THEN a ELSE b
Greatest(a, b) == IF a > b THEN a ELSE b
=============================================================================
