---------------------------- MODULE MCEventForm -----------------------------
(* An instance of EventForm for TLC, around the last Friday of April 2026:  *)
(* a day of eight units with a clock change of one or two.                  *)
EXTENDS EventForm, TLC

Friday24 == FirstOf(12 * 26 + 3) + 23
At(day, time) == 8 * day + time

\* No clock change; one that skips Friday's midnight, as in Cairo; one that
\* skips a time of Friday morning; one that shows Friday's first two times twice,
\* and so makes it ten units long.
FourClocks ==
  {[at |-> 0, by |-> 0],
   [at |-> At(Friday24, 0), by |-> 1],
   [at |-> At(Friday24, 2), by |-> 1],
   [at |-> At(Friday24, 2), by |-> -2]}

\* Now is on the Thursday before, between two round times.
Thursday23 == At(Friday24 - 1, 5)

\* Friday and Monday, two columns of the five-day view; Thursday to pick.
TwoDays == <<Friday24, Friday24 + 3>>
ThreeDays == {Friday24 - 1, Friday24, Friday24 + 3}

Timed(start, end, shift, rule, reminders) ==
  [allDay |-> FALSE, text |-> "instant", start |-> start, end |-> end,
   shift |-> shift, rule |-> rule, reminders |-> reminders]
AllDay(first, after, rule) ==
  [allDay |-> TRUE, text |-> "date", start |-> first, end |-> after,
   shift |-> 0, rule |-> rule, reminders |-> <<>>]
Stored(freq, interval, tokens, end, unknown) ==
  [freq |-> freq, interval |-> interval, tokens |-> tokens, end |-> end, unknown |-> unknown]

\* A morning, one that lasts over midnight, one in the column of the day before,
\* one without a length, one day and three days, with rules the program knows
\* and rules it does not.
SomeEvents ==
  {Timed(At(Friday24, 1), At(Friday24, 4), 0,
         Stored("WEEKLY", 2, <<<<0, 4>>, <<0, 2>>>>, <<"AfterCount", 3>>, FALSE), <<0, 9>>),
   Timed(At(Friday24, 6), At(Friday24 + 1, 2), 0, NoRule, <<2>>),
   Timed(At(Friday24 + 1, 1), At(Friday24 + 1, 3), -1,
         Stored("DAILY", 0, <<>>, <<"OnDate", Friday24 + 9>>, TRUE), <<>>),
   Timed(At(Friday24 + 3, 3), At(Friday24 + 3, 3), 0,
         Stored("HOURLY", 1, <<>>, Never, FALSE), <<5>>),
   AllDay(Friday24, Friday24 + 1, Stored("MONTHLY", 100, <<<<-1, 5>>>>, Never, FALSE)),
   AllDay(Friday24, Friday24 + 3, Stored("WEEKLY", 1, <<<<0, 5>>>>, <<"OnTime", Friday24 + 9>>, FALSE))}

\* Every other week, on no day at all or on Sunday and Friday; every month.
TwoChoices ==
  {[freq |-> "WEEKLY", interval |-> 2, days |-> {}, end |-> <<"AfterCount", 13>>],
   [freq |-> "WEEKLY", interval |-> 1, days |-> {0, 5}, end |-> Never],
   [freq |-> "MONTHLY", interval |-> 1, days |-> {5}, end |-> <<"OnDate", Friday24 + 30>>]}

MinuteHourDay == <<1, 3, 6>>
SomeOffsets == {-9, -1, 2, 4}
=============================================================================
