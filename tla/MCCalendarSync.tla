--------------------------- MODULE MCCalendarSync ---------------------------
(* Instances of CalendarSync for TLC.                                      *)
EXTENDS CalendarSync, TLC

CONSTANTS a1, a2, c1, c2, e1, e2

\* One calendar of each of two accounts, or a single one.
TwoAccounts == c1 :> a1 @@ c2 :> a2
SingleCalendar == c1 :> a1

InFirst == e1 :> c1 @@ e2 :> c1

Limits(clear, edit, fault) == "clear" :> clear @@ "edit" :> edit @@ "fault" :> fault
Limit111 == Limits(1, 1, 1)
Limit100 == Limits(1, 0, 0)

\* The rows an earlier run left: none, those of both calendars, or that of the
\* first behind a row that is gone.
Rows(c, d) == calOf[1] = c /\ calOf[2] = d
SomeRows == Rows(NoCalendar, NoCalendar) \/ Rows(c1, c2) \/ Rows(NoCalendar, c1)
SomeRowsInit == Init /\ SomeRows
SomeRowsSpec == SomeRowsInit /\ [][Next]_vars /\ Fairness
=============================================================================
