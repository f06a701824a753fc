----------------------- MODULE MCReminderScheduler -----------------------
(***************************************************************************)
(* Instances of ReminderScheduler for TLC: one event with two popup        *)
(* reminders, of which the second has the longer lead.                     *)
(***************************************************************************)
EXTENDS ReminderScheduler, TLC

CONSTANTS ev, cal, r1, r2

MCCalendarOf == ev :> cal
MCEventOf == [r \in Reminders |-> ev]
MCLeadOf == [r \in Reminders |-> IF r = r1 THEN 0 ELSE 1]

\* Either surface alone, both, and none.
AnySurface == {[toast |-> b, dialog |-> d] : b, d \in BOOLEAN}
\* Both surfaces, the dialog alone, none.
DialogOrNone == {s \in AnySurface : s.toast => s.dialog}
BothSurfaces == {[toast |-> TRUE, dialog |-> TRUE]}

Limits(c, e, f) == [b \in Budgets |-> CASE b = "click" -> c [] b = "edit" -> e [] b = "fault" -> f]

Limit111 == Limits(1, 1, 1)
Limit000 == Limits(0, 0, 0)
=============================================================================
