---------------------------- MODULE MCNavigation ----------------------------
(* Instances of Navigation for TLC, around the leap day of 2024.           *)
EXTENDS Navigation, TLC

\* Thursday, 2024-02-22; the Sunday after it; the leap day; Saturday, March 2.
Thursday22 == FirstOf(12 * 24 + 1) + 21
LeapDays == {Thursday22, Thursday22 + 3, Thursday22 + 7, Thursday22 + 9}
LeapMonths == {12 * 24, 12 * 24 + 2}

Limits(click, change, night, start, fault) ==
  "click" :> click @@ "settings" :> change @@ "night" :> night @@ "start" :> start @@ "fault" :> fault
Limit21121 == Limits(2, 1, 1, 2, 1)
=============================================================================
