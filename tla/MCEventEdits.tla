---------------------------- MODULE MCEventEdits ----------------------------
(* Instances of EventEdits for TLC.                                        *)
EXTENDS EventEdits, TLC

CONSTANTS A, B

CalendarSymmetry == Permutations({A, B})

\* An all-day event, and a timed one without title; or a timed and an all-day one.
TwoBodies ==
  {[title |-> EmptyTitle, allDay |-> TRUE, body |-> 1],
   [title |-> NoTitle, allDay |-> FALSE, body |-> 2]}
AllDayToo == {[title |-> EmptyTitle, allDay |-> b, body |-> 1] : b \in BOOLEAN}

Lists == {<<>>, <<10>>}

Limits(edit, sync, clear, fault) ==
  "edit" :> edit @@ "sync" :> sync @@ "clear" :> clear @@ "fault" :> fault
Limit2111 == Limits(2, 1, 1, 1)
Limit1000 == Limits(1, 0, 0, 0)

=============================================================================
