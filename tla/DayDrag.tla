------------------------------- MODULE DayDrag -------------------------------
(***************************************************************************)
(* The times a drag in the day grid stands for: app/src/main.rs.  Where    *)
(* the pointer is comes as the column it is over, relative to the one the  *)
(* drag began in, and as a number of units of time, the pixels divided by  *)
(* the height of a unit.  Dates is the row of days on the screen, which    *)
(* may leave weekends out.                                                 *)
(***************************************************************************)
EXTENDS LocalTime, Sequences

CONSTANTS
  Dates,        \* the days of the columns
  Quarter,      \* 15 minutes: the default snap and the shortest event
  FineSnaps     \* the snaps with Ctrl and with Ctrl+Shift

Zones == {"Move", "ResizeTop", "ResizeBottom"}
Snaps == {Quarter} \cup FineSnaps

\* snap_minutes_since_midnight: the nearest multiple of the snap.
Snapped(units, snap) == ((units + snap \div 2) \div snap) * snap

\* The column a drag is over; only a move changes columns.
TargetColumn(drag, shift) ==
  IF drag.zone = "Move" THEN Greatest(1, Least(Len(Dates), drag.column + shift))
  ELSE drag.column

\* Mutant: a move is clamped at the end of the day only.
DragTimes_NoFloor(clock, drag, shift, offset, snap) ==
  LET midnight == LocalDatetime(clock, DateOf(clock, drag.start), 0)
      dayStart == LocalDatetime(clock, Dates[TargetColumn(drag, shift)], 0)
      dayEnd == dayStart + DayLen
      duration == drag.end - drag.start
      at(instant) == dayStart + Snapped(instant - midnight + offset, snap)
  IN CASE drag.zone = "Move" ->
            LET start == Least(at(drag.start), dayEnd - duration)
            IN [start |-> start, end |-> start + duration]
       [] drag.zone = "ResizeTop" ->
            [start |-> Least(Greatest(at(drag.start), dayStart), drag.end - Quarter),
             end |-> drag.end]
       [] drag.zone = "ResizeBottom" ->
            [start |-> drag.start,
             end |-> Least(Greatest(at(drag.end), drag.start + Quarter), dayEnd)]

\* compute_day_drag_times: the time of day is read against the midnight of the
\* event's own date, and applied to the midnight of the column it is over; a
\* day is 24 hours long whatever the clock does in it.
DragTimes(clock, drag, shift, offset, snap) ==
  LET midnight == LocalDatetime(clock, DateOf(clock, drag.start), 0)
      dayStart == LocalDatetime(clock, Dates[TargetColumn(drag, shift)], 0)
      dayEnd == dayStart + DayLen
      duration == drag.end - drag.start
      at(instant) == dayStart + Snapped(instant - midnight + offset, snap)
  IN CASE drag.zone = "Move" ->
            LET start == Least(Greatest(at(drag.start), dayStart), dayEnd - duration)
            IN [start |-> start, end |-> start + duration]
       [] drag.zone = "ResizeTop" ->
            [start |-> Least(Greatest(at(drag.start), dayStart), drag.end - Quarter),
             end |-> drag.end]
       [] drag.zone = "ResizeBottom" ->
            [start |-> drag.start,
             end |-> Least(Greatest(at(drag.end), drag.start + Quarter), dayEnd)]

\* compute_day_create_range and the drag's end: every slot the pointer swept
\* from its anchor, at least one, inside the day.
CreateRange(clock, date, anchor, pointer, snap) ==
  LET low == Least(anchor, pointer)
      high == Greatest(anchor, pointer)
      start == Greatest(0, Least((low \div snap) * snap, DayLen - snap))
      end == Least(Greatest((-((-high) \div snap)) * snap, start + snap), DayLen)
      midnight == LocalDatetime(clock, date, 0)
  IN [start |-> midnight + start, end |-> midnight + end]

\* An event of one day, as the clock on the wall has it: it begins on the date,
\* ends on it or at the midnight after, and is a quarter of an hour long or more.
FitsDay(clock, date, times) ==
  /\ DateOf(clock, times.start) = date
  /\ DateOf(clock, times.end - 1) = date
  /\ times.start + Quarter <= times.end

\* A date that has a midnight and the 24 hours from it on.
WholeDay(clock, date) ==
  /\ Candidates(clock, date, 0) # {}
  /\ \A i \in 0..DayLen - 1 : DateOf(clock, LocalDatetime(clock, date, 0) + i) = date

\* A card of a quarter of an hour or more, and, if it is moved, of 24 hours or
\* less or, if it is resized, within the 24 hours from its column's midnight.
Draggable(clock, drag) ==
  LET midnight == LocalDatetime(clock, Dates[drag.column], 0)
  IN /\ drag.start + Quarter <= drag.end
     /\ IF drag.zone = "Move" THEN drag.end - drag.start <= DayLen
        ELSE midnight <= drag.start /\ drag.end <= midnight + DayLen

\* As long as before after a move, with the other end where it was after a resize.
KeepsTheRest(drag, times) ==
  /\ drag.zone = "Move" => times.end - times.start = drag.end - drag.start
  /\ drag.zone = "ResizeTop" => times.end = drag.end
  /\ drag.zone = "ResizeBottom" => times.start = drag.start
=============================================================================
