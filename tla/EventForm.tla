----------------------------- MODULE EventForm ------------------------------
(***************************************************************************)
(* One event between the store, the editor's form and the day grid:        *)
(* show_edit_event_dialog and its fields, default_new_event and the drags  *)
(* of app/src/main.rs.                                                     *)
(*                                                                         *)
(* The store keeps times as text, the form as dates and times of the       *)
(* clock on the wall, the drags as instants.  An event that was only       *)
(* looked at, or only moved, must come back the same through each of the   *)
(* three.  Which panel the form is in is in EditorPanels, the queue a save *)
(* goes into in EventEdits.  Title, place, color and the like go through   *)
(* the form as they are and are left out.                                  *)
(***************************************************************************)
EXTENDS DayDrag, RecurrenceRules

CONSTANTS
  Clocks,          \* the clock changes to look at, see LocalTime
  GoogleEvents,    \* the events a sync pass may bring
  HalfHour,        \* what Save makes of a timed event that ends too early
  DefaultDuration, \* AppSettings.default_event_duration_minutes
  RoundTo,         \* that duration, within 5 to 60 minutes
  DefaultReminder, \* AppSettings.default_reminder_minutes
  NewReminder,     \* what "Add notification" adds
  Units,           \* REMINDER_UNITS: the lengths of a unit, shortest first
  SpinMax,         \* the largest quantity of a reminder's spin button
  MaxReminders,    \* MAX_REMINDERS
  PickDates,       \* bound: the dates picked
  PickTimes,       \* bound: the times picked or typed in
  Pointers,        \* bound: where a drag over the empty grid begins and ends
  Offsets,         \* bound: how far a drag goes
  CustomChoices,   \* bound: what the custom dialog is filled in with
  MaxEdits,        \* bound: edits, drags and sync passes in a behaviour
  None

\* An all-day event with two dates, the second later, or a timed one with two
\* instants in order.
WellFormed(e) ==
  \/ e.allDay /\ e.text = "date" /\ e.start < e.end
  \/ ~e.allDay /\ e.text = "instant" /\ e.start <= e.end

StoredEvents ==
  [allDay : BOOLEAN, text : {"date", "instant"}, start : Int, end : Int, shift : Int,
   rule : StoredRules, reminders : Seq(Nat)]

ASSUME TimesAssumption ==
  /\ {DayLen, Quarter, HalfHour, RoundTo} \cup FineSnaps \subseteq Nat \ {0}
  /\ {Now, DefaultDuration} \cup PickDates \cup Pointers \cup Offsets \subseteq Int
  /\ PickTimes \subseteq 0..DayLen - 1
  /\ Dates \in Seq(Int)
  /\ Clocks \subseteq [at : Int, by : Int]

ASSUME FieldsAssumption ==
  /\ Units \in Seq(Nat \ {0}) /\ Units # <<>> /\ Units[1] = 1
  /\ {DefaultReminder, NewReminder, SpinMax, MaxEdits} \subseteq Nat
  /\ MaxReminders \in Nat \ {0}
  /\ CustomChoices \subseteq [freq : Frequencies, interval : Nat \ {0}, days : SUBSET (0..6),
                             end : RuleEnds]

\* What Google sends is in order, and has no more reminders than the form.
ASSUME GoogleAssumption ==
  /\ GoogleEvents \subseteq StoredEvents
  /\ \A e \in GoogleEvents : WellFormed(e) /\ Len(e.reminders) <= MaxReminders

VARIABLES
  clock,   \* the zone of the computer
  event,   \* the row of events, None if there is none
  form,    \* the fields of the open editor, None if it is closed
  grab,    \* DayDragState and the column of the card, NoGrab if none is held
  edits,   \* edits, drags and sync passes so far
  spoiled  \* history: a drag was committed to an event that a sync pass had
           \* made an all-day one, or of the bottom edge of a card that begins
           \* too late, or of a card that such a drag had left ending first

vars == <<clock, event, form, grab, edits, spoiled>>

NoGrab == [zone |-> "None"]

Quantities == {0, SpinMax}

(* Between the store and the fields *)

\* minutes_to_quantity_unit: the longest unit that divides a lead time, and the
\* spin button its quantity is shown in.
UnitOf(minutes) ==
  Latest({u \in DOMAIN Units : u = 1 \/ (minutes # 0 /\ minutes % Units[u] = 0)})
ReminderRow(minutes) ==
  [quantity |-> Least(minutes \div Units[UnitOf(minutes)], SpinMax), unit |-> UnitOf(minutes)]

\* split_date_time: a text that is no date stands for now in an all-day event.
SplitDate(e, value) ==
  IF ~e.allDay THEN DateOf(clock, value)
  ELSE IF e.text = "date" THEN value ELSE DateOf(clock, Now)
SplitTime(e, value) == IF e.allDay THEN 0 ELSE TimeOf(clock, value)

\* Mutant: the end of an all-day event is shown as it is stored.
Opened_ExclusiveEnd(e, draft) ==
  [draft |-> draft, allDay |-> e.allDay,
   startDate |-> SplitDate(e, e.start), startTime |-> SplitTime(e, e.start),
   endDate |-> SplitDate(e, e.end), endTime |-> SplitTime(e, e.end),
   rule |-> FromRRule(e.rule),
   rows |-> [i \in DOMAIN e.reminders |-> ReminderRow(e.reminders[i])],
   canAdd |-> Len(e.reminders) < MaxReminders]

\* show_edit_event_dialog: the stored end of an all-day event is the day after
\* its last one, which is the one shown.
Opened(e, draft) ==
  LET start == SplitDate(e, e.start)
      end == SplitDate(e, e.end)
  IN [draft |-> draft, allDay |-> e.allDay,
      startDate |-> start, startTime |-> SplitTime(e, e.start),
      endDate |-> IF e.allDay THEN Greatest(end - 1, start) ELSE end,
      endTime |-> SplitTime(e, e.end),
      rule |-> FromRRule(e.rule),
      rows |-> [i \in DOMAIN e.reminders |-> ReminderRow(e.reminders[i])],
      canAdd |-> Len(e.reminders) < MaxReminders]

\* Mutant: a timed event may end before it starts.
Saved_AnyEnd(f) ==
  [allDay |-> f.allDay, shift |-> 0,
   text |-> IF f.allDay THEN "date" ELSE "instant",
   start |-> IF f.allDay THEN f.startDate ELSE LocalDatetime(clock, f.startDate, f.startTime),
   end |-> IF f.allDay THEN Greatest(f.endDate, f.startDate) + 1
           ELSE LocalDatetime(clock, Greatest(f.endDate, f.startDate), f.endTime),
   rule |-> ToRRule(f.rule),
   reminders |-> [i \in DOMAIN f.rows |-> f.rows[i].quantity * Units[f.rows[i].unit]]]

\* What the Save handler makes of the fields.
Saved(f) ==
  LET lastDay == Greatest(f.endDate, f.startDate)
      start == LocalDatetime(clock, f.startDate, f.startTime)
      end == LocalDatetime(clock, lastDay, f.endTime)
      timed == [start |-> start, end |-> IF end <= start THEN start + HalfHour ELSE end]
  IN [allDay |-> f.allDay, shift |-> 0,
      text |-> IF f.allDay THEN "date" ELSE "instant",
      start |-> IF f.allDay THEN f.startDate ELSE timed.start,
      end |-> IF f.allDay THEN lastDay + 1 ELSE timed.end,
      rule |-> ToRRule(f.rule),
      reminders |-> [i \in DOMAIN f.rows |-> f.rows[i].quantity * Units[f.rows[i].unit]]]

NewEvent(start, end) ==
  [allDay |-> FALSE, text |-> "instant", start |-> start, end |-> end, shift |-> 0,
   rule |-> NoRule, reminders |-> <<DefaultReminder>>]

Init ==
  /\ clock \in Clocks
  /\ event \in GoogleEvents \cup {None}
  /\ form = None
  /\ grab = NoGrab
  /\ edits = 0
  /\ spoiled = FALSE

(* Opening the form *)

\* Bound: no card is held while the form is open.  The two share the row and
\* nothing else.
Show(f) ==
  /\ form = None /\ grab = NoGrab
  /\ form' = f
  /\ UNCHANGED <<clock, event, grab, edits, spoiled>>

\* The Create button: default_new_event, at the next round time.
Create ==
  LET now == TimeOf(clock, Now)
      start == Now + ((RoundTo - (now % RoundTo)) % RoundTo)
  IN event = None /\ Show(Opened(NewEvent(start, start + DefaultDuration), TRUE))

\* A drag over the empty grid of a column.
CreateDrag(column, anchor, pointer, snap) ==
  LET range == CreateRange(clock, Dates[column], anchor, pointer, snap)
  IN event = None /\ Show(Opened(NewEvent(range.start, range.end), TRUE))

\* A double click on the card, or Edit in its popover.
Open == event # None /\ Show(Opened(event, FALSE))

(* Its fields *)

Edit(f) ==
  /\ form # None
  /\ edits < MaxEdits
  /\ form' = f
  /\ edits' = edits + 1
  /\ UNCHANGED <<clock, event, grab, spoiled>>

PickDate(field, date) == form # None /\ Edit([form EXCEPT ![field] = date])

\* A row of the list, or a time typed in; the times go with the all-day box.
PickTime(field, time) ==
  form # None /\ ~form.allDay /\ Edit([form EXCEPT ![field] = time])

ToggleAllDay == form # None /\ Edit([form EXCEPT !.allDay = ~form.allDay])

ChoosePreset ==
  /\ form # None
  /\ \E rule \in Presets(form.startDate) : Edit([form EXCEPT !.rule = rule])

\* "Custom...", as it opens or filled in anew, and Done.
ChooseCustom ==
  /\ form # None
  /\ \E filled \in {CustomShown(form.rule, form.startDate)} \cup CustomChoices :
       Edit([form EXCEPT !.rule = CustomDone(filled, form.startDate)])

AddReminder ==
  /\ form # None /\ form.canAdd
  /\ Edit([form EXCEPT !.rows = Append(@, ReminderRow(NewReminder)),
                       !.canAdd = Len(form.rows) + 1 < MaxReminders])

RemoveReminder(i) ==
  /\ form # None /\ i \in DOMAIN form.rows
  /\ Edit([form EXCEPT !.rows = RemoveAt(@, i), !.canAdd = TRUE])

SetReminder(i, quantity, unit) ==
  /\ form # None /\ i \in DOMAIN form.rows
  /\ Edit([form EXCEPT !.rows[i] = [quantity |-> quantity, unit |-> unit]])

\* A drag of the preview a draft has in the grid: it reads the fields, and
\* writes them back with every motion, always against what it first read.
DraftDrag(zone, shift, offset, snap) ==
  /\ form # None /\ form.draft /\ ~form.allDay
  /\ \E column \in DOMAIN Dates :
       LET start == LocalDatetime(clock, form.startDate, form.startTime)
           end == LocalDatetime(clock, form.endDate, form.endTime)
           held == [zone |-> zone, start |-> start, end |-> end, column |-> column]
           times == DragTimes(clock, held, shift, offset, snap)
       IN /\ Dates[column] = DateOf(clock, start)
          /\ Edit([form EXCEPT !.startDate = DateOf(clock, times.start),
                               !.startTime = TimeOf(clock, times.start),
                               !.endDate = DateOf(clock, times.end),
                               !.endTime = TimeOf(clock, times.end)])

(* Leaving it *)

\* A row that is gone is not updated, and no more than that is said of it.
Save ==
  /\ form # None
  /\ form' = None
  /\ IF event # None \/ form.draft
     THEN event' = Saved(form) /\ spoiled' = FALSE
     ELSE UNCHANGED <<event, spoiled>>
  /\ UNCHANGED <<clock, grab, edits>>

\* Closed, discarded, or saved with no calendar or a store that fails.
CloseForm ==
  /\ form # None
  /\ form' = None
  /\ UNCHANGED <<clock, event, grab, edits, spoiled>>

\* A sync pass writes the row, or takes it away, under the open form and
\* under a drag.  A row that comes back has another id, so it is left out while
\* anything holds the old one.
SyncDelivers(e) ==
  /\ e # event
  /\ event = None => form = None /\ grab = NoGrab
  /\ edits < MaxEdits
  /\ event' = e
  /\ edits' = edits + 1
  /\ spoiled' = FALSE
  /\ UNCHANGED <<clock, form, grab>>

(* The drag of a card in the day grid *)

\* The card stands in the column of the date its text says.
Grab(zone) ==
  /\ form = None /\ grab = NoGrab
  /\ event # None /\ ~event.allDay
  /\ \E column \in DOMAIN Dates :
       /\ Dates[column] = DateOf(clock, event.start) + event.shift
       /\ grab' = [zone |-> zone, start |-> event.start, end |-> event.end, column |-> column]
  /\ UNCHANGED <<clock, event, form, edits, spoiled>>

\* The bottom edge of a card stops 24 hours after the midnight of its column.  A
\* card in the 25th hour of a day, or in a column that is not its day's, may
\* begin after that.
BeginsTooLate(held) ==
  /\ held.zone = "ResizeBottom"
  /\ LocalDatetime(clock, Dates[held.column], 0) + DayLen < held.start

\* commit_day_drag: the row is read anew, and keeps all but its two times.
Committed(e, times) ==
  [e EXCEPT !.start = times.start, !.end = times.end, !.text = "instant", !.shift = 0]

Release(shift, offset, snap) ==
  /\ grab # NoGrab
  /\ edits < MaxEdits
  /\ grab' = NoGrab
  /\ edits' = edits + 1
  /\ IF event = None THEN UNCHANGED <<event, spoiled>>
     ELSE /\ event' = Committed(event, DragTimes(clock, grab, shift, offset, snap))
          /\ spoiled' = (spoiled \/ event.allDay \/ BeginsTooLate(grab) \/ grab.end < grab.start)
  /\ UNCHANGED <<clock, form>>

\* commit_month_drag: a card of the month grid dropped on another day's cell.
\* Both texts move by the days between that day and the date the start's text
\* says, and keep their offset from UTC.
MonthDrop(date) ==
  /\ form = None /\ grab = NoGrab
  /\ event # None
  /\ edits < MaxEdits
  /\ LET dated == event.text = "date"
         shown == IF dated THEN event.start ELSE DateOf(clock, event.start) + event.shift
         move == (date - shown) * (IF dated THEN 1 ELSE DayLen)
     IN /\ move # 0
        /\ event' = [event EXCEPT !.start = @ + move, !.end = @ + move,
                       !.shift = IF dated THEN 0
                                 ELSE date - DateOf(clock, event.start + move)]
  /\ edits' = edits + 1
  /\ UNCHANGED <<clock, form, grab, spoiled>>

\* A click, Escape, a release before the hold has engaged, or a row or a
\* calendar that cannot be read.
LetGo ==
  /\ grab # NoGrab
  /\ grab' = NoGrab
  /\ UNCHANGED <<clock, event, form, edits, spoiled>>

Next ==
  \/ Create
  \/ \E column \in DOMAIN Dates, a, b \in Pointers, snap \in Snaps :
       CreateDrag(column, a, b, snap)
  \/ Open
  \/ \E field \in {"startDate", "endDate"}, date \in PickDates : PickDate(field, date)
  \/ \E field \in {"startTime", "endTime"}, time \in PickTimes : PickTime(field, time)
  \/ ToggleAllDay
  \/ ChoosePreset
  \/ ChooseCustom
  \/ AddReminder
  \/ \E i \in 1..MaxReminders : RemoveReminder(i)
  \/ \E i \in 1..MaxReminders, quantity \in Quantities, unit \in DOMAIN Units :
       SetReminder(i, quantity, unit)
  \/ \E zone \in Zones, shift \in {-1, 0, 1}, offset \in Offsets, snap \in Snaps :
       DraftDrag(zone, shift, offset, snap)
  \/ Save
  \/ CloseForm
  \/ \E e \in GoogleEvents \cup {None} : SyncDelivers(e)
  \/ \E zone \in Zones : Grab(zone)
  \/ \E shift \in {-1, 0, 1}, offset \in Offsets, snap \in Snaps :
       Release(shift, offset, snap)
  \/ \E date \in PickDates : MonthDrop(date)
  \/ LetGo

Spec == Init /\ [][Next]_vars

-----------------------------------------------------------------------------
(* Properties *)

\* The fields are within what their widgets hold, and the store has a
\* well-formed event, through edits, drags and what a sync pass does under them
\* (the Save handler's "end_dt <= start_dt", compute_day_drag_times).
TypeOK ==
  /\ edits \in 0..MaxEdits
  /\ form # None =>
       /\ Len(form.rows) <= MaxReminders
       /\ \A i \in DOMAIN form.rows : form.rows[i].quantity \in 0..SpinMax
       /\ {form.startTime, form.endTime} \subseteq 0..DayLen - 1
  /\ event # None /\ ~spoiled => WellFormed(event)

\* What the fields can say: no part of a rule the program skips, no time of day
\* in the end of a rule, which from_rrule_string cuts off (recurrence.rs:194), no timed
\* event without a length, no time a fold shows a second time, no reminder
\* beyond the spin button.
Expressible(e) ==
  /\ Parsed(e.rule)
  /\ \A i \in DOMAIN e.reminders :
       e.reminders[i] \div Units[UnitOf(e.reminders[i])] <= SpinMax
  /\ ~e.allDay => /\ e.start < e.end
                  /\ ~SecondPass(clock, e.start) /\ ~SecondPass(clock, e.end)

\* An event that is opened and saved without a change stays as it is, in its
\* days, its times, its repeat rule and its reminders, and so does its rule
\* in the custom dialog: whatever edits and drags made it (split_date_time and
\* the Save handler, from_rrule_string and to_rrule_string,
\* minutes_to_quantity_unit).
ReopenKeeps ==
  event # None /\ ~spoiled /\ Expressible(event) =>
    LET f == Opened(event, FALSE)
    IN /\ Saved(f) = [event EXCEPT !.shift = 0]
       /\ CustomKeeps(f.rule, f.startDate)

\* A card that is dropped on a day with a midnight and 24 hours is an event of
\* that day, by the dates on the clock, and a quarter of an hour long or more; a
\* move keeps its length, a resize its other end (compute_day_drag_times), and
\* what a sync pass did to the row meanwhile does not change that.  On a day that
\* the clock cuts short the comment "clamped to the event's own calendar day"
\* (main.rs:5185-5186) is not true: its end is taken to be midnight plus 24 hours.
DragFits ==
  [][\A shift \in {-1, 0, 1}, offset \in Offsets, snap \in Snaps :
       LET date == Dates[TargetColumn(grab, shift)]
       IN Release(shift, offset, snap) /\ event # None /\ Draggable(clock, grab) =>
            /\ WholeDay(clock, date) => FitsDay(clock, date, event')
            /\ KeepsTheRest(grab, event')]_vars

=============================================================================
