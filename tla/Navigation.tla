----------------------------- MODULE Navigation -----------------------------
(***************************************************************************)
(* What the main window shows and how one moves through it (app/src/       *)
(* main.rs): the view, the current date, the range dragged on the mini     *)
(* calendar, the queue of messages that change them, the refresh that      *)
(* paints them, and the view that a closed window leaves for the next one. *)
(***************************************************************************)
EXTENDS Gregorian, Sequences

CONSTANTS
  FirstToday,  \* the day of the first start
  PickDays,    \* bound: the days the user clicks and drags over
  PickMonths,  \* bound: the months the user picks
  FirstDays,   \* first days of the week the user chooses from, 0 = Sunday
  Ranges,      \* lengths of the table view; 0 means every event
  None,        \* an Option that is empty
  MaxInbox,    \* bound: messages waiting
  Limit        \* bound: how many clicks, settings, nights, starts and faults happen

Budgets == {"click", "settings", "night", "start", "fault"}

ASSUME NavigationAssumption ==
  /\ FirstToday \in Int
  /\ PickDays \subseteq Int /\ PickMonths \subseteq Int
  /\ FirstDays \subseteq 0..6
  /\ Ranges \subseteq Nat
  /\ None \notin Int
  /\ MaxInbox \in Nat
  /\ Limit \in [Budgets -> Nat]

\* ViewMode.  "Custom" is reached by a drag only, never by SetView.
Choosable == {"Day", "Week", "Month", "Year", "Table", "Schedule", "FiveDay"}
Views == Choosable \cup {"Custom"}

MaxDrag == 8

Settings == [weekends : BOOLEAN, firstDay : FirstDays, range : Ranges]

\* AppMsg, those that move something.  "Refresh" stands for the messages whose
\* handler only paints: EventUpdated, Resize, SearchChanged and others.
Message ==
  [kind : {"Today", "PrevMonth", "NextMonth", "PrevPeriod", "NextPeriod", "Refresh"}]
    \cup [kind : {"SetView"}, view : Choosable]
    \cup [kind : {"MiniCalendarJumpMonth", "JumpToDate"}, date : Int]
    \cup [kind : {"SetCustomViewDates"}, dates : SUBSET Int]

VARIABLES
  running,   \* the window is open
  view,      \* App::current_view
  date,      \* App::current_date
  custom,    \* App::custom_view_dates, a set: the code keeps them in order
  mini,      \* App::mini_calendar_month
  inbox,     \* messages waiting for the component
  screen,    \* what was painted last
  settings,  \* the settings that the views read
  saved,     \* last_view_mode, last_view_date, last_custom_view_dates
  today,
  closing,   \* ghost: what was on screen when the window was closed, until the
             \* user touches anything
  spent

model == <<view, date, custom, mini>>
vars == <<running, model, inbox, screen, settings, saved, today, closing, spent>>

Spend(b) == spent[b] < Limit[b] /\ spent' = [spent EXCEPT ![b] = @ + 1]

-----------------------------------------------------------------------------
(* The days that each view is about.                                       *)

Span(day, n) == day..day + n - 1

WeekWindow(day, s) ==
  LET start == day - ((Weekday(day) - s.firstDay) % 7)
  IN {x \in Span(start, 7) : s.weekends \/ ~IsWeekend(x)}

FiveDayWindow(day, s) ==
  LET anchor == IF IsWeekend(day) THEN StepWeekdays(day, 1) ELSE day
  IN IF s.weekends THEN day - 2..day + 2 ELSE {StepWeekdays(anchor, n) : n \in -2..2}

\* A table over 0 days has no limits: no days are named.
Shown(v, day, dates, s) ==
  CASE v = "Day" -> {day}
    [] v = "Week" -> WeekWindow(day, s)
    [] v = "FiveDay" -> FiveDayWindow(day, s)
    [] v = "Custom" -> dates
    [] v = "Month" -> DaysOfMonth(MonthOf(day))
    [] v = "Year" -> DaysOfYear(YearOf(day))
    [] v = "Schedule" -> Span(day, 30)
    [] v = "Table" -> Span(day, s.range)

Shows(days, day) == days = {} \/ day \in days

MiniMonth(day, paged) == MonthOf(IF paged = None THEN day ELSE paged)

Painting(v, day, dates, paged, s) ==
  [view |-> v, days |-> Shown(v, day, dates, s), mini |-> MiniMonth(day, paged),
   range |-> IF v = "Custom" THEN dates ELSE {}]

\* App::refresh loads the settings afresh.
Refresh == screen' = Painting(view', date', custom', mini', settings)

\* App::refresh_mini_calendar.
RefreshMini ==
  screen' = [screen EXCEPT !.mini = MiniMonth(date', mini'),
                           !.range = IF view' = "Custom" THEN custom' ELSE {}]

\* The cells of the mini calendar: whole weeks from Sunday on.
MiniCells ==
  LET first == FirstOf(screen.mini)
      last == FirstOf(screen.mini + 1) - 1
  IN first - Weekday(first)..last + (6 - Weekday(last))

\* A drag from one day to another, cut off on the far side.
CappedDateRange(origin, other) ==
  {x \in origin - (MaxDrag - 1)..origin + (MaxDrag - 1) :
     (origin <= x /\ x <= other) \/ (other <= x /\ x <= origin)}

-----------------------------------------------------------------------------
(* Handlers.                                                               *)

\* Days one step of a view moves its anchor by, forward (1) or back (-1).
\* Mutant: a table over n days moves by 30 like the schedule.
Step_TableMonth(direction) ==
  CASE view = "Month" -> ShiftMonth(date, direction)
    [] view = "Year" -> ShiftMonth(date, 12 * direction)
    [] view = "Day" -> date + direction
    [] view = "Schedule" -> date + 30 * direction
    [] view = "Table" -> date + 30 * direction
    [] view = "Week" -> date + 7 * direction
    [] view = "FiveDay" /\ settings.weekends -> date + 5 * direction
    [] view = "FiveDay" /\ ~settings.weekends -> StepWeekdays(date, 5 * direction)
Step(direction) ==
  CASE view = "Month" -> ShiftMonth(date, direction)
    [] view = "Year" -> ShiftMonth(date, 12 * direction)
    [] view = "Day" -> date + direction
    [] view = "Schedule" -> date + 30 * direction
    [] view = "Table" -> date + direction * (IF settings.range = 0 THEN 1 ELSE settings.range)
    [] view = "Week" -> date + 7 * direction
    [] view = "FiveDay" /\ settings.weekends -> date + 5 * direction
    [] view = "FiveDay" /\ ~settings.weekends -> StepWeekdays(date, 5 * direction)

\* PrevPeriod, NextPeriod: a dragged range moves by its own length.
Period(direction) ==
  /\ mini' = None
  /\ IF view = "Custom"
     THEN /\ custom' = {x + direction * Cardinality(custom) : x \in custom}
          /\ date' = IF custom = {} THEN date ELSE Earliest(custom')
     ELSE date' = Step(direction) /\ UNCHANGED custom
  /\ UNCHANGED view
  /\ Refresh

GoToday ==
  /\ date' = today /\ mini' = None
  /\ UNCHANGED <<view, custom>>
  /\ Refresh

\* PrevMonth, NextMonth: the mini calendar alone.
PageMini(direction) ==
  /\ mini' = ShiftMonth(IF mini = None THEN date ELSE mini, direction)
  /\ UNCHANGED <<view, date, custom>>
  /\ RefreshMini

JumpMini(month) ==
  /\ mini' = month
  /\ UNCHANGED <<view, date, custom>>
  /\ RefreshMini

SetView(v) ==
  /\ view' = v
  /\ UNCHANGED <<date, custom, mini>>
  /\ Refresh

SetCustomViewDates(dates) ==
  /\ view' = "Custom" /\ mini' = None /\ custom' = dates
  /\ date' = IF dates = {} THEN date ELSE Earliest(dates)
  /\ Refresh

\* Mutant: a click outside the dragged range stays in it.
JumpToDate_StaysInRange(day) ==
  /\ date' = day /\ mini' = None
  /\ UNCHANGED <<view, custom>>
  /\ Refresh
JumpToDate(day) ==
  /\ view' = IF view = "Custom" /\ day \notin custom THEN "Day" ELSE view
  /\ date' = day /\ mini' = None
  /\ UNCHANGED custom
  /\ Refresh

Repaint == UNCHANGED model /\ Refresh

Handle ==
  /\ running /\ inbox # <<>>
  /\ LET m == Head(inbox)
     IN CASE m.kind = "Today" -> GoToday
          [] m.kind = "PrevMonth" -> PageMini(-1)
          [] m.kind = "NextMonth" -> PageMini(1)
          [] m.kind = "MiniCalendarJumpMonth" -> JumpMini(m.date)
          [] m.kind = "PrevPeriod" -> Period(-1)
          [] m.kind = "NextPeriod" -> Period(1)
          [] m.kind = "SetView" -> SetView(m.view)
          [] m.kind = "SetCustomViewDates" -> SetCustomViewDates(m.dates)
          [] m.kind = "JumpToDate" -> JumpToDate(m.date)
          [] m.kind = "Refresh" -> Repaint
  /\ inbox' = Tail(inbox)
  /\ UNCHANGED <<running, settings, saved, today, closing, spent>>

-----------------------------------------------------------------------------
(* The user.                                                               *)

\* Header buttons, keys and the view switcher.
\* Mutant: the switcher lists every ViewMode.
HeaderClicks_OfferCustom ==
  {<<[kind |-> k]>> : k \in {"Today", "PrevPeriod", "NextPeriod"}}
    \cup {<<[kind |-> "SetView", view |-> v]>> : v \in Views}
HeaderClicks ==
  {<<[kind |-> k]>> : k \in {"Today", "PrevPeriod", "NextPeriod"}}
    \cup {<<[kind |-> "SetView", view |-> v]>> : v \in Choosable}

\* The mini calendar: its arrows, its quick jump, a day (also one picked in an
\* editor's date button), a drag from day to day.
\* Mutant: a drag that ends where it began counts.
RangeDrops_OfOneDay ==
  {CappedDateRange(d[1], d[2]) : d \in (MiniCells \cap PickDays) \X (MiniCells \cap PickDays)}
RangeDrops ==
  {r \in {CappedDateRange(d[1], d[2]) : d \in (MiniCells \cap PickDays) \X (MiniCells \cap PickDays)} :
     Cardinality(r) >= 2}

MiniClicks ==
  {<<[kind |-> k]>> : k \in {"PrevMonth", "NextMonth"}}
    \cup {<<[kind |-> "MiniCalendarJumpMonth", date |-> FirstOf(m)]>> : m \in PickMonths}
    \cup {<<[kind |-> "JumpToDate", date |-> d]>> : d \in PickDays}
    \cup {<<[kind |-> "SetCustomViewDates", dates |-> r]>> : r \in RangeDrops}

\* The headings of a year's months, and the day numbers of a month and a schedule.
HeadingClicks ==
  LET open(day, v) == <<[kind |-> "JumpToDate", date |-> day], [kind |-> "SetView", view |-> v]>>
  IN CASE screen.view = "Year" ->
            {open(FirstOf(m), "Month") : m \in {m \in PickMonths : FirstOf(m) \in screen.days}}
       [] screen.view \in {"Month", "Schedule"} ->
            {open(d, "Day") : d \in screen.days \cap PickDays}
       [] OTHER -> {}

Click ==
  /\ running
  /\ \E batch \in HeaderClicks \cup MiniClicks \cup HeadingClicks :
       /\ Len(inbox) + Len(batch) <= MaxInbox
       /\ inbox' = inbox \o batch
  /\ closing' = None
  /\ Spend("click")
  /\ UNCHANGED <<running, model, screen, settings, saved, today>>

\* The checkbox in the view switcher, the range in the table's header and the
\* preferences window save a field and send EventUpdated.
\* Mutant: they do not.
Announce_Nothing == inbox
Announce == Append(inbox, [kind |-> "Refresh"])
ChangeSettings ==
  /\ running /\ Len(inbox) < MaxInbox
  /\ settings' \in Settings /\ settings' # settings
  /\ inbox' = Announce
  /\ closing' = None
  /\ Spend("settings")
  /\ UNCHANGED <<running, model, screen, saved, today>>

\* The window got a size, its first or another.
Resize ==
  /\ running /\ inbox = <<>>
  /\ inbox' = <<[kind |-> "Refresh"]>>
  /\ UNCHANGED <<running, model, screen, settings, saved, today, closing, spent>>

Midnight ==
  /\ Spend("night")
  /\ today' = today + 1
  /\ UNCHANGED <<running, model, inbox, screen, settings, saved, closing>>

-----------------------------------------------------------------------------
(* The window closes, and is opened again.                                 *)

\* Mutant: the range is left out.
Remembered_NoRange == [view |-> view, date |-> date, custom |-> {}]
Remembered ==
  [view |-> view, date |-> date, custom |-> IF view = "Custom" THEN custom ELSE {}]

\* App::shutdown.  Nothing waits for messages that are still queued.
Close ==
  /\ running /\ running' = FALSE
  /\ saved' = Remembered
  /\ closing' = IF inbox = <<>> THEN screen ELSE None
  /\ inbox' = <<>>
  /\ UNCHANGED <<model, screen, settings, today, spent>>

\* The blob cannot be written, or the process dies.
CloseFails ==
  /\ running /\ running' = FALSE
  /\ Spend("fault")
  /\ inbox' = <<>> /\ closing' = None
  /\ UNCHANGED <<model, screen, settings, saved, today>>

\* What App::init queues behind its first painting of this month.
Restore(v, day, dates) ==
  CASE v = "Custom" /\ dates # {} -> <<[kind |-> "SetCustomViewDates", dates |-> dates]>>
    [] v \in Choosable \ {"Month"} -> <<[kind |-> "SetView", view |-> v]>>
    [] v = "Month" /\ day # today -> <<[kind |-> "JumpToDate", date |-> day]>>
    [] OTHER -> <<>>

\* App::init.
Open ==
  /\ ~running /\ running' = TRUE
  /\ Spend("start")
  /\ view' = "Month" /\ mini' = None
  /\ date' = IF saved.date = None THEN today ELSE saved.date
  /\ custom' = saved.custom
  /\ screen' = [Painting("Month", today, {}, None, settings) EXCEPT !.mini = MonthOf(date')]
  /\ inbox' = Restore(saved.view, date', saved.custom)
  /\ UNCHANGED <<settings, saved, today, closing>>

Init ==
  /\ running = FALSE
  /\ view = "Month" /\ date = FirstToday /\ custom = {} /\ mini = None
  /\ inbox = <<>>
  /\ settings \in Settings
  /\ screen = Painting("Month", FirstToday, {}, None, settings)
  /\ saved = [view |-> "Month", date |-> None, custom |-> {}]
  /\ today = FirstToday
  /\ closing = None
  /\ spent = [b \in Budgets |-> 0]

Next == Handle \/ Click \/ ChangeSettings \/ Resize \/ Midnight \/ Close \/ CloseFails \/ Open

Spec == Init /\ [][Next]_vars

-----------------------------------------------------------------------------
(* Properties.                                                             *)

TypeOK ==
  /\ running \in BOOLEAN
  /\ view \in Views /\ date \in Int /\ custom \subseteq Int /\ mini \in Int \cup {None}
  /\ inbox \in Seq(Message)
  /\ settings \in Settings
  /\ saved \in [view : Views, date : Int \cup {None}, custom : SUBSET Int]
  /\ today \in Int

\* A range that a drag can make.
IsRange(dates) ==
  \E first \in dates, last \in dates :
    dates = first..last /\ 1 <= last - first /\ last - first < MaxDrag

\* The range view always has a range of two to eight days in a row, however it was paged,
\* left, closed and reopened: custom_view_title and the columns index into it.
CustomRange == view = "Custom" => IsRange(custom)

\* A quiet window shows what the model and the settings say: no path through
\* handlers, settings, and start-up leaves an old painting.
ScreenFollows ==
  running /\ inbox = <<>> => screen = Painting(view, date, custom, mini, settings)

\* A day that is clicked is shown afterwards, in whatever view, unless it is one of the
\* weekend days the user hides.
PickedDayIsShown ==
  [][ Handle /\ Head(inbox).kind = "JumpToDate" =>
        LET day == Head(inbox).date
        IN \/ Shows(screen'.days, day)
           \/ ~settings.weekends /\ IsWeekend(day) /\ view' \in {"Week", "FiveDay"} ]_vars

\* b goes on where a ends: none shown twice, and none but hidden weekend days between.
Adjoins(a, b) ==
  /\ \A x \in a, y \in b : x < y
  /\ \A x \in Latest(a) + 1..Earliest(b) - 1 : ~settings.weekends /\ IsWeekend(x)

Tiles ==
  LET now == Shown(view, date, custom, settings)
      next == Shown(view', date', custom', settings)
  IN IF Head(inbox).kind = "NextPeriod" THEN Adjoins(now, next) ELSE Adjoins(next, now)

Paging == Handle /\ Head(inbox).kind \in {"PrevPeriod", "NextPeriod"}

\* Paging goes through time without gap or overlap, in every view with limits.  The exception
\* are five days without weekends from an anchor on a weekend: five_day_window first snaps the
\* anchor to Monday, step_weekdays counts from the anchor itself, and the windows share a day.
PagesTile ==
  [][ Paging /\ ~(view = "Table" /\ settings.range = 0)
             /\ ~(view = "FiveDay" /\ ~settings.weekends /\ IsWeekend(date))
        => Tiles ]_vars

\* A window that was closed in peace comes back with the same view on the same days,
\* also on another day, and paints it before the user can touch anything.
ViewSurvives ==
  running /\ inbox = <<>> /\ closing # None =>
    screen.view = closing.view /\ screen.days = closing.days
=============================================================================
