------------------------- MODULE ReminderScheduler -------------------------
(***************************************************************************)
(* The Notification Scheduler of Calendarchy: the 20 second poll that      *)
(* finds due reminders, the reminder_notifications table it records them   *)
(* in, the desktop toast, and the floating dialog with its Snooze, Dismiss *)
(* and Clear buttons (app/src/notifications.rs, the reminder half of       *)
(* service-calendar/src/query.rs, and their handlers in app/src/main.rs).  *)
(*                                                                         *)
(* Three kinds of actors interleave.  A poll tick is a task on the tokio   *)
(* runtime; the timer starts a new one whether or not the previous ended,  *)
(* and each of its queries takes the storage mutex for itself only.  The   *)
(* GTK thread handles one message at a time and rebuilds the dialog after  *)
(* each.  The editor, the sync engine and the sidebar change events under  *)
(* both.  An action is one critical section of the storage mutex, or one   *)
(* await.                                                                  *)
(***************************************************************************)
EXTENDS Integers, Sequences, FiniteSets

CONSTANTS
  Events,          \* rows of the events table
  Calendars,
  CalendarOf,      \* CalendarOf[e]: the calendar of event e
  Starts,          \* instants an event can start at
  NoStart,         \* an event that is deleted, or all-day: no instant to count from
  Reminders,       \* popup rows of the event_reminders table
  EventOf, LeadOf, \* the event and the minutes of each such row
  Snoozes,         \* durations the Snooze buttons offer
  Ticks,           \* poll ticks that can be in flight together
  SettingsValues,  \* the settings the user may pick in Preferences
  HistoryLimit,    \* HISTORY_LIMIT: rows of the "Past" section
  MaxTime,         \* bound: last instant
  MaxRowId,        \* bound: largest row id
  Limit            \* bound: how many clicks, edits and faults happen

Budgets == {"click", "edit", "fault"}
Settings == [toast : BOOLEAN, dialog : BOOLEAN]

ASSUME ConstantsAssumption ==
  /\ CalendarOf \in [Events -> Calendars]
  /\ Starts \subseteq Nat /\ NoStart \notin Starts
  /\ EventOf \in [Reminders -> Events] /\ LeadOf \in [Reminders -> Nat]
  /\ Snoozes \subseteq Nat
  /\ SettingsValues \subseteq Settings /\ SettingsValues # {}
  /\ HistoryLimit \in Nat /\ MaxTime \in Nat /\ MaxRowId \in Nat
  /\ Limit \in [Budgets -> Nat]

VARIABLES
  now,        \* Utc::now()
  start,      \* events.start
  reminders,  \* the event_reminders rows that exist
  visible,    \* the calendars with is_visible = 1
  settings,   \* the saved AppSettings
  rows,       \* reminder_notifications, by its UNIQUE key
  pc,         \* where each poll tick is
  toastOn,    \* the tick's copy of desktop_notifications_enabled
  todo,       \* the part of the tick's due list not yet recorded
  sending,    \* the reminder whose toast the tick is awaiting, if any
  ui,         \* the GTK thread: idle, about to rebuild the dialog, or not running
  inbox,      \* AppMsg values sent by buttons and not yet handled
  cards,      \* ids of the rows shown as active cards
  past,       \* ids of the rows shown in the "Past" section
  rebuild,    \* ghost: whether the last rebuild could read the active rows
  spent       \* clicks, edits and faults so far

dbVars == <<start, reminders, visible, settings>>
tickVars == <<pc, toastOn, todo, sending>>
shownVars == <<cards, past, rebuild>>
uiVars == <<ui, inbox, shownVars>>
vars == <<now, dbVars, rows, tickVars, uiVars, spent>>

KeyOf(r, s) == [event |-> EventOf[r], lead |-> LeadOf[r], start |-> s]
Keys == {KeyOf(r, s) : r \in Reminders, s \in Starts}
DueReminder == [rem : Reminders, start : Starts]
ItemKey(d) == KeyOf(d.rem, d.start)

Row == [id : Nat, status : {"none", "active", "snoozed", "dismissed"}, until : Nat]
Absent == [id |-> 0, status |-> "none", until |-> 0]

RowMsg == [op : {"dismiss", "clear"}, id : Nat] \cup [op : {"snooze"}, id : Nat, minutes : Snoozes]
BulkMsg == [op : {"dismissAll"}] \cup [op : {"snoozeAll"}, minutes : Snoozes]
AppMsg == RowMsg \cup BulkMsg

Spend(b) == spent[b] < Limit[b] /\ spent' = [spent EXCEPT ![b] = @ + 1]

Present(k) == rows[k].status # "none"
ActiveIds == {rows[k].id : k \in {k \in Keys : rows[k].status = "active"}}
DismissedIds == {rows[k].id : k \in {k \in Keys : rows[k].status = "dismissed"}}

\* SQLite gives an INTEGER PRIMARY KEY row the largest id in use plus one, so
\* the id of a deleted row can be given out again.
IsNewRowId(n) ==
  /\ \A k \in Keys : Present(k) => rows[k].id < n
  /\ n = 1 \/ \E k \in Keys : Present(k) /\ rows[k].id = n - 1

Init ==
  /\ now = 0
  /\ start \in [Events -> Starts \cup {NoStart}]
  /\ reminders = Reminders
  /\ visible = Calendars
  /\ settings \in SettingsValues
  /\ rows = [k \in Keys |-> Absent]
  /\ pc = [t \in Ticks |-> "idle"]
  /\ toastOn = [t \in Ticks |-> FALSE]
  /\ todo = [t \in Ticks |-> {}]
  /\ sending = [t \in Ticks |-> {}]
  /\ ui = "refresh" /\ inbox = <<>> /\ cards = {} /\ past = {} /\ rebuild = "ok"
  /\ spent = [b \in Budgets |-> 0]

-----------------------------------------------------------------------------
(* The poll tick: check_and_fire_reminders.                                *)

\* Mutant of IsDue: a snoozed row counts as delivered.
IsDue_NoResurfacing(r) ==
  LET s == start[EventOf[r]] IN
  /\ r \in reminders /\ CalendarOf[EventOf[r]] \in visible
  /\ s \in Starts /\ s - LeadOf[r] <= now
  /\ ~Present(KeyOf(r, s))

\* due_reminders: the WHERE clause, then the test of fire_at.
IsDue(r) ==
  LET s == start[EventOf[r]] IN
  /\ r \in reminders
  /\ CalendarOf[EventOf[r]] \in visible
  /\ s \in Starts
  /\ LET row == rows[KeyOf(r, s)] IN
       \/ row.status = "none"
       \/ row.status = "snoozed" /\ row.until <= now
  /\ s - LeadOf[r] <= now

DueReminders == {[rem |-> r, start |-> start[EventOf[r]]] : r \in {r \in Reminders : IsDue(r)}}

\* The timer fires and the new task loads the settings.  With both surfaces
\* off it ends there: that tick leaves everything as it was.
TickStart(t) ==
  /\ ui = "idle" /\ pc[t] = "idle"
  /\ IF settings.toast \/ settings.dialog
       THEN /\ pc' = [pc EXCEPT ![t] = "query"]
            /\ toastOn' = [toastOn EXCEPT ![t] = settings.toast]
       ELSE UNCHANGED <<pc, toastOn>>
  /\ UNCHANGED <<now, dbVars, rows, todo, sending, uiVars, spent>>

\* Settings that cannot be read are the default ones: both surfaces are on.
TickStartDefaults(t) ==
  /\ ui = "idle" /\ pc[t] = "idle"
  /\ Spend("fault")
  /\ pc' = [pc EXCEPT ![t] = "query"]
  /\ toastOn' = [toastOn EXCEPT ![t] = TRUE]
  /\ UNCHANGED <<now, dbVars, rows, todo, sending, uiVars>>

\* The due list is read once.  An empty one ends the tick without a message
\* the GTK thread acts on.
TickQuery(t) ==
  /\ pc[t] = "query"
  /\ todo' = [todo EXCEPT ![t] = DueReminders]
  /\ pc' = [pc EXCEPT ![t] = IF DueReminders = {} THEN "idle" ELSE "record"]
  /\ UNCHANGED <<now, dbVars, rows, toastOn, sending, uiVars, spent>>

\* A storage error reads as an empty due list.
TickQueryFails(t) ==
  /\ pc[t] = "query"
  /\ Spend("fault")
  /\ pc' = [pc EXCEPT ![t] = "idle"]
  /\ UNCHANGED <<now, dbVars, rows, toastOn, todo, sending, uiVars>>

\* The upsert of record_fired: a new row, or the row of that key made active
\* again whatever its status.
FiredIds(k) == IF Present(k) THEN {rows[k].id} ELSE {n \in 1..MaxRowId : IsNewRowId(n)}

RecordFired(t, d) ==
  /\ pc[t] = "record" /\ d \in todo[t]
  /\ \E n \in FiredIds(ItemKey(d)) :
       rows' = [rows EXCEPT ![ItemKey(d)] = [id |-> n, status |-> "active", until |-> 0]]
  /\ todo' = [todo EXCEPT ![t] = @ \ {d}]
  /\ IF toastOn[t]
       THEN /\ pc' = [pc EXCEPT ![t] = "notify"]
            /\ sending' = [sending EXCEPT ![t] = {d}]
       ELSE UNCHANGED <<pc, sending>>
  /\ UNCHANGED <<now, dbVars, toastOn, uiVars, spent>>

\* A failed record_fired is logged and its reminder skipped, toast included.
RecordFails(t, d) ==
  /\ pc[t] = "record" /\ d \in todo[t]
  /\ Spend("fault")
  /\ todo' = [todo EXCEPT ![t] = @ \ {d}]
  /\ UNCHANGED <<now, dbVars, rows, pc, toastOn, sending, uiVars>>

\* The D-Bus call returns: the daemon showed the toast, or the call failed,
\* which is only logged.
Notify(t) ==
  /\ pc[t] = "notify"
  /\ pc' = [pc EXCEPT ![t] = "record"]
  /\ sending' = [sending EXCEPT ![t] = {}]
  /\ UNCHANGED <<now, dbVars, rows, toastOn, todo, uiVars, spent>>

\* Mutant of TickFinish: the GTK thread is told nothing.
TickFinish_Silent(t) ==
  /\ pc[t] = "record" /\ todo[t] = {}
  /\ pc' = [pc EXCEPT ![t] = "idle"]
  /\ UNCHANGED <<now, dbVars, rows, toastOn, todo, sending, uiVars, spent>>

\* The end of the loop: ReminderCheckFinished carries a non-empty list.
TickFinish(t) ==
  /\ pc[t] = "record" /\ todo[t] = {}
  /\ pc' = [pc EXCEPT ![t] = "done"]
  /\ UNCHANGED <<now, dbVars, rows, toastOn, todo, sending, uiVars, spent>>

-----------------------------------------------------------------------------
(* The GTK thread.                                                         *)

HandleCheckFinished(t) ==
  /\ ui = "idle" /\ pc[t] = "done"
  /\ pc' = [pc EXCEPT ![t] = "idle"]
  /\ ui' = "refresh"
  /\ UNCHANGED <<now, dbVars, rows, toastOn, todo, sending, inbox, shownVars, spent>>

\* The history shows the latest of the dismissed rows.  When a row fired is not
\* kept here, so any rows may be the latest.
Histories ==
  {S \in SUBSET DismissedIds :
     Cardinality(S) = HistoryLimit \/ (S = DismissedIds /\ Cardinality(S) < HistoryLimit)}

\* refresh_overlay: cards and history are rebuilt from the table.
RefreshOverlay ==
  /\ ui = "refresh"
  /\ cards' = ActiveIds /\ rebuild' = "ok"
  /\ past' \in Histories
  /\ ui' = "idle"
  /\ UNCHANGED <<now, dbVars, rows, tickVars, inbox, spent>>

\* Either query of it may fail, and reads as an empty list then; without cards
\* the dialog is hidden, history and all.
RefreshFails ==
  /\ ui = "refresh"
  /\ Spend("fault")
  /\ cards' \in {{}, ActiveIds}
  /\ rebuild' = IF cards' = ActiveIds THEN "ok" ELSE "failed"
  /\ past' = {}
  /\ ui' = "idle"
  /\ UNCHANGED <<now, dbVars, rows, tickVars, inbox>>

\* The buttons that can be clicked: two per card, the bulk row once two cards
\* are shown, and Clear on the history rows of a visible dialog.
Clickable ==
  [op : {"dismiss"}, id : cards]
    \cup [op : {"snooze"}, id : cards, minutes : Snoozes]
    \cup (IF \E a, b \in cards : a # b THEN BulkMsg ELSE {})
    \cup (IF cards # {} THEN [op : {"clear"}, id : past] ELSE {})

\* A click only queues a message; its button stays until the next rebuild.
Click(m) ==
  /\ ui = "idle" /\ m \in Clickable
  /\ Spend("click")
  /\ inbox' = Append(inbox, m)
  /\ UNCHANGED <<now, dbVars, rows, tickVars, ui, shownVars>>

\* Mutant of SnoozeUntil: the wrong sign.
SnoozeUntil_Past(minutes) == now - minutes
SnoozeUntil(minutes) == now + minutes

\* The rows a handler's statement touches, and what it makes of each.
Touched(m) ==
  {k \in Keys : CASE m.op \in {"dismiss", "clear", "snooze"} -> Present(k) /\ rows[k].id = m.id
                  [] m.op = "dismissAll" -> rows[k].status \in {"active", "snoozed"}
                  [] m.op = "snoozeAll" -> rows[k].status = "active"}

Updated(m, k) ==
  CASE m.op = "clear" -> Absent
    [] m.op \in {"dismiss", "dismissAll"} -> [rows[k] EXCEPT !.status = "dismissed"]
    [] m.op \in {"snooze", "snoozeAll"} ->
         [id |-> rows[k].id, status |-> "snoozed", until |-> SnoozeUntil(m.minutes)]

\* Mutant of HandleMsg: the dialog is not rebuilt after the update.
HandleMsg_NoRebuild ==
  /\ ui = "idle" /\ inbox # <<>>
  /\ rows' = [k \in Keys |-> IF k \in Touched(Head(inbox)) THEN Updated(Head(inbox), k) ELSE rows[k]]
  /\ inbox' = Tail(inbox)
  /\ UNCHANGED <<now, dbVars, tickVars, ui, shownVars, spent>>

HandleMsg ==
  /\ ui = "idle" /\ inbox # <<>>
  /\ rows' = LET m == Head(inbox) IN
       [k \in Keys |-> IF k \in Touched(m) THEN Updated(m, k) ELSE rows[k]]
  /\ inbox' = Tail(inbox)
  /\ ui' = "refresh"
  /\ UNCHANGED <<now, dbVars, tickVars, shownVars, spent>>

\* A storage error in a handler is logged; the dialog is rebuilt all the same.
HandleMsgFails ==
  /\ ui = "idle" /\ inbox # <<>>
  /\ Spend("fault")
  /\ inbox' = Tail(inbox)
  /\ ui' = "refresh"
  /\ UNCHANGED <<now, dbVars, rows, tickVars, shownVars>>

-----------------------------------------------------------------------------
(* The rest of the application, the clock, and the process.                *)

\* update_event, delete_event, undo or a sync pass: a new start, and the
\* reminders of the event replaced.
EditEvent(e, s, R) ==
  /\ ui # "down" /\ Spend("edit")
  /\ start' = [start EXCEPT ![e] = s]
  /\ reminders' = {r \in reminders : EventOf[r] # e} \cup R
  /\ UNCHANGED <<now, visible, settings, rows, tickVars, uiVars>>

SetVisible(V) ==
  /\ ui = "idle" /\ V # visible /\ Spend("edit")
  /\ visible' = V
  /\ UNCHANGED <<now, start, reminders, settings, rows, tickVars, uiVars>>

SaveSettings(s) ==
  /\ ui = "idle" /\ s # settings /\ Spend("edit")
  /\ settings' = s
  /\ UNCHANGED <<now, start, reminders, visible, rows, tickVars, uiVars>>

Advance ==
  /\ now < MaxTime
  /\ now' = now + 1
  /\ UNCHANGED <<dbVars, rows, tickVars, uiVars, spent>>

\* The process ends, by a crash or because the user closes it: ticks, queued
\* clicks and the dialog are gone, the database stays.
Stop ==
  /\ ui # "down" /\ Spend("fault")
  /\ pc' = [t \in Ticks |-> "idle"]
  /\ todo' = [t \in Ticks |-> {}]
  /\ sending' = [t \in Ticks |-> {}]
  /\ ui' = "down" /\ inbox' = <<>> /\ cards' = {} /\ past' = {} /\ rebuild' = "ok"
  /\ UNCHANGED <<now, dbVars, rows, toastOn>>

\* Mutant of Launch: the dialog waits for the first poll that finds something.
Launch_NoRebuild ==
  /\ ui = "down"
  /\ ui' = "idle"
  /\ UNCHANGED <<now, dbVars, rows, tickVars, inbox, shownVars, spent>>

\* App::init ends with a rebuild of the dialog.
Launch ==
  /\ ui = "down"
  /\ ui' = "refresh"
  /\ UNCHANGED <<now, dbVars, rows, tickVars, inbox, shownVars, spent>>

-----------------------------------------------------------------------------
Tick(t) ==
  \/ TickStart(t) \/ TickStartDefaults(t)
  \/ TickQuery(t) \/ TickQueryFails(t) \/ Notify(t) \/ TickFinish(t)
  \/ \E d \in todo[t] : RecordFired(t, d) \/ RecordFails(t, d)

Gtk ==
  \/ \E t \in Ticks : HandleCheckFinished(t)
  \/ RefreshOverlay \/ RefreshFails \/ HandleMsg \/ HandleMsgFails
  \/ \E m \in Clickable : Click(m)

Environment ==
  \/ \E e \in Events, s \in Starts \cup {NoStart} :
       \E R \in SUBSET {r \in Reminders : EventOf[r] = e} : EditEvent(e, s, R)
  \/ \E V \in SUBSET Calendars : SetVisible(V)
  \/ \E s \in SettingsValues : SaveSettings(s)
  \/ Advance \/ Stop \/ Launch

Next == (\E t \in Ticks : Tick(t)) \/ Gtk \/ Environment

Spec == Init /\ [][Next]_vars

\* What the runtimes promise: the timer keeps firing, a tokio task that can go
\* on does, the notification daemon answers, and the GTK loop handles what it
\* was sent.  The user, the clock and failures owe nothing; a stopped program
\* is launched again.
Fairness ==
  /\ \A t \in Ticks :
       /\ WF_vars(TickStart(t)) /\ WF_vars(TickQuery(t)) /\ WF_vars(TickFinish(t))
       /\ WF_vars(\E d \in todo[t] : RecordFired(t, d)) /\ WF_vars(Notify(t))
       /\ WF_vars(HandleCheckFinished(t))
  /\ WF_vars(RefreshOverlay) /\ WF_vars(HandleMsg) /\ WF_vars(Launch)

FairSpec == Spec /\ Fairness

-----------------------------------------------------------------------------
(* Properties.                                                             *)

\* The shape of every variable.
TypeOK ==
  /\ now \in 0..MaxTime
  /\ start \in [Events -> Starts \cup {NoStart}]
  /\ reminders \subseteq Reminders
  /\ visible \subseteq Calendars
  /\ settings \in SettingsValues
  /\ rows \in [Keys -> Row]
  /\ pc \in [Ticks -> {"idle", "query", "record", "notify", "done"}]
  /\ toastOn \in [Ticks -> BOOLEAN]
  /\ todo \in [Ticks -> SUBSET DueReminder]
  /\ sending \in [Ticks -> SUBSET DueReminder]
  /\ ui \in {"idle", "refresh", "down"}
  /\ inbox \in Seq(AppMsg)
  /\ cards \subseteq Nat /\ past \subseteq Nat /\ rebuild \in {"ok", "failed"}
  /\ spent \in [Budgets -> Nat]

\* While the user can click, the dialog offers no card for a reminder that was
\* already dismissed, snoozed or cleared.
DialogShowsOnlyActive == ui = "idle" => cards \subseteq ActiveIds

\* A tick that still owes the GTK thread a ReminderCheckFinished.
InFlight(t) == pc[t] \in {"record", "notify", "done"}

\* No reminder is active in the table and missing from the dialog unless a
\* rebuild is still owed: by a tick in flight, by the GTK thread, or by the
\* next launch.  (Ticks record and finish in separate steps, alone or
\* overlapping, fail half way, or die with the process.)  The one exception is
\* a rebuild that could not read the table: nothing in the code repeats it.
NoSilentReminder ==
  ActiveIds \subseteq cards \/ ui # "idle" \/ rebuild = "failed" \/ \E t \in Ticks : InFlight(t)

\* What record_fired's comment says (query.rs:863-866): as the record precedes
\* the toast, no firing that was delivered already (its row is active) is
\* announced again, neither after a crash between the two nor, when a send is
\* slow, by the next poll tick.  The code breaks this: a tick that queried before
\* another recorded works off its due list all the same.
ToastAtMostOnce ==
  [][\A t \in Ticks : \A d \in sending'[t] \ sending[t] : rows[ItemKey(d)].status # "active"]_vars

\* A popup reminder whose time has come and that nobody was told about, or
\* whose snooze is over.
Overdue(r) ==
  LET s == start[EventOf[r]] IN
  /\ r \in reminders /\ s \in Starts /\ CalendarOf[EventOf[r]] \in visible
  /\ s <= now + LeadOf[r]
  /\ LET row == rows[KeyOf(r, s)] IN
       ~Present(KeyOf(r, s)) \/ (row.status = "snoozed" /\ row.until <= now)

\* No reminder stays overdue for ever while a surface is on: a poll records it,
\* whatever ticks, clicks, edits, failures and restarts come between.
OverdueGetsFired ==
  \A r \in Reminders : []<>(settings.toast \/ settings.dialog => ~Overdue(r))

\* With the dialog switched on every firing reaches it, unless the user deals with
\* its row first, or the rebuild could not read the table.  Nothing is said of the
\* switch being off: AppSettings promises that the dialog then shows no reminder,
\* but neither the poll nor the rebuild of the dialog asks (settings.rs:282-284).
ActiveGetsShown ==
  \A k \in Keys :
    rows[k].status = "active" /\ settings.dialog ~>
      rows[k].status # "active" \/ rows[k].id \in cards \/ rebuild = "failed" \/ ~settings.dialog

=============================================================================
