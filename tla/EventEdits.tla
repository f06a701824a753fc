----------------------------- MODULE EventEdits -----------------------------
(***************************************************************************)
(* The local event store of Calendarchy, as the user changes it: creating, *)
(* editing, deleting and undoing (service-calendar/src/query.rs), with the *)
(* queue of edits to push, the undo history, and the dialog that holds an  *)
(* event id while a sync pass goes on changing the table (app/src/main.rs).*)
(*                                                                         *)
(* An operation holds the storage mutex from its first statement to its    *)
(* last, but it is no transaction: one that SQLite refuses, or that dies   *)
(* half-way, leaves the statements before it done.  ("Done" parameters say *)
(* how far it came.)                                                       *)
(*                                                                         *)
(* The columns an edit writes are the title, the all_day flag, and a body  *)
(* that stands for the rest: start, end, colour, recurrence and so on.     *)
(***************************************************************************)
EXTENDS Integers, FiniteSets, Sequences

CONSTANTS
  Calendars,     \* rows of the calendars table
  Gids,          \* ids Google gives events
  Local,         \* the google_event_id of an event created here: "local-..."
  EmptyTitle,    \* the empty title
  NoTitle,       \* a title that is NULL: Google leaves it out
  Contents,      \* the titles, all_day flags and bodies events come with
  ReminderLists, \* the reminders an editor can hand back
  NoEvent,       \* a row id that is not in use
  Unknown,       \* no origin to speak of
  Closed,        \* no dialog is open
  MaxEvent,      \* bound: largest event id
  MaxLog,        \* bound: largest id in the history and in the queue
  Limit,         \* bound: how many edits, syncs, clears and faults happen
  Total          \* bound: how many of them happen together

Budgets == {"edit", "sync", "clear", "fault"}

\* replace_reminders deletes them all and inserts the new ones one by one.
Prefixes(rs) == {SubSeq(rs, 1, n) : n \in 0..Len(rs)}

ASSUME EditsAssumption ==
  /\ Local \notin Gids
  /\ EmptyTitle # NoTitle /\ Closed \notin Calendars
  /\ \A f \in Contents : f = [title |-> f.title, allDay |-> f.allDay, body |-> f.body]
  /\ <<>> \in ReminderLists
  /\ \A rs \in ReminderLists : rs \in Seq(Nat) /\ Prefixes(rs) \subseteq ReminderLists
  /\ MaxEvent \in Nat \ {0} /\ MaxLog \in Nat \ {0}
  /\ Limit \in [Budgets -> Nat] /\ Total \in Nat

Ids == 1..MaxEvent
LogIds == 1..MaxLog

\* What comes back of a row that went through json_object and serde_json: a
\* NULL title as '', and all_day, which is a number there and no Boolean, as 0.
Restored(f) ==
  [f EXCEPT !.title = IF @ = NoTitle THEN EmptyTitle ELSE @, !.allDay = FALSE]

Fields == Contents \cup {Restored(f) : f \in Contents}
Typed == {f \in Contents : f.title # NoTitle}
Row == [cal : Calendars, gid : Gids \cup {Local}, fields : Fields]
State == [cal : Calendars, fields : Fields, reminders : ReminderLists]

HistoryRow == [id : LogIds, event : Ids, state : State]

\* A queued deletion names no event; its payload is the id Google knows.
PendingRow ==
  [id : LogIds, op : {"create", "update"}, cal : Calendars, event : Ids, payload : State]
    \cup [id : LogIds, op : {"delete"}, cal : Calendars, event : {NoEvent}, payload : Gids \cup {Local}]

ASSUME NoEventAssumption == NoEvent \notin Row \cup Ids /\ Unknown \notin State

VARIABLES
  cals,      \* calendars: the rows there are
  event,     \* events: the row of each id
  reminders, \* event_reminders of each event
  history,   \* event_edit_history
  pending,   \* pending_edits
  dialog,    \* the id held by the open editor or delete dialog; the event it
             \* names can go, and the id be another's, before it is answered
  looked,    \* the calendar the delete dialog looked up, once it is answered
  origin,    \* ghost: the event as it was when it came, until Google changes it
  dirty,     \* ghost: events whose row is the work of the last operation here
  undone,    \* ghost: those of them whose last operation was an undo
  deleted,   \* ghost: Google events deleted here
  dropped,   \* ghost: those of them whose queued deletion is known to be lost
  spent      \* edits, syncs, clears and faults so far

losses == <<deleted, dropped>>
ghosts == <<origin, dirty, undone, losses>>
vars == <<cals, event, reminders, history, pending, dialog, looked, ghosts, spent>>

Spend(b) ==
  /\ spent[b] < Limit[b]
  /\ spent["edit"] + spent["sync"] + spent["clear"] + spent["fault"] < Total
  /\ spent' = [spent EXCEPT ![b] = @ + 1]

Exists(e) == event[e] # NoEvent
Snapshot(e) == [cal |-> event[e].cal, fields |-> event[e].fields, reminders |-> reminders[e]]
HistoryOf(e) == {h \in history : h.event = e}
PendingOf(e) == {q \in pending : q.event = e}
First(S) == CHOOSE x \in S : \A y \in S : x.id <= y.id
Last(S) == CHOOSE x \in S : \A y \in S : x.id >= y.id

\* UNIQUE (calendar_id, google_event_id), and the reference to calendars.
Free(c, g, e) ==
  /\ c \in cals
  /\ g # Local => \A x \in Ids \ {e} : Exists(x) => event[x].cal # c \/ event[x].gid # g

\* A first start after some sync passes.
Init ==
  /\ cals = Calendars
  /\ event \in [Ids -> [cal : Calendars, gid : Gids, fields : Contents] \cup {NoEvent}]
  /\ \A e \in Ids : Exists(e) => Free(event[e].cal, event[e].gid, e)
  /\ reminders = [e \in Ids |-> <<>>]
  /\ history = {} /\ pending = {}
  /\ dialog = Closed /\ looked = Closed
  /\ origin = [e \in Ids |-> IF Exists(e) THEN Snapshot(e) ELSE Unknown]
  /\ dirty = {} /\ undone = {} /\ deleted = {} /\ dropped = {}
  /\ spent = [b \in Budgets |-> 0]

-----------------------------------------------------------------------------
(* Statements.                                                             *)

\* The id SQLite gives a new row: one more than the largest in use.
NewId(n, ids) == (\A i \in ids : i < n) /\ (n = 1 \/ n - 1 \in ids)

\* INSERT INTO event_edit_history: the event and its reminders as they are.
\* Mutant: the reminders stay the '[]' of the SQL text.
Entry_NoReminders(e, n) == [id |-> n, event |-> e, state |-> [Snapshot(e) EXCEPT !.reminders = <<>>]]
Entry(e, n) == [id |-> n, event |-> e, state |-> Snapshot(e)]
Remember(e) ==
  \E n \in LogIds : NewId(n, {h.id : h \in history}) /\ history' = history \cup {Entry(e, n)}

\* What a pending edit carries.  Mutant: without the reminders.
Payload_NoReminders(c, f, rs) == [cal |-> c, fields |-> f, reminders |-> <<>>]
Payload(c, f, rs) == [cal |-> c, fields |-> f, reminders |-> rs]

\* INSERT INTO pending_edits.
Queue(op, c, e, payload) ==
  \E n \in LogIds :
    /\ NewId(n, {q.id : q \in pending})
    /\ pending' = pending \cup {[id |-> n, op |-> op, cal |-> c, event |-> e, payload |-> payload]}

\* ON DELETE CASCADE: what goes with the events E and the calendars C.
\* Mutant: event_edit_history has no foreign keys.
Cascade_KeepsHistory(E, C) ==
  /\ event' = [e \in Ids |-> IF e \in E THEN NoEvent ELSE event[e]]
  /\ reminders' = [e \in Ids |-> IF e \in E THEN <<>> ELSE reminders[e]]
  /\ pending' = {q \in pending : q.event \notin E /\ q.cal \notin C}
  /\ UNCHANGED history
Cascade(E, C) ==
  /\ event' = [e \in Ids |-> IF e \in E THEN NoEvent ELSE event[e]]
  /\ reminders' = [e \in Ids |-> IF e \in E THEN <<>> ELSE reminders[e]]
  /\ history' = {h \in history : h.event \notin E /\ h.state.cal \notin C}
  /\ pending' = {q \in pending : q.event \notin E /\ q.cal \notin C}

\* What the ghosts make of it.
Forget(E) ==
  /\ origin' = [e \in Ids |-> IF e \in E THEN Unknown ELSE origin[e]]
  /\ dirty' = dirty \ E /\ undone' = undone \ E

-----------------------------------------------------------------------------
(* The sync engine and "Clear local cache", as the store sees them.        *)

\* upsert_event of an event that is there: reminders are not Google's.
SyncChange(e, f) ==
  /\ Exists(e) /\ event[e].gid # Local
  /\ Spend("sync")
  /\ event' = [event EXCEPT ![e].fields = f]
  /\ UNCHANGED <<cals, reminders, history, pending, dialog, looked, losses>>
  /\ origin' = [origin EXCEPT ![e] = IF HistoryOf(e) = {} THEN Snapshot(e)' ELSE Unknown]
  /\ dirty' = dirty \ {e} /\ undone' = undone \ {e}

\* upsert_event of one that is not.
SyncInsert(c, g, f) ==
  /\ Free(c, g, 0)
  /\ Spend("sync")
  /\ UNCHANGED <<cals, reminders, history, pending, dialog, looked, dirty, undone, losses>>
  /\ \E e \in Ids :
       /\ NewId(e, {x \in Ids : Exists(x)})
       /\ event' = [event EXCEPT ![e] = [cal |-> c, gid |-> g, fields |-> f]]
       /\ origin' = [origin EXCEPT ![e] = Snapshot(e)']

\* upsert_event of a cancelled one.
SyncCancel(e) ==
  /\ Exists(e) /\ event[e].gid # Local
  /\ Spend("sync")
  /\ Cascade({e}, {}) /\ Forget({e})
  /\ UNCHANGED <<cals, dialog, looked, losses>>

\* clear_calendar_cache, for one calendar of the account: what is queued for
\* it goes too, deletions among it.
ClearCalendar(c) ==
  /\ c \in cals
  /\ Spend("clear")
  /\ cals' = cals \ {c}
  /\ LET E == {e \in Ids : Exists(e) /\ event[e].cal = c} IN
       /\ Cascade(E, {c})
       /\ origin' = [e \in Ids |->
                       IF e \in E \/ \E h \in HistoryOf(e) : h.state.cal = c THEN Unknown ELSE origin[e]]
       /\ dirty' = dirty \ E /\ undone' = undone \ E
  /\ dropped' = dropped \cup {d \in deleted : d[1] = c}
  /\ UNCHANGED <<dialog, looked, deleted>>

\* on_enabled lists it again, and it gets a row.
RelistCalendar(c) ==
  /\ c \notin cals
  /\ cals' = cals \cup {c}
  /\ UNCHANGED <<event, reminders, history, pending, dialog, looked, ghosts, spent>>

-----------------------------------------------------------------------------
(* The dialogs: the event editor, a drag on the calendar, "Delete event?". *)

\* event_detail, and show_edit_event_dialog or confirm_delete_event.
OpenDialog(e) ==
  /\ dialog = Closed
  /\ Exists(e)
  /\ dialog' = e
  /\ UNCHANGED <<cals, event, reminders, history, pending, looked, ghosts, spent>>

\* Cancelled; or answered, but the event or its calendar is gone, or goes
\* before the answer is worked off; or the process ends.
CloseDialog ==
  /\ dialog # Closed
  /\ dialog' = Closed /\ looked' = Closed
  /\ UNCHANGED <<cals, event, reminders, history, pending, ghosts, spent>>

\* Nothing else happens on the main thread while an answer is worked off.
Answer(e) ==
  /\ dialog = e /\ looked = Closed
  /\ dialog' = Closed /\ UNCHANGED looked

\* The reminders an operation leaves that came as far as "done".
Written(e, rs, done) ==
  CASE done \in {"queue", "all"} -> {rs}
    [] done = "reminders" -> Prefixes(rs)
    [] OTHER -> {reminders[e]}

\* update_event, up to the statement "done" names.
Update(e, c, f, rs, done) ==
  /\ Exists(e)
  /\ Remember(e)
  /\ IF done = "history" THEN UNCHANGED event
     ELSE Free(c, event[e].gid, e) /\ event' = [event EXCEPT ![e].cal = c, ![e].fields = f]
  /\ \E part \in Written(e, rs, done) : reminders' = [reminders EXCEPT ![e] = part]
  /\ IF done = "all" THEN Queue("update", c, e, Payload(c, f, rs)) ELSE UNCHANGED pending

\* Save: the whole row is written, whatever it is by now.
UpdateEvent(e, c, f, rs) ==
  /\ Answer(e) /\ Spend("edit")
  /\ Update(e, c, f, rs, "all")
  /\ dirty' = dirty \cup {e} /\ undone' = undone \ {e}
  /\ UNCHANGED <<cals, origin, losses>>

\* The calendar it is moved to holds the event already, or is gone: the entry
\* in the history is there, the edit is not.
UpdateRefused(e, c, f, rs) ==
  /\ Answer(e) /\ Spend("edit")
  /\ Exists(e) /\ ~Free(c, event[e].gid, e)
  /\ Update(e, c, f, rs, "history")
  /\ UNCHANGED <<cals, ghosts>>

\* A storage error or the end of the process stops it.
UpdateStops(e, c, f, rs, done) ==
  /\ Answer(e) /\ Spend("fault")
  /\ Update(e, c, f, rs, done)
  /\ dirty' = dirty \ {e} /\ undone' = undone \ {e}
  /\ UNCHANGED <<cals, origin, losses>>

\* create_event, likewise: a new event, a duplicate or a copy.
Create(c, f, rs, done) ==
  /\ looked = Closed
  /\ c \in cals
  /\ \E e \in Ids :
       /\ NewId(e, {x \in Ids : Exists(x)})
       /\ event' = [event EXCEPT ![e] = [cal |-> c, gid |-> Local, fields |-> f]]
       /\ \E part \in Written(e, rs, done) : reminders' = [reminders EXCEPT ![e] = part]
       /\ origin' = [origin EXCEPT ![e] = Snapshot(e)']
       /\ IF done = "all"
            THEN Queue("create", c, e, Payload(c, f, rs)) /\ dirty' = dirty \cup {e}
            ELSE UNCHANGED <<pending, dirty>>
  /\ UNCHANGED <<cals, history, dialog, looked, undone, losses>>

CreateEvent(c, f, rs) == Spend("edit") /\ Create(c, f, rs, "all")
CreateStops(c, f, rs, done) == Spend("fault") /\ Create(c, f, rs, done)

\* The event_id of the pending row of a delete is NULL.  Mutant: it is the event.
DeletedRef_Event(e) == e
DeletedRef(e) == NoEvent

\* "Delete": the handler looks the event up under one lock and deletes it
\* under another.  A sync pass or a clear comes between.
LookUp(e) ==
  /\ dialog = e /\ looked = Closed
  /\ Exists(e)
  /\ looked' = event[e].cal
  /\ UNCHANGED <<cals, event, reminders, history, pending, dialog, ghosts, spent>>

\* delete_event: the row goes, with all that names it, then the deletion is
\* queued for the calendar that was looked up.  A pending row that named the
\* event could not be there.
Delete(e, c, done) ==
  /\ dialog = e /\ looked = c
  /\ dialog' = Closed /\ looked' = Closed
  /\ Exists(e)
  /\ event' = [event EXCEPT ![e] = NoEvent]
  /\ reminders' = [reminders EXCEPT ![e] = <<>>]
  /\ history' = history \ HistoryOf(e)
  /\ IF done = "all"
       THEN \E n \in LogIds :
              /\ NewId(n, {q.id : q \in pending \ PendingOf(e)})
              /\ pending' = {q \in pending \cup
                   {[id |-> n, op |-> "delete", cal |-> c, event |-> DeletedRef(e),
                     payload |-> event[e].gid]} : q.event # e}
       ELSE pending' = pending \ PendingOf(e)
  /\ Forget({e})
  /\ UNCHANGED cals

\* The Google event in row e, as the ghosts name it.
Named(e) == {<<event[e].cal, event[e].gid>>} \ (Calendars \X {Local})

DeleteEvent(e, c) ==
  /\ Spend("edit")
  /\ c \in cals /\ Delete(e, c, "all")
  /\ deleted' = deleted \cup Named(e)
  /\ dropped' = IF c = event[e].cal THEN dropped \ Named(e) ELSE dropped \cup Named(e)

\* The calendar that was looked up is gone: the row is deleted, the INSERT refused.
DeleteRefused(e, c) ==
  /\ Spend("edit")
  /\ c \notin cals /\ Delete(e, c, "event")
  /\ deleted' = deleted \cup Named(e) /\ dropped' = dropped \cup Named(e)

\* A storage error or the end of the process stops it between the statements.
DeleteStops(e, c) ==
  /\ Spend("fault")
  /\ Delete(e, c, "event")
  /\ deleted' = deleted \cup Named(e) /\ dropped' = dropped \cup Named(e)

-----------------------------------------------------------------------------
(* undo_last_event_edit.                                                   *)

\* The last entry h, up to the statement "done" names.  An undo that SQLite
\* refuses, because the old calendar has the event again, changes nothing, and
\* the entry stays the last.
Undo(h, done) ==
  /\ looked = Closed
  /\ h = Last(history)
  /\ Free(h.state.cal, event[h.event].gid, h.event)
  /\ event' = [event EXCEPT ![h.event].cal = h.state.cal,
                           ![h.event].fields = Restored(h.state.fields)]
  /\ \E part \in Written(h.event, h.state.reminders, done) :
       reminders' = [reminders EXCEPT ![h.event] = part]
  /\ IF done \in {"queue", "all"}
       THEN Queue("update", h.state.cal, h.event, h.state)
       ELSE UNCHANGED pending

UndoEdit(h) ==
  /\ Undo(h, "all")
  /\ history' = history \ {h}
  /\ dirty' = dirty \cup {h.event} /\ undone' = undone \cup {h.event}
  /\ UNCHANGED <<cals, dialog, looked, origin, losses, spent>>

UndoStops(h, done) ==
  /\ Spend("fault")
  /\ Undo(h, done)
  /\ dirty' = dirty \ {h.event} /\ undone' = undone \ {h.event}
  /\ UNCHANGED <<cals, history, dialog, looked, origin, losses>>

-----------------------------------------------------------------------------
Sync ==
  \/ \E e \in Ids, f \in Contents : SyncChange(e, f)
  \/ \E c \in cals, g \in Gids, f \in Contents : SyncInsert(c, g, f)
  \/ \E e \in Ids : SyncCancel(e)
  \/ \E c \in Calendars : ClearCalendar(c) \/ RelistCalendar(c)

User ==
  \/ \E e \in Ids : OpenDialog(e)
  \/ CloseDialog
  \/ \E e \in Ids : LookUp(e)
  \/ \E e \in Ids, c \in Calendars : DeleteEvent(e, c) \/ DeleteRefused(e, c)
  \/ \E e \in Ids, c \in Calendars, f \in Typed, rs \in ReminderLists :
       UpdateEvent(e, c, f, rs) \/ UpdateRefused(e, c, f, rs)
  \/ \E c \in Calendars, f \in Typed, rs \in ReminderLists : CreateEvent(c, f, rs)
  \/ \E h \in history : UndoEdit(h)

Fault ==
  \/ \E e \in Ids, c \in Calendars, f \in Typed, rs \in ReminderLists,
       done \in {"history", "event", "reminders"} : UpdateStops(e, c, f, rs, done)
  \/ \E c \in Calendars, f \in Typed, rs \in ReminderLists,
       done \in {"event", "reminders"} : CreateStops(c, f, rs, done)
  \/ \E e \in Ids, c \in Calendars : DeleteStops(e, c)
  \/ \E h \in history, done \in {"event", "reminders", "queue"} : UndoStops(h, done)

Next == Sync \/ User \/ Fault

Spec == Init /\ [][Next]_vars

-----------------------------------------------------------------------------
(* Properties.                                                             *)

Distinct(S) == \A x, y \in S : x.id = y.id => x = y

\* The shape of the tables, and their constraints: ids and Google ids are
\* unique, and no reminder, history or queue row is left of an event or a
\* calendar that is gone.
TypeOK ==
  /\ cals \subseteq Calendars
  /\ event \in [Ids -> Row \cup {NoEvent}]
  /\ reminders \in [Ids -> ReminderLists]
  /\ history \subseteq HistoryRow /\ Distinct(history)
  /\ pending \subseteq PendingRow /\ Distinct(pending)
  /\ dialog \in {Closed} \cup Ids /\ looked \in {Closed} \cup Calendars
  /\ origin \in [Ids -> State \cup {Unknown}]
  /\ dirty \subseteq Ids /\ undone \subseteq dirty
  /\ deleted \subseteq Calendars \X Gids /\ dropped \subseteq deleted
  /\ spent \in [Budgets -> Nat]
  /\ \A e \in Ids : IF Exists(e) THEN Free(event[e].cal, event[e].gid, e) ELSE reminders[e] = <<>>
  /\ \A h \in history : Exists(h.event) /\ h.state.cal \in cals
  /\ \A q \in pending : (q.op # "delete" => Exists(q.event)) /\ q.cal \in cals

\* A state is another, or what an undo makes of it: a title that was NULL is
\* empty, and an all-day event timed (see UndoRestores).
AsUndone(x) == [x EXCEPT !.fields = Restored(@)]
Leads(x, y) == x \in {y, AsUndone(y)}

\* Undoing every edit of an event leads back to what it was when it came, as
\* far as an undo restores it, whatever edits were refused or stopped half-way,
\* undos among them: the first entry of its history is that, and without
\* entries the event itself is.
UndoReachesOrigin ==
  \A e \in Ids : Exists(e) /\ origin[e] # Unknown =>
    Leads(IF HistoryOf(e) = {} THEN Snapshot(e) ELSE First(HistoryOf(e)).state, origin[e])

\* What the queue will push last for an event is the event as it is here, in
\* every column, unless Google changed it since or the last operation stopped
\* half-way.  After an undo it is not: what is queued is the entry of the
\* history (query.rs:696), all_day and a NULL title included, and the row is
\* what the undo made of that entry (query.rs:686), so that a push would send
\* an all-day event that is shown as a timed one.  Nothing else differs.
QueueEndsInRow ==
  \A e \in dirty :
    /\ PendingOf(e) # {}
    /\ LET last == Last(PendingOf(e)).payload
       IN Snapshot(e) = IF e \in undone THEN AsUndone(last) ELSE last

\* The deletion of an event Google has stays in the queue, although the event
\* it is about is gone (query.rs:775-781).  It is lost in three ways only: the
\* program stops between the DELETE and the INSERT; the cache of its calendar
\* is cleared, and the cascade of pending_edits.calendar_id takes it; or,
\* between the look-up (main.rs:6013) and the delete (main.rs:6020), the id
\* changes hands to an event of another calendar, and the deletion is queued
\* for the calendar looked up, or refused because that one is gone.
DeletionsQueued ==
  \A d \in deleted \ dropped :
    \E q \in pending : q.op = "delete" /\ q.cal = d[1] /\ q.payload = d[2]

\* Undo brings the event back as it was before the last edit.
UndoRestores ==
  [][\A h \in history : UndoEdit(h) => Snapshot(h.event)' = h.state]_vars

=============================================================================
