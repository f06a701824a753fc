# Calendarchy, specified in TLA+

Calendarchy is a desktop calendar (Rust, relm4/GTK) with a local SQLite copy of the user's
Google calendars. This directory holds a formal model of it: TLA+ modules translated from the
source under `src/`, instances that TLC checks, and theorems that TLAPS proves for every value
of the constants. File names below are relative to `src/crates/`; a bare `main.rs`, `table.rs` or
`notifications.rs` is in `app/src/`, `query.rs` and `lib.rs` are in `service-calendar/src/`.

1. [The system](#1-the-system)
2. [The modules](#2-the-modules)
3. [The runs](#3-the-runs)
4. [The theorems](#4-the-theorems)
5. [Divergences](#5-divergences)
6. [What is left out](#6-what-is-left-out)

## 1. The system

### Components

| Component | State it keeps | Operations | What makes it correct |
|---|---|---|---|
| Notification scheduler (`notifications.rs`, `query.rs:524-1011`) | `reminder_notifications`; the tick's due list; cards and history of the dialog | poll every 20 s, record, toast, rebuild the dialog, snooze, dismiss, clear, the bulk buttons | each due reminder reaches the user; the dialog offers only what is active |
| Desktop notifier (`core/src/notifier.rs`) | none | one D-Bus call | answers or fails |
| Sync engine (`service-calendar/src/{lib,storage,google_api}.rs`, `main.rs:10735-10872`) | `calendars`, `events`, `sync_state`; the pass's snapshot, listing, page | sync all accounts; clear the cache and resync; one calendar's incremental pass with its 410 fallback | the stored sync token never covers a change the copy lacks; cancelled events go; passes end; the copy converges |
| Event store (`query.rs:385-787`, dialogs in `main.rs`) | `events`, `event_reminders`, `event_edit_history`, `pending_edits`; the dialog's event id | create, update (editor and drags), delete, undo | undo leads back; the queue ends in what the store shows; constraints hold |
| Editor form, recurrence, drags (`main.rs`, `service-calendar/src/recurrence.rs`) | the fields of an open editor, the draft, the held card | open, edit, save; hold, snap, drop; rule to RRULE and back | an event that was only looked at is stored as it was; a drag stays in its day and keeps its length |
| Editor panels (`main.rs:1700-2400`) | where each panel hangs, the dock slots, the drag, the current panel | open, dock, pull off, preview, close, ask | no empty dock; a panel lies where its mode says; an open editor can be reached |
| View navigation (`main.rs`, `schedule.rs`, `table.rs`) | view, date, dragged range, paged month; the message queue; the saved view | paging, jumps, view switches, drags over days, refreshes, restore | windows tile time; the screen follows the model; the view comes back |
| Settings (`core/src/settings.rs`, preferences window) | one JSON blob; a copy per open window; timers | load, save whole, debounced savers | no writer loses another's field, but in known ways |
| Account manager, keyring, token provider (`core/src/{account,keyring}.rs`, `service-calendar/src/token_provider.rs`) | accounts, enabled services, tokens | add, enable, disable, remove, load, refresh | no tokens without account, no calendars without service, no enabled account without tokens, ids given out again mix nothing up |
| OAuth loopback (`core/src/oauth.rs`) | the listener, the connection it reads | accept, serve, exchange | the redirect ends the sign-in |
| Storage (`core/src/storage.rs`) | one connection in one mutex | `with_conn`, migrations | one statement sequence at a time |
| Table and schedule (`table.rs`, `schedule.rs`), rendering, printing, world clock | none beyond the above | filter, sort, group, draw | section 6 |

### How they interact

* **One mutex.** Every query takes the storage mutex for itself (`with_conn`). A function that
  issues several statements inside one `with_conn` is atomic with respect to other tasks, but not
  with respect to failures: nothing in the program opens a transaction.
* **Two runtimes.** The GTK thread handles one `AppMsg` at a time. Poll ticks and sync passes
  are tasks on the tokio runtime; they hold the mutex per query and give it up at each await.
  Nothing keeps two ticks, or two passes, from running together.
* **Messages.** A tick reports to the GTK thread with `ReminderCheckFinished`; buttons, headings and
  the mini calendar send `AppMsg` values, handled after whatever was queued before.
* **Idle callbacks and timers.** A panel pulled off a dock floats in an idle callback; pane widths
  are saved 350 ms after the last move; the sidebar's width is restored 50 ms after the start.
* **Whole-blob settings.** Every writer loads the blob, changes one field and saves all of it; the
  preferences window saves the copy it loaded when it was opened.
* **Row ids.** Every table uses `INTEGER PRIMARY KEY` without `AUTOINCREMENT`: the id of a deleted
  row is given out again. Cards, dialogs, sync snapshots and the keyring keep ids across awaits.
* **Foreign keys** (`PRAGMA foreign_keys = ON`): deleting a calendar takes its events, sync state
  and queued edits along, deleting an event its reminders, history and queued edits.

### What is hard

Overlapping ticks and passes; a due list, a calendar snapshot and a settings copy that are read
once and used later; ids that are reused; sequences of statements that stop half-way, by an error,
a refused constraint, or the end of the process; 410 answers in the middle of a listing;
undo after undo over interrupted edits; the order of the queue; callbacks that run after the state
they were queued for; clicks queued behind each other; days that a clock change makes longer or
shorter; months of different lengths. `PROJECT.json` lists each such hazard at its line, with the
properties about it.

## 2. The modules

| Module | Models | Instances and proofs |
|---|---|---|
| `ReminderScheduler` | the notification scheduler with the editor, the sidebar, the clock and the process around it | `MCReminderScheduler`, `ReminderSchedulerProofs` |
| `CalendarSync` | the sync engine and the two commands that run it, Google, local edits | `MCCalendarSync`, `CalendarSyncProofs` |
| `CalendarMirror` | abstract specification: a mirror of Google with a mark per calendar | refined by `CalendarSync`, proved in `CalendarSyncProofs` |
| `EventEdits` | the event store under the user, the sync engine, clears and faults | `MCEventEdits`, `EventEditsProofs` |
| `Gregorian` | dates and months, as `chrono::NaiveDate` | used by `Navigation`, `RecurrenceRules` |
| `Navigation` | the main window's view, dates, message queue, painting, closing and opening | `MCNavigation`, `NavigationProofs` |
| `Settings` | the settings blob and all its writers | `MCSettings`, `SettingsProofs` |
| `Accounts` | account manager, keyring, token providers and the passes that use them | `MCAccounts`, `AccountsProofs` |
| `SignIn` | the loopback part of signing in | - |
| `EditorPanels` | the panels the event editor lives in | `MCEditorPanels`, `EditorPanelsProofs` |
| `LocalTime`, `DayDrag`, `RecurrenceRules` | instants and wall clocks; times of a drag; repeat rules. Pure operators | used by `EventForm` |
| `EventForm` | one event between the store, the form and the grid | `MCEventForm`, `EventFormProofs` |

The `MC` modules only give the constants values. An operator whose name has an underscore
(`ClearRows_KeepsEvents`) is not part of the model: it stands just before the operator it is a
variation of and records what a plausible mistake in that code would be.

How the modules fit together: `ReminderScheduler` sees the editor as `EditEvent`, the sidebar as
`SetVisible` and the settings as `SaveSettings`; `EventEdits` sees a sync pass as `SyncChange`, `SyncInsert`
and `SyncCancel` and a clear as `ClearCalendar`, whose inner steps are `CalendarSync`'s; `Accounts` has the
passes of `CalendarSync` as tokens and a calendar list; what an `EventForm` saves goes into `EventEdits`,
the panel it is in is `EditorPanels`', and the pane widths are `Settings`'.

### ReminderScheduler

An action is one critical section of the mutex, or one await.

* `rows` is the `reminder_notifications` table by its `UNIQUE` key (event, minutes, start).
  `Absent` is a row that is not there. `IsNewRowId` is SQLite's choice of a row id, so the id of a
  cleared row is given out again.
* `pc`, `todo`, `sending`, `toastOn` are the local state of `check_and_fire_reminders`
  (`notifications.rs:48-91`): `TickStart` reads the settings (errors read as defaults),
  `TickQuery` is `due_reminders`, `RecordFired` is the upsert of `record_fired`, `Notify` the
  answer of the D-Bus call, `TickFinish` the message at the end. `Ticks` has as many members as
  ticks can be in flight.
* `ui`, `inbox`, `cards`, `past` are the GTK thread: `HandleMsg` and `HandleCheckFinished` handle a
  message, `RefreshOverlay` rebuilds the dialog, and until it has (`ui = "refresh"`) no click
  is taken. `Clickable` is what the dialog offers.
* `Stop` and `Launch` end and start the process; `EditEvent`, `SetVisible` and `SaveSettings` are the
  other components as the scheduler sees them.
* Ghost: `rebuild` (could the last rebuild read the table).
* `sending` is the toast a tick awaits. `ToastAtMostOnce` is about the step that sends one: the record
  it follows must not find its row active already.
* Abstracted: the minutes between instants (a small `now`), text, sound, position, and the order of
  the history list, of which any `HistoryLimit` rows may be the latest.

### CalendarSync and CalendarMirror

* Google is `head`, `remote`, `changed`: each change gets the next version. A sync token is the
  version its listing was taken at. `Fetch` returns any part of what is left of the listing;
  pages hold the content of the moment they are sent.
* `calOf` is the `calendars` table, `token` is `sync_state`, `copy` the version each calendar row
  holds of each event, `own` the rows the user touched since Google last did.
* `pc[p]` walks through `sync_all_accounts` / `clear_cache_and_resync_all`: accounts one after the
  other, `StartAccount` (with `clear_calendar_cache`), `ListCalendars` (`on_enabled`), `Snapshot`
  (`sync` reads the calendars once), then per calendar `LoadToken`, `Fetch`, `ApplyPage`, `StoreToken`
  (`sync_one_calendar`, `lib.rs:39-96`). `Gone` is the 410 branch. A failure anywhere ends the
  account (`Abort`) and leaves what was applied.
* `CalendarMirror` says what that amounts to, without passes and pages: events only move forward,
  and a mark per calendar never claims more than is held. The property `MirrorsGoogle` is the
  refinement, with `held`, `mine` and `mark` read off the tables through `RowOf`.
* Any number of passes overlap in any way. Two overlaps do break the store (section 5): two passes that sync
  one calendar at the same moment, and a clear under a pass that holds a snapshot of the account's rows. The
  ghost `raced` has the calendars they may have broken: the one calendar after the first, all after the
  second, until a clear begins with no such pass left. `Undisturbed(r)` is a row whose calendar is not in
  it, and the properties other than `TypeOK` and `PassEnds` are about such rows; the mirror drops a raced
  calendar. All else that two passes do to each other is covered: they take turns at a calendar, work on the
  others of one account, restart on 410, fail and die, and rows go and come back under them.

### EventEdits

* `event`, `reminders`, `history`, `pending` are the tables. An operation is a sequence of statements;
  its last parameter says after which of them it ended (`"history"`, `"event"`, `"reminders"`,
  `"queue"`, `"all"`), so one definition serves the complete operation and every interrupted one.
  `Prefixes` is what an interrupted `replace_reminders` leaves.
* `Free` is the `UNIQUE (calendar_id, google_event_id)` constraint and the reference to the
  calendar; `UpdateRefused` is an edit that it refuses after the history entry was written.
* `Restored` is what a row looks like after `json_object` and `serde_json`: a `NULL` title is `''`,
  and `all_day`, a number there, is no Boolean.
* `Cascade` is `ON DELETE CASCADE`.
* `dialog` is the editor, or "Delete event?", with the id it captured. "Delete" takes two locks:
  `LookUp` reads the calendar of the event (`main.rs:6013`) into `looked`, `DeleteEvent` deletes and queues
  under the next (`main.rs:6020`), and a sync pass or a clear comes between; `DeleteRefused` is the INSERT
  for a calendar that has gone meanwhile.
* Ghosts: `origin` (the event as it came), `dirty` (its row is the work of the last operation here),
  `undone` (that operation was an undo), `deleted` (Google events deleted here), `dropped` (those whose
  queued deletion the code has lost).
* Abstracted: `body` stands for every column besides title, all_day and calendar.

### Navigation

* `view`, `date`, `custom` and `mini` are the model's fields, `settings` what of the settings the views
  read, `today` the clock. `inbox` is the relm4 queue: a click only appends messages, `Handle` takes
  the first one and runs its handler with the refresh it ends in. `MaxInbox` lets clicks be made
  before earlier ones are handled.
* `screen` is what was painted last, as the days shown, the highlighted range and the mini
  calendar's month: every handler paints for itself, and only parts, so whether `screen` is what the
  model says is a question about all of them (`ScreenFollows`).
* `Close` saves the view, `CloseFails` does not; `Open` restores it as `init` does: paint first, then a
  queued message for the restored view.
* Abstracted: events, titles, styles, widths. Days are numbers (`Gregorian`).

### Settings

* `blob` is the row, `stack` the open preferences windows with their copies, search text, filled form
  rows and the question "Discard unsaved changes?". `WriteFresh` is load, assign, save;
  `WriteThrough` saves a window's whole copy. Each load and save can fail (`Faults`).
* `shown`, `timer`, `suppress`, `restored`, `docked` are the panes and their debounced savers.
* A field is only kept apart from another where different writers meet in it: `weekends` stands for
  all that the window below can change too, `theme` for what only preferences change.
* Ghosts: `intent` (what the user last made of each field), `excused` (fields lost in a way the code
  is known to lose them), and per window the fields changed elsewhere since its copy was loaded.

### Accounts and SignIn

* `accounts`, `enabled`, `calendars` and `keyring` are the tables and the keyring; tokens and calendar
  rows carry the identity they belong to, so that a mix-up shows. `disable_service` is two actions, one
  per lock section: `Disable` drops the calendars (`on_disabled`), `FlipToggle` flips the row or `DisableFails`.
  `remove_account` is one action per section (`RemoveData` and `RemoveServices`, which are
  `disable_service` again, `RemoveTokens`, `RemoveRow`), each of which can fail and be called again.
* History: `rekeyed` are the ids whose tokens went while a pass refreshed them, `relisted` those whose
  calendars went while a resync fetched their list, or that a resync came to between the two sections. Both
  store back what was to go (section 5).
* A pass works as `sync_all_accounts` does: list, per account `LoadTokens`, `Refresh`, `Answered`,
  `StoreCalendars`; it keeps its account and client across awaits.
* The accounts screen is not in the application yet. The caller's actions (`Add`, `Enable`, `Disable`,
  `StartRemoval`) follow what the comments ask of it.
* `SignIn` has the listener, the queue of connections and the connection being read. The browser is
  the environment: it opens any connections in any order, silent ones among them.

### EditorPanels

* `parent` is the container a panel hangs in, `mode` and `layout` what the panel thinks it is and how
  its rows are arranged, `current` the panel the shared gesture and the preview work on; `drag` is the
  gesture's state and `popOuts` the idle callbacks in flight.
* `tangled` is history: a second panel was opened over an open one, or one was closed in a drag or
  before its callback. The properties that one editor at a time is promised are stated without it.

### EventForm, DayDrag, LocalTime, RecurrenceRules

* `Opened` is the way from a row to the fields (dates, times, the all-day box with its exclusive end, the
  rule, reminder rows), `Saved` the way back, with its half-hour minimum. `Opened` after `Saved` is
  nowhere written down: `ReopenKeeps` says what it must be.
* `DayDrag` has `compute_day_drag_times` and the drag over the empty grid, snapped and clamped;
  `LocalTime` the way through the wall clock, with the earlier time in a fold and "now" in a gap.
* `FitsDay` measures the day by the dates on the clock, not by the code's midnight plus 24 hours.
  `DragFits` asks it of every drop on a day that has a midnight and 24 hours (`WholeDay`); on the others
  the code does not keep it (section 5).
* `RecurrenceRules` has an RRULE as the record of its parts: `FromRRule` (which cuts the time off UNTIL and
  reads an interval of 0 as 1), `ToRRule`, the presets and the custom dialog with its caps. A loop that
  picks some tokens of a list is `InOrder` of their positions: the folds and selections of the library
  cannot be proved about.
* Ghost: `spoiled` is set by a drag of which the code says nothing good: of an event that a sync pass made
  all-day under it, of the bottom edge of a card that begins more than 24 hours after the midnight of
  its column (`BeginsTooLate`, section 5), or of a card that such a drag had left
  ending before it starts. A save or a sync pass clears it. `TypeOK` and `ReopenKeeps` leave such a row out,
  `DragFits` does not.
* The card that is held is found again by id at the end of the drag; a sync pass can change the event
  under it (`SyncDelivers`).

## 3. The runs

The two runs with expectation *violation* each check a statement found in the repository that the code
does not keep (section 5).

| Run | Instance | Shows |
|---|---|---|
| `reminders` | 1 event, 2 reminders, **two** ticks, both surfaces, the dialog alone or none; 1 click, 1 edit, 1 fault; fairness | the dialog offers only what is active; no active reminder is forgotten, although ticks overlap, fail, and die; overdue reminders fire; active ones are shown in a dialog that is on |
| `reminders_toast_twice` | the same, both surfaces on, no click, edit or fault | violation: a firing is announced again by an overlapping tick |
| `sync_serial` | **one** pass at a time; 2 accounts of one calendar each, 2 events, 2 versions, 1 clear, 1 fault; fairness | the token never covers a live event the copy lacks, nor a cancellation it had to apply; row ids do not mix calendars; the mirror is implemented; the copy converges |
| `sync_overlap` | **two** passes over one calendar, 2 events, 2 versions, 1 clear; fairness | nothing is left of removed rows; a pass ends, refused or not; the token stays behind the copy, unless the two passes synced the calendar at the same moment |
| `edits` | 2 calendars, 2 event ids, 2 edits, 1 sync change, 1 clear, 1 fault, any four of these | constraints and cascades; undo leads back; the queue ends in the row, or after an undo in the entry it wrote back; deletions stay queued but for the three ways named |
| `edits_undo_all_day` | an edit of an all-day event, undone | violation: it comes back as a timed one |
| `navigation` | around 2024-02-29: 2 clicks, 1 changed setting, 1 midnight, 2 starts, 1 failure, 2 messages waiting | ranges have 2 to 8 days; the screen follows; a closed view comes back; a picked day is shown; pages tile time |
| `settings` | 2 windows, 2 zones, 2 form rows; 5 of: writes, openings, 2 pane moves, typing, a restart, a fault | widths are in range; a field is lost only in the ways named; a dropped zone lands beside its target; typed text is not lost unasked |
| `accounts` | 2 identities, 2 row ids, 2 passes, 1 expiry, every failure | a removal or a disabled service leaves nothing behind but what a pass under way stores back; ids given out again mix nothing up; enabled accounts have tokens |
| `sign_in` | 3 connections of 8 kinds; fairness | a redirect ends the sign-in |
| `panels` | 3 panels, one of them a draft | docks are never empty or doubled; panels lie where their mode says; an open editor is reachable |
| `editor` | 1 event of 6 kinds, days of 8 units, 4 clocks, 2 edits, drags or sync passes | looking at an event and saving it changes nothing that the form can express; drags fit the day they end on, if it has 24 hours |

### The bounds, and why they are enough

* `MaxTime`, `MaxRowId`, `MaxVersion`, `MaxRow`, `MaxEvent`, `MaxLog`, `MaxId`, `MaxInbox`, `MaxEdits`,
  `MaxConnections` bound counters and queues: an action that would pass one is not enabled. `Limit`
  bounds how many clicks, edits, clears, syncs and faults happen, by kind, and `Total` their sum.
* *Reminders.* Two reminders are enough for one to be toasted while the other waits in the same due
  list, for the bulk row, and for a row id to be given out again; two instants for a due time, a
  snooze and its end. `HistoryLimit = 1` makes one dismissed row fall out of the history. Two
  ticks overlap in every way two can; a third adds no new pair. The dialog is on or off, the toast
  on or off beside it.
* *Sync.* Two events let one page hold one and leave the other; two versions let Google change
  between listing and page. Two calendars of different accounts exchange row ids after a clear.
  In `sync_overlap` two events let a 410 come between two pages, where the pass could start over for ever,
  and let a change come between the pages of one pass and the start of the other.
* *Edits.* Two edits, with undo on top, reach a history of two, a first and a last entry that
  differ, and a move away and back. One sync change, clear and fault each can come between any two
  steps; `Total = 4` lets every two of them meet both edits, and all three one. One Google id is
  enough to collide.
* *Navigation.* The days picked are a Thursday, the Sunday and the Saturday around the leap day, and the
  29th itself: month ends of 29 and 31 days, weekends that are hidden, a range over the month's end.
  Two clicks put one message behind another's.
* *Settings.* Two windows, so that one saves a copy older than the other's change; a pane move beside a
  timer that is running; two zones of two kinds and a third of either, which gives every place a
  dropped row can come from and go to in a list of three; widths one below and one above the limits.
* *Accounts.* With two identities and two ids a removed account's id is given to the other one while
  a pass still has it; one pass overtakes the other's refresh.
* *Panels.* Two panels compete for a slot and a third, a draft, is opened over both.
* *Editor.* A day of eight units with a quarter of two has room for a start, an end and a snap between;
  the clocks have no change, a midnight that does not exist, a morning time that does not exist and two
  first times of a day that come twice, which makes that day ten units long; the events a
  morning, one over midnight, one in another offset, one of no length, one and three whole days.
* Where a bound could matter, the theorems do without it.

`SYMMETRY` is used in safety runs only: over the two calendars of `edits`, over passes and
identities in `accounts`, over the panels that are no drafts. `CHECK_DEADLOCK FALSE` stands where the
budgets can be spent with nothing left to do (`edits`, `edits_undo_all_day`, `navigation`, `settings`, `accounts`),
where every panel was built and closed (`panels`) and where a sign-in with no connection left
waits for ever, as the code does (`sign_in`).

### Fairness

* *Scheduler.* The timer fires for ever, the tokio runtime runs a task that can go on, the D-Bus
  call returns (zbus answers or gives an error), the GTK loop handles its messages, and a
  closed program is launched again. No fairness for the user, for time, or for failures; in
  particular a handler that can fail is not assumed to succeed except when the fault budget is spent.
* *Sync.* A pass that can go on does, and "Sync now" is pressed again and again: nothing in the
  program polls, so without that convergence would be false. Google may answer with pages or 410
  as it likes.
* *Sign-in.* The flow's task goes on when it can, and the browser at last closes a connection it opened
  and never used; the code itself has no timeout.
* `Converges` and `OverdueGetsFired` would fail with unbounded faults; the bounded fault budget is the
  statement that failures end at some time.

## 4. The theorems

TLAPS checks each one from nothing, for all values of the constants that satisfy the named
assumptions of the modules (TLC evaluates these on its instances).

| Theorem | States | Argument |
|---|---|---|
| `ReminderSchedulerProofs!TypeCorrect` | `TypeOK` | action by action |
| `DialogIsSound` | `DialogShowsOnlyActive` | inductive with `TypeOK`: ticks only activate, and the GTK thread rebuilds before it listens |
| `NoReminderIsSilent` | `NoSilentReminder` | inductive with `TypeOK`; `RecordFired` leaves its own tick in flight |
| `CalendarSyncProofs!TypeCorrect` | `TypeOK` | `DeadRowsEmpty` makes "nothing refers to a removed row" inductive |
| `TokenNeverAhead`, `RowsHoldOwnEvents`, `CancellationsFollowed` | `TokenCoversLive`, `NoForeignEvents`, `CancellationsApplied`, for any number of passes | `SyncInv == TypeOK /\ OneRowEach /\ DbInv /\ PassInv`. The properties are not inductive: storing a token needs `ListingCovers` (an open listing still has, or has just brought, all that its version covers and the copy lacks) and `CancelCovers` (the same of the cancellations an incremental one reports), applying a page needs `PageFresh` and `ListingOK`, all need the snapshot to be the table's (`SnapshotOK`). `PassOK(p)` is their conjunction for one pass at an undisturbed calendar, `Exclusive` says that no two passes sync the same one; what the step of one pass leaves of another's `PassOK` is in `Kept` and `OthersKept`, and the steps that break it set `raced` |
| `ImplementsMirror` | `Spec => MirrorsGoogle`, likewise | step simulation under `SyncInv`: `RowOf` is only a function while a calendar has one row, and a page may only be `Receive` while it holds nothing older than the copy (`Forward`). Each action maps to one of the mirror's or to a stutter; a step that races a calendar maps to its `Drop` |
| `EventEditsProofs!TypeCorrect` | `TypeOK`: shapes, `UNIQUE`, no dangling rows | split by table (`EventsOK`, `HistoryOK`, `PendingOK`, `RestOK`); a lemma per operation says what it writes as far as it comes |
| `UndoCorrect` | `UndoReachesOrigin` | inductive with `TypeOK`: a new entry is the oldest only where there was none; the entry undone is the oldest only where it is the only one |
| `QueueCorrect`, `DeletionsSurvive` | `QueueEndsInRow`, `DeletionsQueued` | one invariant, strengthened by `CalsMatch` (a queued edit names its payload's calendar), without which a cleared calendar could take the last edit of an event in another. `QueueEndsInRow` compares every column; after an undo it says exactly which differ. `DeletionsQueued` excuses the three ways in which a queued deletion is lost and no other |
| `NavigationProofs!RangesAreSound` | `CustomRange` | `RangesOK`: every range that is shown, saved by a closed window or carried by a waiting message has two to eight days; the property alone says nothing of the last two |
| `ScreenIsCurrent` | `ScreenFollows` | `WillFollow`: the painting is current, or a message waits whose handler paints all of it. A handler that repaints only the mini calendar must leave the rest of `screen` as it was |
| `NavigationProofs!TypeCorrect` | `TypeOK` | inductive with `RangesOK`; that a shifted month or a counted weekday is a date again rests on `MonthOfIs` (`MonthOf` is right for every day, since no month begins more than four days from its share of 400 years, `MonthDrift`) and on `StepForward`, `StepBack` |
| `WindowComesBack` | `ViewSurvives` | `ComesBack`: the restoring message is the only one that waits (`Restoring`), or what it says has been done (`Restored`); with `WillFollow`, which says that the painting follows |
| `PickIsShown` | `PickedDayIsShown` | an action property from `TypeOK /\ RangesOK`: `AnchorShown`, by view, says that the days shown hold their anchor |
| `PagesTileTime` | `PagesTile`, which leaves out five days without weekends from a weekend day, and the table without a limit | an action property from the same invariant: one lemma a view on what lies between two anchors (`MonthsAdjoin`, `YearsAdjoin`, `WeeksAdjoin`, `FiveDaysAdjoin`, `RangesAdjoin`); the five days count weekdays, `FiveSteps` says how many days five of them take |
| `SettingsProofs!TypeCorrect` | `TypeOK` | blob, wishes, the windows' copies, panes and timers, by lemmas on what a save writes and what lists of zones become |
| `NothingElseIsLost` | `OnlyExcusedLost` | `LossInv` adds what the copies and timers will do later: a copy is current in every field not changed elsewhere since it was loaded (or holds a wish that could not be saved), and a timer holds what the user wants or its field is excused |
| `DroppedZoneLands` | `ZoneLands` | `RowMoved`, `RowLands`: where each element of a list is after one is taken out and put in elsewhere, for lists of any length |
| `TypedTextIsKept` | `TextKept` | an action property from `IInv` and `FormsGuarded` (a window may close unasked exactly while it has no text). Which window a closing step took away is found as the least index at which two stacks differ |
| `AccountsProofs!TypeCorrect`, `RemovalIsClean`, `DataIsOwn`, `EnabledCanBeVisited` | `TypeOK`, `NothingLeftBehind`, `OwnData`, `EnabledHasTokens` | one `IInv`: the properties with `RemovalInOrder` (what a removal has behind it stays so, whatever passes do) and `PassesFit` (an account in a pass's hands whose data did not go meanwhile is the one it was, and so are its tokens). That `disable_service` has two sections shows in `Halfway`: a resync that comes to the account between them is `relisted` |
| `EditorPanelsProofs!TypeCorrect`, `DocksShowPanels`, `PanelsSettle`, `PanelsReachable` | `TypeOK`, `DockShown`, `Settled`, `EditorReachable` | one `IInv`: `Lone` (while nothing is tangled, the open panel is the current, on the screen, and a drag or callback is its own) and `AskedIsOpen` |
| `EventFormProofs!TypeCorrect` | `TypeOK` | `FormInv`: types of row, form and held card, well-formed row unless spoiled, and the "add" button on only below the limit. `DragInOrder` is why a drag keeps an event in order, and where `BeginsTooLate` is needed |
| `ReopeningKeeps` | `ReopenKeeps` | from `FormInv` by `SavedAsOpened`: local time leads back (`EarliestShown`, `FieldsLeadBack`: the earlier time of a fold, any gap), dates are in order when instants are (`DatesInOrder`, where a fold could turn them round), rules parse back (`RuleKept`, from `InOrderIs`: the positions of some tokens keep their order), reminders multiply back (`ReminderKept`), and so the dialog (`DialogKeeps`) |
| `DragsFit` | `DragFits` | an action property from `FormInv`: `DragIs` is the drag by zone; that its result begins and ends on the day, by the dates on the clock, is `DragWithin` (within 24 hours from the midnight of the column) and `DragFitsDay` (those hours are all of the day, by `WholeDay`) |
| `SweptIsCovered` | a theorem on `CreateRange` alone | the floor of the lower and the ceiling of the upper end, clamped, cover all that was swept |

The theorems assume of the constants only what the `ASSUME`s of the modules say: types and shapes, no
bound on how many passes, ticks, panels, zones or accounts there are. What the code does not keep is not assumed away:
it is excepted, by name, in the property (`raced`, `dropped`, `rekeyed`, `relisted`, `excused`, `tangled`,
`spoiled`, `WholeDay`), and section 5 says what happens there.

Only model-checked: liveness (`OverdueGetsFired`, `ActiveGetsShown`, `Converges`, `PassEnds`,
`RedirectEndsSignIn`), because the prover has no support for fairness and `ENABLED`; `SignIn`, whose one
property is of that kind, has no proof module. Every invariant, every action property and the refinement of the runs
that pass is proved. The library's induction theorems cannot be used by the provers at hand; where an
argument needs induction over a list or a set, the proofs take the least index or member that is a
counterexample instead.

What the proofs changed: `SweptIsCovered` failed at first because the upper end of a swept range was a floor
and not the ceiling of `compute_day_create_range`; `DragInOrder` failed for a bottom edge on a day of 25 hours,
which no clock of the run had (section 5; the fourth clock has one now); `FitsDay` by the dates on the clock
failed on a day cut short, which its form with the code's own 24 hours had hidden; `MonthOf` was right only for dates
near 2000 and is now for all.

## 5. Divergences

### Found by a run

`edits_undo_all_day` (`UndoRestores`): `update_event` keeps the old row as JSON, in which `all_day` is a
number; `undo_last_event_edit` reads it back with `as_bool()`, which is none of a number. An all-day event
whose edit is undone comes back as a timed one (`query.rs:686` against `query.rs:656`).

`reminders_toast_twice` (`ToastAtMostOnce`): the timer starts a tick while the previous one awaits a toast. A
tick works off the due list of its own start, so the second records and announces a firing, and the first, when its
turn comes, announces it again (`notifications.rs:42`), against the comment of `record_fired`: "so a crash or
slow send between the two doesn't cause a duplicate on the next poll tick" (`query.rs:865-866`).

### Noticed while modelling, without a run

Each of these is what the code does at the line named; the model does the same. Where a text of the
repository says otherwise it is named too.

*Reminders.*
* `record_fired` activates whatever the due list said, dismissed meanwhile or not (`query.rs:874`;
  `query.rs:814`). Clearing a history row deletes the row that keeps the reminder from firing
  (`query.rs:1008`): it fires again at the next poll.
* Two equal reminders of one event share a row and are both in the due list (`query.rs:543`).
* The dialog is rebuilt and shown whatever `custom_notification_dialog_enabled` says
  (`notifications.rs:395`), although the switch is to say whether it "shows reminders, independent of" the toast's
  (`settings.rs:282-284`); it only decides, with the toast's, whether a tick runs at all.
  `ActiveGetsShown` speaks of the time the switch is on.
* A click that was queued before a rebuild is worked off on whatever row has the id by then
  (`notifications.rs:411`).
* `notify_only_if_responded` is stored and never read (`query.rs:830`).

*Sync.*
* The full listing after a 410 removes nothing, so what was deleted at Google meanwhile stays
  (`lib.rs:64`; `google_api.rs:16-17`, `DESIGN_SPEC.md:144`). `CancellationsApplied` leaves such events out.
* Two passes that sync one calendar at the same moment store tokens and pages in any order
  (`main.rs:10743`; `DESIGN_SPEC.md:93`, `:141`): a page fetched before a newer token was stored is applied after
  it, and the token is ahead of the copy. A clear under a pass that holds rows of the account can give a row
  id to another calendar, whose row then receives the first one's events (`lib.rs:276`). The properties except
  such calendars (`raced`).
* A clear deletes the calendar rows before the list is fetched. If that fails they do not come back,
  because `sync` never lists (`main.rs:10859`; `main.rs:10796-10797`, `DESIGN_SPEC.md:228`).
* A pass writes over local edits that are still queued (`service-calendar/src/storage.rs:139`;
  `DESIGN_SPEC.md:146`). The first calendar that fails ends the sync of its account (`lib.rs:277`).
* Each pass has its own token provider, so the lock that should make refreshes happen once serialises
  nothing between passes (`token_provider.rs:38`, `:19`). Scopes are kept on a refresh
  (`DESIGN_SPEC.md:120`).

*Event store.*
* The id behind "Delete event?" can belong to another event by the time of the answer
  (`main.rs:6013`; `main.rs:6002`, `:6026`), and again between the look-up and the delete, which are under two
  locks (`main.rs:6013`, `:6020`): the deletion is then queued for a calendar the deleted event is not in.
* A queued deletion is lost in three ways: the program stops between the DELETE and the INSERT
  (`query.rs:777-781`); a clear of its calendar takes it along, through `pending_edits.calendar_id`; or the id
  changes hands between look-up and delete. The comment on why `event_id` is `NULL` (`query.rs:766-771`) has
  only the cascade from the event in mind. `DeletionsQueued` names the three.
* An undo queues the entry of the history, `all_day` 1 and a `NULL` title included (`query.rs:696`), while the row
  gets `all_day` 0 and `''` (`query.rs:686`): a push would send an all-day event where a timed one is shown.
  `QueueEndsInRow` says so.
* An undo that `UNIQUE` refuses stays the last entry: no older edit can be undone until the event goes
  (`query.rs:677-690`). An update that is refused leaves its history entry.
* A local event that is moved to another calendar, whose first calendar is then cleared, has an "update"
  in the queue without its "create". Queue and history are never pruned.

*Editor and grid.*
* Opening a second event puts a second panel in the same slot, and closing one hides the other
  (`main.rs:1868`; `DESIGN_SPEC.md:155`). A panel closed in a drag is attached again by the drag's end.
  A callback that runs after a further motion leaves the layout out of step with the mode
  (`main.rs:2247-2252`).
* A save that fails still closes the panel, and Delete, Duplicate and Copy pass by the question about
  unsaved changes (`DESIGN_SPEC.md:167`).
* A card stands in the column of the date its text has; a drag of an event in another offset lands on the
  wrong day, and can end before it starts (`main.rs:5109` and its comment). A drag over a sync pass that
  made the event all-day writes times into it. An event longer than a day moves to before its column.
* A day is 24 hours long for a drag (`main.rs:5228`). On a day of 23 hours a card can be dropped or pulled so
  that it ends after the next midnight, although it is to be "clamped to the event's own calendar day"
  (`main.rs:5185-5186`); a day without a midnight is taken to begin now (`main.rs:6950-6955`). `DragFits`
  leaves both out (`WholeDay`). On a day of 25 hours, pulling at the bottom of a card that
  begins in the last one ends it before it starts; on any day, a card that begins in the last quarter of an
  hour can end up shorter than one (`main.rs:5250`; `main.rs:5107-5111`, `:5185-5186`), because the end of
  the day is applied after the shortest length.
* A month drag over a clock change shifts the wall time (`main.rs:3766`). A time in a gap becomes "now".
* A default reminder above the spin button's largest value is clamped to it; an event of no length becomes
  half an hour; the time part of UNTIL (`recurrence.rs:195`), an interval of 0 (`recurrence.rs:187`) and
  unknown parts of an RRULE do not survive a save; the custom dialog forgets monthly ordinals
  (`main.rs:7393-7397`) and caps 99 and 999.

*Accounts.*
* `disable_service` drops the calendars under one lock and flips the toggle under another (`account.rs:199`,
  `:201-207`). A resync that lists in between, or had begun before, stores calendars under a service that is
  then off (`lib.rs:262-267`); an error in between leaves a service on without calendars. A refresh under
  way while the tokens are deleted stores them back under the id (`token_provider.rs:51`).
  `NothingLeftBehind` and `OwnData` name both (`relisted`, `rekeyed`).

*Navigation and settings.*
* Paging a five-day view from a weekend day that is hidden shows a day twice (`main.rs:1018`), although the
  windows are to "tile business days with no overlap or gap" (`main.rs:1411-1412`); `PagesTile` leaves that
  start out.
* The preferences window saves the copy it loaded, over what the view switcher, the popup or another
  window changed since (`main.rs:9459`; `main.rs:1236`). A load that fails turns into defaults, which the
  next save stores (`core/src/settings.rs:413`).
* The swap button holds a borrow of the settings while it changes rows whose handlers borrow them
  mutably: the process ends (`main.rs:9764`; `main.rs:9745`).
* A sidebar that is restored to the width it has leaves the flag set that swallows the next drag
  (`main.rs:1701-1755`). `OnlyExcusedLost` names both as ways a field is lost. `primary_timezone` is unused.

## 6. What is left out

* *Rendering, printing, the world clock.* GTK calls without state of interest; the dialogs that keep
  state across a sync or a callback are modelled.
* *Table and schedule.* The range each shows and its paging are in `Navigation`. The rest is a filter and
  a sort of query rows, recomputed at every refresh: no state and no history. How overlapping cards
  share a column is layout as well.
* *JSON decoding, URLs, PKCE, HTTP and the `oauth2` crate.* Only which of the possible answers comes
  is modelled.
* *Migrations* run before anything else; the *service registry* is filled once.
* *Reminders of events whose ids were given out again.* `reminder_notifications` keeps rows of deleted
  events (`core/src/storage.rs:73`); `ReminderScheduler` has a fixed set of events and `EventEdits` leaves
  firings out, so what a new event inherits from an old one's rows is not covered.
* *A notification daemon that never answers* (`notifications.rs:80`): the tick never ends, which the
  fairness of `reminders` excludes.
* In `EventForm` one event is followed: no other row arrives while something holds a deleted one, no card
  is held while the form is open (both belong to `EventEdits`' dialog), and the drag of a draft is one
  step.

The hazards without a property in `PROJECT.json` each say why. The next step would be the composition
of `ReminderScheduler` with the tables of `EventEdits`.
