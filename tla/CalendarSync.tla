---------------------------- MODULE CalendarSync ----------------------------
(***************************************************************************)
(* The sync engine of Calendarchy's Calendar service: the incremental pass *)
(* over one calendar (CalendarService::sync_one_calendar), the pass over   *)
(* the calendars of every account that "Sync now" starts, and the "Clear   *)
(* local cache and resync" pass that first throws the local rows away      *)
(* (service-calendar/src/lib.rs and storage.rs, and the two commands of    *)
(* app/src/main.rs).                                                       *)
(*                                                                         *)
(* A pass is a command on the relm4 runtime.  Nothing keeps the user from  *)
(* starting another while one runs, and the storage mutex is held for one  *)
(* query or one page at a time.  Google changes its events meanwhile.      *)
(* An action is one critical section of the mutex, or one await.           *)
(*                                                                         *)
(* An event's content is the version of its last change: version 0 stands  *)
(* for an event that is not there, or cancelled.                           *)
(***************************************************************************)
EXTENDS Integers, FiniteSets

CONSTANTS
  Accounts,    \* accounts with the Calendar service enabled
  Calendars,   \* Google calendars
  NoCalendar,  \* a row id that is not in use
  AccountOf,   \* the account of a calendar
  Events,      \* Google events
  HomeOf,      \* the Google calendar an event is in
  Passes,      \* passes that can run at the same time
  Kinds,       \* the buttons the user may press: "sync", "clear"
  MaxVersion,  \* bound: changes on Google's side
  MaxRow,      \* bound: largest row id of the calendars table
  Limit        \* bound: how many clears, edits and faults happen

Budgets == {"clear", "edit", "fault"}

ASSUME ConstantsAssumption ==
  /\ Calendars # {} /\ AccountOf \in [Calendars -> Accounts] /\ NoCalendar \notin Calendars
  /\ HomeOf \in [Events -> Calendars]
  /\ Kinds \subseteq {"sync", "clear"}
  /\ MaxVersion \in Nat \ {0} /\ MaxRow \in Nat \ {0}
  /\ Limit \in [Budgets -> Nat]

VARIABLES
  head,     \* Google: the version of its last change
  remote,   \* Google: the version of each event, 0 when cancelled
  changed,  \* Google: the version of each event's last change, cancelling included
  calOf,    \* calendars: the Google calendar of each row id
  token,    \* sync_state.sync_token by account and row id, 0 when NULL
  copy,     \* events: the version each calendar row holds of each event
  fullAt,   \* ghost: the version of the last full listing a row completed
  own,      \* the event rows the user changed or deleted since they were synced
  raced,    \* ghost: calendars that two passes disturbed each other at
  pc,       \* where each pass is
  kind,     \* the button that started it
  accounts, \* the accounts it has not come to yet
  account,  \* the account it is working on
  cals,     \* the snapshot of calendar rows it has still to sync
  cal,      \* the one it is syncing: row id and Google calendar id
  since,    \* sync_token of the request, 0 for None
  upto,     \* the listing that page_token continues, 0 for None: its version
  left,     \* events that listing has not returned yet
  page,     \* the page just received: a version for each event on it
  retried,  \* retried_after_expired_token
  spent     \* clears, edits and faults so far

googleVars == <<head, remote, changed>>
dbVars == <<calOf, token, copy, fullAt, own>>
passVars == <<kind, accounts, account, cals, cal, since, upto, left, page, retried>>
vars == <<googleVars, dbVars, raced, pc, passVars, spent>>

RowIds == 1..MaxRow
CalRow == [row : RowIds, google : Calendars]
EmptyPage == [e \in {} |-> 0]
Pages(n) == UNION {[S -> 0..n] : S \in SUBSET Events}

AnyCal == CHOOSE c \in CalRow : TRUE
Spend(b) == spent[b] < Limit[b] /\ spent' = [spent EXCEPT ![b] = @ + 1]

Live(r) == calOf[r] # NoCalendar
RowsOf(a) == {r \in RowIds : Live(r) /\ AccountOf[calOf[r]] = a}
EventsOf(c) == {e \in Events : HomeOf[e] = c}

OneRowEach == \A q, r \in RowIds : calOf[q] = calOf[r] /\ calOf[q] # NoCalendar => q = r

\* Google has some events, and the calendars table the rows an earlier run of
\* the program left: none, or some of the calendars, not synced yet.
Init ==
  /\ head = 1
  /\ \E S \in SUBSET Events : remote = [e \in Events |-> IF e \in S THEN 1 ELSE 0]
  /\ changed = remote
  /\ calOf \in [RowIds -> Calendars \cup {NoCalendar}] /\ OneRowEach
  /\ \A r \in RowIds : Live(r) => r <= Cardinality(Calendars)
  /\ token = [a \in Accounts |-> [r \in RowIds |-> 0]]
  /\ copy = [r \in RowIds |-> [e \in Events |-> 0]]
  /\ fullAt = [r \in RowIds |-> 0]
  /\ own = {} /\ raced = {}
  /\ pc = [p \in Passes |-> "idle"]
  /\ kind = [p \in Passes |-> "sync"]
  /\ accounts = [p \in Passes |-> {}]
  /\ account = [p \in Passes |-> CHOOSE a \in Accounts : TRUE]
  /\ cals = [p \in Passes |-> {}]
  /\ cal = [p \in Passes |-> AnyCal]
  /\ since = [p \in Passes |-> 0]
  /\ upto = [p \in Passes |-> 0]
  /\ left = [p \in Passes |-> {}]
  /\ page = [p \in Passes |-> EmptyPage]
  /\ retried = [p \in Passes |-> FALSE]
  /\ spent = [b \in Budgets |-> 0]

-----------------------------------------------------------------------------
(* Google, and the user editing events in the application.                 *)

\* An event is created, changed or cancelled on Google's side.
RemoteChange(e, cancel) ==
  /\ head < MaxVersion
  /\ cancel => remote[e] # 0
  /\ head' = head + 1
  /\ remote' = [remote EXCEPT ![e] = IF cancel THEN 0 ELSE head + 1]
  /\ changed' = [changed EXCEPT ![e] = head + 1]
  /\ UNCHANGED <<dbVars, raced, pc, passVars, spent>>

\* update_event or delete_event on a synced event.
LocalEdit(r, e, delete) ==
  /\ copy[r][e] # 0
  /\ Spend("edit")
  /\ copy' = IF delete THEN [copy EXCEPT ![r][e] = 0] ELSE copy
  /\ own' = own \cup {<<r, e>>}
  /\ UNCHANGED <<googleVars, calOf, token, fullAt, raced, pc, passVars>>

-----------------------------------------------------------------------------
(* sync_all_accounts and clear_cache_and_resync_all.                       *)

Goto(p, l) == pc' = [pc EXCEPT ![p] = l]

\* A press of "Sync now" or "Clear local cache and resync".
Press(p, k) ==
  /\ pc[p] = "idle" /\ k \in Kinds
  /\ IF k = "clear" THEN Spend("clear") ELSE UNCHANGED spent
  /\ Goto(p, "account")
  /\ kind' = [kind EXCEPT ![p] = k]
  /\ accounts' = [accounts EXCEPT ![p] = Accounts]
  /\ UNCHANGED <<googleVars, dbVars, raced, account, cals, cal, since, upto, left, page, retried>>

Finish(p) ==
  /\ pc[p] = "account" /\ accounts[p] = {}
  /\ Goto(p, "idle")
  /\ UNCHANGED <<googleVars, dbVars, raced, passVars, spent>>

\* Mutant of ClearRows: the cascade to events is missing.
ClearRows_KeepsEvents(R) ==
  /\ calOf' = [r \in RowIds |-> IF r \in R THEN NoCalendar ELSE calOf[r]]
  /\ token' = [a \in Accounts |-> [r \in RowIds |-> IF r \in R THEN 0 ELSE token[a][r]]]
  /\ fullAt' = [r \in RowIds |-> IF r \in R THEN 0 ELSE fullAt[r]]
  /\ own' = {x \in own : x[1] \notin R}
  /\ UNCHANGED copy

\* clear_calendar_cache deletes the calendar rows of the account, and with
\* them, by ON DELETE CASCADE, their events, sync_state and pending edits.
ClearRows(R) ==
  /\ calOf' = [r \in RowIds |-> IF r \in R THEN NoCalendar ELSE calOf[r]]
  /\ token' = [a \in Accounts |-> [r \in RowIds |-> IF r \in R THEN 0 ELSE token[a][r]]]
  /\ copy' = [r \in RowIds |-> IF r \in R THEN [e \in Events |-> 0] ELSE copy[r]]
  /\ fullAt' = [r \in RowIds |-> IF r \in R THEN 0 ELSE fullAt[r]]
  /\ own' = {x \in own : x[1] \notin R}

CalendarList(a) == {c \in Calendars : AccountOf[c] = a}

Syncing(p) == pc[p] \in {"fetch", "apply", "store"}
Others(p) == {q \in Passes \ {p} : Syncing(q) \/ cals[q] # {}}

\* The ghost of a clear: a pass that still holds a snapshot of the rows may from
\* now on write to rows of any calendar; otherwise the account's start afresh,
\* unless such a pass is left from an earlier clear.
RacedByClear(p, a) ==
  IF \E q \in Others(p) : account[q] = a THEN Calendars
  ELSE IF Others(p) # {} THEN raced
  ELSE raced \ CalendarList(a)

StartAccount(p, a) ==
  /\ pc[p] = "account" /\ a \in accounts[p]
  /\ account' = [account EXCEPT ![p] = a]
  /\ accounts' = [accounts EXCEPT ![p] = @ \ {a}]
  /\ IF kind[p] = "clear"
       THEN ClearRows(RowsOf(a)) /\ Goto(p, "list") /\ raced' = RacedByClear(p, a)
       ELSE UNCHANGED <<dbVars, raced>> /\ Goto(p, "snapshot")
  /\ UNCHANGED <<googleVars, kind, cals, cal, since, upto, left, page, retried, spent>>

\* The ids SQLite gives new rows: the ones after the largest in use.
IsNewRows(f, C) ==
  LET top(n) == (n = 0 \/ (n \in RowIds /\ Live(n))) /\ \A r \in RowIds : Live(r) => r <= n IN
  \E n \in 0..MaxRow :
    /\ top(n)
    /\ \A c \in C : f[c] > n /\ f[c] <= n + Cardinality(C)
    /\ \A c, d \in C : f[c] = f[d] => c = d

\* upsert_calendar, for the calendars C of the list Google answered: known
\* calendars keep their row.
UpsertCalendars(C) ==
  LET new == {c \in C : \A r \in RowIds : calOf[r] # c} IN
  \E f \in [new -> RowIds] :
    /\ IsNewRows(f, new)
    /\ calOf' = [r \in RowIds |->
                   IF \E c \in new : f[c] = r THEN CHOOSE c \in new : f[c] = r ELSE calOf[r]]

\* CalendarService::on_enabled.
ListCalendars(p) ==
  /\ pc[p] = "list"
  /\ UpsertCalendars(CalendarList(account[p]))
  /\ Goto(p, "snapshot")
  /\ UNCHANGED <<googleVars, raced, token, copy, fullAt, own, passVars, spent>>

\* CalendarService::sync reads the account's calendars once.
Snapshot(p) ==
  /\ pc[p] = "snapshot"
  /\ cals' = [cals EXCEPT ![p] = {[row |-> r, google |-> calOf[r]] : r \in RowsOf(account[p])}]
  /\ Goto(p, "calendar")
  /\ UNCHANGED <<googleVars, dbVars, raced, kind, accounts, account, cal, since, upto, left, page,
                 retried, spent>>

EndAccount(p) ==
  /\ pc[p] = "calendar" /\ cals[p] = {}
  /\ Goto(p, "account")
  /\ UNCHANGED <<googleVars, dbVars, raced, passVars, spent>>

\* The first error ends the work on this account: it is logged and counted, and
\* the pass goes on with the next account.
Abort(p) ==
  /\ Goto(p, "account")
  /\ cals' = [cals EXCEPT ![p] = {}]
  /\ left' = [left EXCEPT ![p] = {}]
  /\ page' = [page EXCEPT ![p] = EmptyPage]
  /\ upto' = [upto EXCEPT ![p] = 0]
  /\ UNCHANGED <<kind, accounts, account, cal, since, retried>>

\* list_calendars fails, or storing its answer does after the calendars C.
ListFails(p, C) ==
  /\ pc[p] = "list"
  /\ Spend("fault")
  /\ UpsertCalendars(C)
  /\ Abort(p)
  /\ UNCHANGED <<googleVars, raced, token, copy, fullAt, own>>

-----------------------------------------------------------------------------
(* sync_one_calendar.                                                      *)

\* The ghost of a second pass over a calendar: pages of either may overwrite what
\* the other brought and stored a token for.
RacedBySync(p, c) ==
  IF \E q \in Passes \ {p} : Syncing(q) /\ cal[q].google = c.google THEN raced \cup {c.google} ELSE raced

LoadToken(p, c) ==
  /\ pc[p] = "calendar" /\ c \in cals[p]
  /\ raced' = RacedBySync(p, c)
  /\ cals' = [cals EXCEPT ![p] = @ \ {c}]
  /\ cal' = [cal EXCEPT ![p] = c]
  /\ since' = [since EXCEPT ![p] = token[account[p]][c.row]]
  /\ upto' = [upto EXCEPT ![p] = 0]
  /\ left' = [left EXCEPT ![p] = {}]
  /\ retried' = [retried EXCEPT ![p] = FALSE]
  /\ Goto(p, "fetch")
  /\ UNCHANGED <<googleVars, dbVars, kind, accounts, account, page, spent>>

\* What a request without page token lists: the events changed since the sync
\* token, cancelled ones included, or all events there are.
Listing(c, s) ==
  {e \in EventsOf(c) : IF s = 0 THEN remote[e] # 0 ELSE changed[e] > s}

\* The items of a page on which Google put the events S.  In a full listing a
\* cancelled event is left out.
Items(S, s) == [e \in {e \in S : s # 0 \/ remote[e] # 0} |-> remote[e]]

\* One list_events call.  The listing belongs to the version Google is at when
\* its first page is asked for; the page with the last events ends it.
Fetch(p, S) ==
  LET listing == IF upto[p] = 0 THEN Listing(cal[p].google, since[p]) ELSE left[p] IN
  /\ pc[p] = "fetch"
  /\ S \subseteq listing /\ (S = {} => listing = {})
  /\ upto' = [upto EXCEPT ![p] = IF @ = 0 THEN head ELSE @]
  /\ left' = [left EXCEPT ![p] = listing \ S]
  /\ page' = [page EXCEPT ![p] = Items(S, since[p])]
  /\ Goto(p, "apply")
  /\ UNCHANGED <<googleVars, dbVars, raced, kind, accounts, account, cals, cal, since, retried, spent>>

\* Mutant of Gone: retried_after_expired_token is not looked at.
Gone_Always(p) ==
  /\ pc[p] = "fetch"
  /\ since' = [since EXCEPT ![p] = 0]
  /\ upto' = [upto EXCEPT ![p] = 0]
  /\ left' = [left EXCEPT ![p] = {}]
  /\ retried' = [retried EXCEPT ![p] = TRUE]
  /\ UNCHANGED <<googleVars, dbVars, raced, pc, kind, accounts, account, cals, cal, page, spent>>

\* Google answers 410 GONE: once per calendar the pass starts over without
\* sync token, keeping what earlier pages brought.
Gone(p) ==
  /\ pc[p] = "fetch" /\ ~retried[p]
  /\ since' = [since EXCEPT ![p] = 0]
  /\ upto' = [upto EXCEPT ![p] = 0]
  /\ left' = [left EXCEPT ![p] = {}]
  /\ retried' = [retried EXCEPT ![p] = TRUE]
  /\ UNCHANGED <<googleVars, dbVars, raced, pc, kind, accounts, account, cals, cal, page, spent>>

\* Any other error, a second 410 included.
FetchFails(p) ==
  /\ pc[p] = "fetch"
  /\ Spend("fault")
  /\ Abort(p)
  /\ UNCHANGED <<googleVars, dbVars, raced>>

\* Mutants of Upserted: cancelled events are skipped, or an event that is there
\* already is (ON CONFLICT DO NOTHING).
Upserted_SkipsCancelled(p, e) ==
  IF page[p][e] = 0 THEN copy[cal[p].row][e] ELSE page[p][e]
Upserted_InsertsOnly(p, e) ==
  IF page[p][e] = 0 \/ copy[cal[p].row][e] = 0 THEN page[p][e] ELSE copy[cal[p].row][e]

\* upsert_event for the events S of the page, into calendar row r: the row is
\* inserted, overwritten, or deleted when cancelled.
Upserted(p, e) == page[p][e]

UpsertEvents(p, r, S) ==
  /\ copy' = [copy EXCEPT ![r] = [e \in Events |-> IF e \in S THEN Upserted(p, e) ELSE @[e]]]
  /\ own' = own \ ({r} \X S)

\* An insert needs the calendar row (PRAGMA foreign_keys); a delete finds
\* nothing and is content.
Storable(p, S) == Live(cal[p].row) \/ \A e \in S : page[p][e] = 0

\* Mutant of ApplyPage: the token is stored with every page.
ApplyPage_TokenPerPage(p) ==
  /\ pc[p] = "apply"
  /\ Storable(p, DOMAIN page[p]) /\ Live(cal[p].row)
  /\ UpsertEvents(p, cal[p].row, DOMAIN page[p])
  /\ token' = [token EXCEPT ![account[p]][cal[p].row] = upto[p]]
  /\ page' = [page EXCEPT ![p] = EmptyPage]
  /\ Goto(p, IF left[p] = {} THEN "store" ELSE "fetch")
  /\ UNCHANGED <<googleVars, raced, calOf, fullAt, kind, accounts, account, cals, cal, since,
                 upto, left, retried, spent>>

ApplyPage(p) ==
  /\ pc[p] = "apply"
  /\ Storable(p, DOMAIN page[p])
  /\ UpsertEvents(p, cal[p].row, DOMAIN page[p])
  /\ page' = [page EXCEPT ![p] = EmptyPage]
  /\ Goto(p, IF left[p] = {} THEN "store" ELSE "fetch")
  /\ UNCHANGED <<googleVars, raced, calOf, token, fullAt, kind, accounts, account, cals, cal, since,
                 upto, left, retried, spent>>

\* No transaction spans a page: a storage error leaves the events S done.
ApplyFails(p, S) ==
  /\ pc[p] = "apply"
  /\ Storable(p, S)
  /\ Spend("fault")
  /\ UpsertEvents(p, cal[p].row, S)
  /\ Abort(p)
  /\ UNCHANGED <<googleVars, raced, calOf, token, fullAt>>

\* The calendar row is gone: the page cannot be stored.
ApplyRefused(p) ==
  /\ pc[p] = "apply"
  /\ ~Storable(p, DOMAIN page[p])
  /\ Abort(p)
  /\ UNCHANGED <<googleVars, dbVars, raced, spent>>

StoreToken(p) ==
  /\ pc[p] = "store"
  /\ Live(cal[p].row)
  /\ token' = [token EXCEPT ![account[p]][cal[p].row] = upto[p]]
  /\ fullAt' = [fullAt EXCEPT ![cal[p].row] = IF since[p] = 0 THEN upto[p] ELSE @]
  /\ upto' = [upto EXCEPT ![p] = 0]
  /\ Goto(p, "calendar")
  /\ UNCHANGED <<googleVars, raced, calOf, copy, own, kind, accounts, account, cals, cal, since, left,
                 page, retried, spent>>

StoreRefused(p) ==
  /\ pc[p] = "store"
  /\ ~Live(cal[p].row)
  /\ Abort(p)
  /\ UNCHANGED <<googleVars, dbVars, raced, spent>>

StoreFails(p) ==
  /\ pc[p] = "store"
  /\ Spend("fault")
  /\ Abort(p)
  /\ UNCHANGED <<googleVars, dbVars, raced>>

-----------------------------------------------------------------------------
\* The process dies: passes are gone, the database stays.  A crash inside a
\* page or the calendar list is ApplyFails or ListFails, then this.
Crash ==
  /\ Spend("fault")
  /\ \E p \in Passes : pc[p] # "idle"
  /\ pc' = [p \in Passes |-> "idle"]
  /\ accounts' = [p \in Passes |-> {}]
  /\ cals' = [p \in Passes |-> {}]
  /\ upto' = [p \in Passes |-> 0]
  /\ left' = [p \in Passes |-> {}]
  /\ page' = [p \in Passes |-> EmptyPage]
  /\ UNCHANGED <<googleVars, dbVars, raced, kind, account, cal, since, retried>>

Step(p) ==
  \/ Finish(p) \/ Snapshot(p) \/ ListCalendars(p) \/ EndAccount(p)
  \/ \E a \in accounts[p] : StartAccount(p, a)
  \/ \E c \in cals[p] : LoadToken(p, c)
  \/ \E S \in SUBSET Events : Fetch(p, S)
  \/ Gone(p) \/ ApplyPage(p) \/ ApplyRefused(p)
  \/ StoreToken(p) \/ StoreRefused(p)

Fails(p) ==
  \/ \E C \in SUBSET CalendarList(account[p]) : ListFails(p, C)
  \/ \E S \in SUBSET DOMAIN page[p] : ApplyFails(p, S)
  \/ FetchFails(p) \/ StoreFails(p)

Environment ==
  \/ \E e \in Events, cancel \in BOOLEAN : RemoteChange(e, cancel)
  \/ \E r \in RowIds, e \in Events, delete \in BOOLEAN : LocalEdit(r, e, delete)
  \/ \E p \in Passes, k \in Kinds : Press(p, k)
  \/ Crash

Next == Environment \/ \E p \in Passes : Step(p) \/ Fails(p)

Spec == Init /\ [][Next]_vars

\* A pass that was started goes on and Google answers it, with a page or with
\* 410 GONE; the user keeps pressing "Sync now", for no poll loop does it for
\* him.  Nobody owes a clear, a change or a failure.
Fairness ==
  \A p \in Passes : WF_vars(Step(p)) /\ WF_vars(Press(p, "sync"))

FairSpec == Spec /\ Fairness

-----------------------------------------------------------------------------
(* Properties.                                                             *)

\* The cascade leaves nothing at a row id that is not in use, so that the next
\* calendar to get the id starts without token and without events.
DeadRowsEmpty ==
  \A r \in RowIds : ~Live(r) =>
    /\ \A a \in Accounts : token[a][r] = 0
    /\ \A e \in Events : copy[r][e] = 0 /\ <<r, e>> \notin own

\* The shape of every variable, that no version is ahead of Google's, and that
\* nothing refers to a calendar row that is gone.
TypeOK ==
  /\ head \in 1..MaxVersion
  /\ remote \in [Events -> 0..head] /\ changed \in [Events -> 0..head]
  /\ calOf \in [RowIds -> Calendars \cup {NoCalendar}]
  /\ token \in [Accounts -> [RowIds -> 0..head]]
  /\ copy \in [RowIds -> [Events -> 0..head]]
  /\ fullAt \in [RowIds -> 0..head]
  /\ own \subseteq RowIds \X Events /\ raced \subseteq Calendars
  /\ DeadRowsEmpty
  /\ pc \in [Passes -> {"idle", "account", "list", "snapshot", "calendar", "fetch", "apply", "store"}]
  /\ kind \in [Passes -> {"sync", "clear"}]
  /\ accounts \in [Passes -> SUBSET Accounts] /\ account \in [Passes -> Accounts]
  /\ cals \in [Passes -> SUBSET CalRow] /\ cal \in [Passes -> CalRow]
  /\ since \in [Passes -> 0..head] /\ upto \in [Passes -> 0..head]
  /\ left \in [Passes -> SUBSET Events]
  /\ page \in [Passes -> Pages(head)]
  /\ retried \in [Passes -> BOOLEAN]
  /\ spent \in [Budgets -> Nat]

TokenOf(r) == token[AccountOf[calOf[r]]][r]

\* Two passes at the same calendar at the same time, or a clear under a pass that
\* holds a snapshot of the rows, do break what follows: a page fetched before a
\* newer token was stored is applied after it, a stale snapshot brings events into
\* another calendar's row.  Everything else two passes do to each other does not.
Undisturbed(r) == Live(r) /\ calOf[r] \notin raced

\* The next incremental pass brings only what changed after the stored token,
\* so every older change must be in the copy already: the events that exist ...
TokenCoversLive ==
  \A r \in RowIds, e \in Events :
    /\ Undisturbed(r) /\ calOf[r] = HomeOf[e]
    /\ remote[e] # 0 /\ changed[e] <= TokenOf(r) /\ <<r, e>> \notin own
    => copy[r][e] = remote[e]

\* ... and the cancellations an incremental listing had to report.
CancellationsApplied ==
  \A r \in RowIds, e \in Events :
    /\ Undisturbed(r) /\ calOf[r] = HomeOf[e]
    /\ remote[e] = 0 /\ fullAt[r] < changed[e] /\ changed[e] <= TokenOf(r)
    => copy[r][e] = 0

\* A calendar row holds events of its own calendar only, although row ids are
\* given out again after a clear.
NoForeignEvents ==
  \A r \in RowIds, e \in Events : Undisturbed(r) /\ copy[r][e] # 0 => calOf[r] = HomeOf[e]

\* Once Google is quiet, passes bring every event it has up to date, whatever
\* crashes, failures, 410 answers and clears came before; local changes aside.
Converges ==
  \A e \in Events :
    <>[](remote[e] # 0 => \A r \in RowIds : Undisturbed(r) /\ calOf[r] = HomeOf[e]
                             => copy[r][e] = remote[e] \/ <<r, e>> \in own)

\* A pass comes to an end, whatever answers it gets and whatever a second pass
\* does to its rows: one 410 is retried, the next is not.
PassEnds == \A p \in Passes : pc[p] # "idle" ~> pc[p] = "idle"

\* What the two commands promise an abstract mirror of Google: see CalendarMirror.
\* A calendar at which passes raced is dropped from it, until a clear.
RowOf(c) == CHOOSE r \in RowIds : calOf[r] = c
Cached(c) == c \notin raced /\ \E r \in RowIds : calOf[r] = c

Mirror == INSTANCE CalendarMirror WITH
  held <- [e \in Events |-> IF Cached(HomeOf[e]) THEN copy[RowOf(HomeOf[e])][e] ELSE 0],
  mine <- {e \in Events : Cached(HomeOf[e]) /\ <<RowOf(HomeOf[e]), e>> \in own},
  mark <- [c \in Calendars |-> IF Cached(c) THEN TokenOf(RowOf(c)) ELSE 0]

MirrorsGoogle == Mirror!Spec


=============================================================================
