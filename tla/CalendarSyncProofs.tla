------------------------- MODULE CalendarSyncProofs -------------------------
(***************************************************************************)
(* Theorems about CalendarSync, for any accounts, calendars, events and    *)
(* bounds, and any number of passes that run at the same time.  The stored *)
(* token is never ahead of the copy, a row holds its own calendar's events *)
(* only, and the engine implements CalendarMirror, at every calendar that  *)
(* passes did not disturb each other at.  All follow from one inductive    *)
(* invariant, SyncInv: DbInv is what the tables promise, PassOK what a     *)
(* pass needs of them to keep it.                                          *)
(***************************************************************************)
EXTENDS CalendarSync, TLAPS

\* No pass holds rows of an account that a clear removed under it.
Orderly == raced # Calendars

\* No other pass has been at the calendar that a pass is syncing.
Clean(p) == cal[p].google \notin raced

\* An event that exists was last changed when it took its content.
GoogleInv == \A e \in Events : remote[e] # 0 => remote[e] = changed[e]

\* Two passes at one calendar are raced at it.
Exclusive ==
  \A p, q \in Passes :
    p # q /\ Syncing(p) /\ Syncing(q) /\ cal[p].google = cal[q].google => cal[p].google \in raced

\* The snapshot of calendar rows a pass works off is what the table says.
SnapshotOK(p) ==
  /\ pc[p] \in {"idle", "account", "list", "snapshot"} => cals[p] = {}
  /\ Orderly => \A c \in cals[p] : calOf[c.row] = c.google /\ AccountOf[c.google] = account[p]
  /\ Orderly /\ Syncing(p) =>
       calOf[cal[p].row] = cal[p].google /\ AccountOf[cal[p].google] = account[p]

\* Where a pass is in the listing of its calendar.
ListingOK(p) ==
  /\ Syncing(p) /\ Clean(p) => since[p] <= token[account[p]][cal[p].row]
  /\ Syncing(p) => left[p] \subseteq EventsOf(cal[p].google)
  /\ DOMAIN page[p] \subseteq (IF pc[p] = "apply" THEN EventsOf(cal[p].google) ELSE {})
  /\ pc[p] \in {"apply", "store"} => upto[p] # 0
  /\ pc[p] = "store" => left[p] = {}

\* An event on the page is as Google has it, or changed after all that the pass
\* and the stored token speak for.
PageFresh(p) ==
  pc[p] = "apply" /\ Clean(p) =>
    \A e \in DOMAIN page[p] : page[p][e] # remote[e] =>
      changed[e] > upto[p] /\ changed[e] > token[account[p]][cal[p].row]

\* An open listing still has, or has just brought, all that its version covers
\* and the copy lacks.
ListingCovers(p) ==
  Syncing(p) /\ Clean(p) /\ upto[p] # 0 =>
    \A e \in Events :
      HomeOf[e] = cal[p].google /\ remote[e] # 0 /\ changed[e] <= upto[p] =>
        \/ e \in left[p] \/ e \in DOMAIN page[p]
        \/ <<cal[p].row, e>> \in own \/ copy[cal[p].row][e] = remote[e]

\* The same for the cancellations that an incremental listing covers.
CancelCovers(p) ==
  Syncing(p) /\ Clean(p) /\ upto[p] # 0 /\ since[p] # 0 =>
    \A e \in Events :
      /\ HomeOf[e] = cal[p].google /\ remote[e] = 0
      /\ fullAt[cal[p].row] < changed[e] /\ changed[e] <= upto[p]
      => e \in left[p] \/ e \in DOMAIN page[p] \/ copy[cal[p].row][e] = 0

\* What is on its way to the copy, and the token, only ever go forward.
Forward(p) ==
  /\ pc[p] = "apply" => \A e \in DOMAIN page[p] : page[p][e] <= changed[e]
  /\ pc[p] = "apply" /\ Clean(p) =>
       \A e \in DOMAIN page[p] : page[p][e] = 0 \/ copy[cal[p].row][e] <= page[p][e]
  /\ Syncing(p) /\ Clean(p) /\ upto[p] # 0 => token[account[p]][cal[p].row] <= upto[p]

CopyOld == \A r \in RowIds, e \in Events : copy[r][e] <= changed[e]

PassOK(p) ==
  /\ SnapshotOK(p) /\ ListingOK(p) /\ PageFresh(p)
  /\ ListingCovers(p) /\ CancelCovers(p) /\ Forward(p)

DbInv == GoogleInv /\ TokenCoversLive /\ CancellationsApplied /\ NoForeignEvents /\ CopyOld
PassInv == Exclusive /\ \A p \in Passes : PassOK(p)
SyncInv == TypeOK /\ OneRowEach /\ DbInv /\ PassInv

-----------------------------------------------------------------------------
(* Pages.                                                                  *)

LEMMA PageElim ==
  ASSUME NEW n, NEW f \in Pages(n)
  PROVE  /\ DOMAIN f \subseteq Events
         /\ \A e \in DOMAIN f : f[e] \in 0..n
         /\ f \in [DOMAIN f -> 0..n]
  BY DEF Pages

LEMMA PageIntro ==
  ASSUME NEW n, NEW S \in SUBSET Events, NEW f \in [S -> 0..n]
  PROVE  f \in Pages(n)
  BY DEF Pages

LEMMA EmptyPageType == ASSUME NEW n PROVE EmptyPage \in Pages(n)
  <1>1. EmptyPage \in [{} -> 0..n]
    BY DEF EmptyPage
  <1> QED BY <1>1, PageIntro

LEMMA PagesGrow ==
  ASSUME NEW n \in Nat, NEW f \in Pages(n)
  PROVE  f \in Pages(n + 1)
  <1>1. DOMAIN f \in SUBSET Events /\ f \in [DOMAIN f -> 0..n + 1]
    BY PageElim
  <1> QED BY <1>1, PageIntro

LEMMA ItemsType ==
  ASSUME TypeOK, NEW S \in SUBSET Events, NEW s
  PROVE  /\ Items(S, s) \in Pages(head)
         /\ DOMAIN Items(S, s) \subseteq S
         /\ \A e \in DOMAIN Items(S, s) : Items(S, s)[e] = remote[e]
         /\ \A e \in S : e \notin DOMAIN Items(S, s) => remote[e] = 0
  <1> DEFINE D == {e \in S : s # 0 \/ remote[e] # 0}
  <1>1. D \in SUBSET Events
    OBVIOUS
  <1>2. Items(S, s) \in [D -> 0..head]
    BY DEF Items, TypeOK
  <1>3. Items(S, s) \in Pages(head)
    BY <1>1, <1>2, PageIntro
  <1> QED BY <1>3 DEF Items

-----------------------------------------------------------------------------
(* Types.                                                                  *)

LEMMA AnyCalType == AnyCal \in CalRow
  <1>1. PICK c \in Calendars : TRUE
    BY ConstantsAssumption
  <1>2. [row |-> 1, google |-> c] \in CalRow
    BY ConstantsAssumption DEF CalRow, RowIds
  <1> QED BY <1>2 DEF AnyCal

LEMMA InitType == Init => TypeOK
  <1> SUFFICES ASSUME Init PROVE TypeOK
    OBVIOUS
  <1>1. \E a \in Accounts : TRUE
    BY ConstantsAssumption
  <1>2. page \in [Passes -> Pages(head)]
    BY EmptyPageType DEF Init
  <1> QED BY <1>1, <1>2, AnyCalType, ConstantsAssumption DEF Init, TypeOK, Budgets, DeadRowsEmpty

\* The parts of TypeOK by themselves, for actions that touch only one.
GoogleType ==
  head \in 1..MaxVersion /\ remote \in [Events -> 0..head] /\ changed \in [Events -> 0..head]
DbType ==
  /\ calOf \in [RowIds -> Calendars \cup {NoCalendar}]
  /\ token \in [Accounts -> [RowIds -> 0..head]]
  /\ copy \in [RowIds -> [Events -> 0..head]]
  /\ fullAt \in [RowIds -> 0..head]
  /\ own \subseteq RowIds \X Events
  /\ DeadRowsEmpty
RacedType == raced \subseteq Calendars
PassType ==
  /\ pc \in [Passes -> {"idle", "account", "list", "snapshot", "calendar", "fetch", "apply", "store"}]
  /\ kind \in [Passes -> {"sync", "clear"}]
  /\ accounts \in [Passes -> SUBSET Accounts] /\ account \in [Passes -> Accounts]
  /\ cals \in [Passes -> SUBSET CalRow] /\ cal \in [Passes -> CalRow]
  /\ since \in [Passes -> 0..head] /\ upto \in [Passes -> 0..head]
  /\ left \in [Passes -> SUBSET Events]
  /\ page \in [Passes -> Pages(head)]
  /\ retried \in [Passes -> BOOLEAN]
SpentType == spent \in [Budgets -> Nat]

LEMMA TypeSplit == TypeOK <=> GoogleType /\ DbType /\ RacedType /\ PassType /\ SpentType
  BY DEF TypeOK, GoogleType, DbType, RacedType, PassType, SpentType

LEMMA SpendType ==
  ASSUME SpentType, NEW b \in Budgets, Spend(b)
  PROVE  SpentType'
  BY DEF SpentType, Spend

LEMMA AbortType ==
  ASSUME PassType, GoogleType, NEW p \in Passes, Abort(p), UNCHANGED head
  PROVE  PassType'
  <1>1. page' \in [Passes -> Pages(head')]
    <2>1. page' \in [Passes -> Pages(head)]
      BY EmptyPageType DEF PassType, Abort
    <2> QED BY <2>1
  <1>2. /\ pc' \in [Passes -> {"idle", "account", "list", "snapshot", "calendar", "fetch", "apply", "store"}]
        /\ UNCHANGED <<kind, accounts, account, cal, since, retried>>
    BY DEF PassType, Abort, Goto
  <1>3. /\ cals' \in [Passes -> SUBSET CalRow]
        /\ left' \in [Passes -> SUBSET Events]
        /\ upto' \in [Passes -> 0..head']
    BY DEF PassType, GoogleType, Abort
  <1> QED BY <1>1, <1>2, <1>3 DEF PassType

LEMMA ClearType ==
  ASSUME DbType, GoogleType, NEW R, ClearRows(R), UNCHANGED head
  PROVE  DbType'
  <1>1. /\ calOf' \in [RowIds -> Calendars \cup {NoCalendar}]
        /\ token' \in [Accounts -> [RowIds -> 0..head']]
        /\ copy' \in [RowIds -> [Events -> 0..head']]
        /\ fullAt' \in [RowIds -> 0..head']
        /\ own' \subseteq RowIds \X Events
    BY DEF DbType, ClearRows, GoogleType
  <1>2. DeadRowsEmpty'
    BY DEF DbType, ClearRows, DeadRowsEmpty, Live
  <1> QED BY <1>1, <1>2 DEF DbType

LEMMA UpsertCalendarsType ==
  ASSUME DbType, NEW C \in SUBSET Calendars, UpsertCalendars(C), UNCHANGED <<head, token, copy, fullAt, own>>
  PROVE  /\ DbType'
         /\ \A r \in RowIds : Live(r) => calOf'[r] = calOf[r]
  <1> DEFINE new == {c \in C : \A r \in RowIds : calOf[r] # c}
  <1>1. PICK f \in [new -> RowIds] :
          /\ IsNewRows(f, new)
          /\ calOf' = [r \in RowIds |->
               IF \E c \in new : f[c] = r THEN CHOOSE c \in new : f[c] = r ELSE calOf[r]]
    BY DEF UpsertCalendars
  <1>2. calOf' \in [RowIds -> Calendars \cup {NoCalendar}]
    <2> SUFFICES ASSUME NEW r \in RowIds PROVE calOf'[r] \in Calendars \cup {NoCalendar}
      BY <1>1
    <2>1. CASE \E c \in new : f[c] = r
      BY <1>1, <2>1
    <2>2. CASE ~ \E c \in new : f[c] = r
      BY <1>1, <2>2 DEF DbType
    <2> QED BY <2>1, <2>2
  <1>3. ASSUME NEW r \in RowIds, Live(r) PROVE calOf'[r] = calOf[r]
    <2>1. PICK n \in 0..MaxRow : (\A q \in RowIds : Live(q) => q <= n) /\ (\A c \in new : f[c] > n)
      BY <1>1 DEF IsNewRows
    <2>2. ~ \E c \in new : f[c] = r
      BY <1>3, <2>1 DEF RowIds
    <2> QED BY <1>1, <2>2
  <1>4. \A r \in RowIds : Live(r) => Live(r)'
    BY <1>3 DEF Live
  <1>5. DeadRowsEmpty'
    BY <1>4 DEF DbType, DeadRowsEmpty
  <1> QED BY <1>2, <1>3, <1>5 DEF DbType

\* RemoteChange is the one action that moves head, and with it every bound.
LEMMA RemoteChangeType ==
  ASSUME TypeOK, NEW e \in Events, NEW cancel \in BOOLEAN, RemoteChange(e, cancel)
  PROVE  TypeOK'
  <1>0. head \in Nat /\ head' = head + 1 /\ head' \in 1..MaxVersion
    BY ConstantsAssumption DEF RemoteChange, TypeOK
  <1>1. GoogleType'
    BY <1>0 DEF RemoteChange, TypeOK, GoogleType
  <1>2. \A n \in 0..head : n \in 0..head'
    BY <1>0
  <1>3. DbType'
    BY <1>2, <1>0 DEF RemoteChange, TypeOK, DbType, dbVars, DeadRowsEmpty, Live
  <1>4. page' \in [Passes -> Pages(head')]
    BY <1>0, PagesGrow DEF RemoteChange, TypeOK, passVars
  <1>5. PassType'
    BY <1>2, <1>4 DEF RemoteChange, TypeOK, PassType, passVars
  <1>6. SpentType' /\ RacedType'
    BY DEF RemoteChange, TypeOK, SpentType, RacedType
  <1> QED BY <1>1, <1>3, <1>5, <1>6 DEF TypeOK, GoogleType, DbType, RacedType, PassType, SpentType

LEMMA UpsertEventsType ==
  ASSUME TypeOK, NEW p \in Passes, NEW S \in SUBSET DOMAIN page[p],
         Storable(p, S), UpsertEvents(p, cal[p].row, S), UNCHANGED <<head, calOf, token, fullAt>>
  PROVE  DbType'
  <1>1. cal[p].row \in RowIds /\ page[p] \in Pages(head)
    BY DEF TypeOK, CalRow
  <1>2. \A e \in S : page[p][e] \in 0..head
    BY <1>1, PageElim
  <1>3. copy' \in [RowIds -> [Events -> 0..head]]
    BY <1>1, <1>2 DEF UpsertEvents, Upserted, TypeOK
  <1>4. DeadRowsEmpty'
    BY <1>1, <1>2 DEF UpsertEvents, Upserted, Storable, DeadRowsEmpty, Live, TypeOK
  <1> QED BY <1>3, <1>4 DEF UpsertEvents, TypeOK, DbType

LEMMA EnvironmentType == ASSUME TypeOK, Environment PROVE TypeOK'
  <1>1. ASSUME NEW r \in RowIds, NEW e \in Events, NEW delete \in BOOLEAN, LocalEdit(r, e, delete)
        PROVE  TypeOK'
    <2>1. Live(r)
      BY <1>1 DEF LocalEdit, TypeOK, DeadRowsEmpty
    <2>2. copy' \in [RowIds -> [Events -> 0..head]]
      BY <1>1 DEF LocalEdit, TypeOK
    <2>3. \A q \in RowIds, d \in Events : copy'[q][d] \in {0, copy[q][d]}
      BY <1>1 DEF LocalEdit, TypeOK
    <2>4. DeadRowsEmpty'
      BY <1>1, <2>1, <2>3 DEF LocalEdit, TypeOK, DeadRowsEmpty, Live
    <2>5. DbType'
      BY <1>1, <2>2, <2>4 DEF LocalEdit, TypeOK, DbType, googleVars
    <2>6. SpentType'
      BY <1>1, SpendType DEF LocalEdit, Budgets, TypeOK, SpentType
    <2> QED BY <1>1, <2>5, <2>6 DEF LocalEdit, googleVars, passVars, TypeOK, DbType, SpentType
  <1>2. ASSUME NEW p \in Passes, NEW k \in Kinds, Press(p, k)
        PROVE  TypeOK'
    <2>1. SpentType'
      BY <1>2, SpendType DEF Press, Budgets, TypeOK, SpentType
    <2>2. pc' \in [Passes -> {"idle", "account", "list", "snapshot", "calendar", "fetch", "apply", "store"}]
      BY <1>2 DEF Press, Goto, TypeOK
    <2>3. kind' \in [Passes -> {"sync", "clear"}] /\ accounts' \in [Passes -> SUBSET Accounts]
      BY <1>2, ConstantsAssumption DEF Press, TypeOK
    <2> QED BY <1>2, <2>1, <2>2, <2>3
            DEF Press, googleVars, dbVars, TypeOK, SpentType, DeadRowsEmpty, Live
  <1>3. ASSUME Crash PROVE TypeOK'
    <2>1. page' \in [Passes -> Pages(head)]
      BY <1>3, EmptyPageType DEF Crash
    <2>2. SpentType'
      BY <1>3, SpendType DEF Crash, Budgets, TypeOK, SpentType
    <2> QED BY <1>3, <2>1, <2>2
            DEF Crash, googleVars, dbVars, TypeOK, SpentType, DeadRowsEmpty, Live
  <1> QED BY <1>1, <1>2, <1>3, RemoteChangeType DEF Environment

\* A step of a pass keeps Google's variables, so that the three other parts of
\* TypeOK follow one by one.
LEMMA PassStepType ==
  ASSUME TypeOK, UNCHANGED googleVars, DbType', RacedType', PassType', SpentType'
  PROVE  TypeOK'
  BY DEF TypeOK, googleVars, DbType, RacedType, PassType, SpentType

LEMMA RacedStepType == ASSUME TypeOK, NEW p \in Passes, Step(p) \/ Fails(p) PROVE RacedType'
  <1>1. ASSUME UNCHANGED raced PROVE RacedType'
    BY <1>1 DEF TypeOK, RacedType
  <1>2. ASSUME NEW a \in accounts[p], StartAccount(p, a) PROVE RacedType'
    BY <1>1, <1>2 DEF StartAccount, RacedByClear, TypeOK, RacedType
  <1>3. ASSUME NEW c \in cals[p], LoadToken(p, c) PROVE RacedType'
    <2>1. c.google \in Calendars
      BY DEF TypeOK, CalRow
    <2> QED BY <1>3, <2>1 DEF LoadToken, RacedBySync, TypeOK, RacedType
  <1> QED BY <1>1, <1>2, <1>3
          DEF Step, Fails, Finish, Snapshot, ListCalendars, EndAccount, Fetch, Gone, ApplyPage,
              ApplyRefused, StoreToken, StoreRefused, ListFails, ApplyFails, FetchFails, StoreFails

LEMMA DbUnchanged == ASSUME TypeOK, UNCHANGED <<googleVars, dbVars>> PROVE DbType'
  BY DEF TypeOK, DbType, googleVars, dbVars, DeadRowsEmpty, Live

LEMMA SpentUnchanged == ASSUME TypeOK, UNCHANGED spent PROVE SpentType'
  BY DEF TypeOK, SpentType

LEMMA StepType == ASSUME TypeOK, NEW p \in Passes, Step(p) PROVE TypeOK'
  <1> USE TypeSplit
  <1>0. RacedType'
    BY RacedStepType
  <1>1. CASE Finish(p)
    <2>1. PassType'
      BY <1>1 DEF Finish, Goto, TypeOK, PassType, googleVars, passVars
    <2> QED BY <1>1, <2>1, <1>0, PassStepType, DbUnchanged, SpentUnchanged DEF Finish
  <1>2. CASE Snapshot(p)
    <2>1. {[row |-> r, google |-> calOf[r]] : r \in RowsOf(account[p])} \in SUBSET CalRow
      BY DEF RowsOf, Live, CalRow, TypeOK
    <2>2. PassType'
      BY <1>2, <2>1 DEF Snapshot, Goto, TypeOK, PassType, googleVars
    <2> QED BY <1>2, <2>2, <1>0, PassStepType, DbUnchanged, SpentUnchanged DEF Snapshot
  <1>3. CASE ListCalendars(p)
    <2>1. PassType'
      BY <1>3 DEF ListCalendars, Goto, TypeOK, PassType, googleVars, passVars
    <2>2. DbType'
      BY <1>3, UpsertCalendarsType DEF ListCalendars, CalendarList, googleVars
    <2> QED BY <1>3, <2>1, <2>2, <1>0, PassStepType, SpentUnchanged DEF ListCalendars
  <1>4. CASE EndAccount(p)
    <2>1. PassType'
      BY <1>4 DEF EndAccount, Goto, TypeOK, PassType, googleVars, passVars
    <2> QED BY <1>4, <2>1, <1>0, PassStepType, DbUnchanged, SpentUnchanged DEF EndAccount
  <1>5. ASSUME NEW a \in accounts[p], StartAccount(p, a) PROVE TypeOK'
    <2>1. a \in Accounts
      BY DEF TypeOK
    <2>2. PassType'
      BY <1>5, <2>1 DEF StartAccount, Goto, TypeOK, PassType, googleVars
    <2>3. DbType'
      BY <1>5, ClearType, DbUnchanged DEF StartAccount, googleVars
    <2> QED BY <1>5, <2>2, <2>3, <1>0, PassStepType, SpentUnchanged DEF StartAccount
  <1>6. ASSUME NEW c \in cals[p], LoadToken(p, c) PROVE TypeOK'
    <2>1. c \in CalRow /\ c.row \in RowIds
      BY DEF TypeOK, CalRow
    <2>2. token[account[p]][c.row] \in 0..head
      BY <2>1 DEF TypeOK
    <2>3. PassType'
      BY <1>6, <2>1, <2>2 DEF LoadToken, Goto, TypeOK, PassType, googleVars
    <2> QED BY <1>6, <2>3, <1>0, PassStepType, DbUnchanged, SpentUnchanged DEF LoadToken
  <1>7. ASSUME NEW S \in SUBSET Events, Fetch(p, S) PROVE TypeOK'
    <2>1. Items(S, since[p]) \in Pages(head)
      BY ItemsType
    <2>2. page' \in [Passes -> Pages(head')]
      BY <1>7, <2>1 DEF Fetch, TypeOK, googleVars
    <2>3. left' \in [Passes -> SUBSET Events] /\ upto' \in [Passes -> 0..head']
      BY <1>7 DEF Fetch, TypeOK, googleVars, Listing, EventsOf
    <2>4. PassType'
      BY <1>7, <2>2, <2>3 DEF Fetch, Goto, TypeOK, PassType, googleVars
    <2> QED BY <1>7, <2>4, <1>0, PassStepType, DbUnchanged, SpentUnchanged DEF Fetch
  <1>8. CASE Gone(p)
    <2>1. PassType'
      BY <1>8 DEF Gone, TypeOK, PassType, googleVars
    <2> QED BY <1>8, <2>1, <1>0, PassStepType, DbUnchanged, SpentUnchanged DEF Gone
  <1>9. CASE ApplyPage(p)
    <2>1. page' \in [Passes -> Pages(head')]
      BY <1>9, EmptyPageType DEF ApplyPage, TypeOK, googleVars
    <2>2. PassType'
      BY <1>9, <2>1 DEF ApplyPage, Goto, TypeOK, PassType, googleVars
    <2>3. DbType'
      BY <1>9, UpsertEventsType DEF ApplyPage, googleVars
    <2> QED BY <1>9, <2>2, <2>3, <1>0, PassStepType, SpentUnchanged DEF ApplyPage
  <1>10. CASE ApplyRefused(p)
    <2>1. PassType'
      BY <1>10, AbortType DEF ApplyRefused, googleVars
    <2> QED BY <1>10, <2>1, <1>0, PassStepType, DbUnchanged, SpentUnchanged DEF ApplyRefused
  <1>11. CASE StoreToken(p)
    <2>1. PassType'
      BY <1>11 DEF StoreToken, Goto, TypeOK, PassType, googleVars
    <2>2. cal[p].row \in RowIds /\ upto[p] \in 0..head
      BY DEF TypeOK, CalRow
    <2>3. token' \in [Accounts -> [RowIds -> 0..head]] /\ fullAt' \in [RowIds -> 0..head]
      BY <1>11, <2>2 DEF StoreToken, TypeOK
    <2>4. \A a \in Accounts, r \in RowIds : r # cal[p].row => token'[a][r] = token[a][r]
      BY <1>11, <2>2 DEF StoreToken, TypeOK
    <2>5. DeadRowsEmpty'
      BY <1>11, <2>4 DEF StoreToken, TypeOK, DeadRowsEmpty, Live
    <2>6. DbType'
      BY <1>11, <2>3, <2>5 DEF StoreToken, TypeOK, DbType, googleVars
    <2> QED BY <1>11, <2>1, <2>6, <1>0, PassStepType, SpentUnchanged DEF StoreToken
  <1>12. CASE StoreRefused(p)
    <2>1. PassType'
      BY <1>12, AbortType DEF StoreRefused, googleVars
    <2> QED BY <1>12, <2>1, <1>0, PassStepType, DbUnchanged, SpentUnchanged DEF StoreRefused
  <1> QED BY <1>1, <1>2, <1>3, <1>4, <1>5, <1>6, <1>7, <1>8, <1>9, <1>10, <1>11, <1>12 DEF Step

LEMMA FailsType == ASSUME TypeOK, NEW p \in Passes, Fails(p) PROVE TypeOK'
  <1> USE TypeSplit
  <1>0. RacedType'
    BY RacedStepType
  <1>1. ASSUME NEW C \in SUBSET CalendarList(account[p]), ListFails(p, C) PROVE TypeOK'
    <2>1. DbType'
      BY <1>1, UpsertCalendarsType DEF ListFails, CalendarList, googleVars
    <2>2. PassType'
      BY <1>1, AbortType DEF ListFails, googleVars
    <2> QED BY <1>1, <2>1, <2>2, <1>0, PassStepType, SpendType DEF ListFails, Budgets
  <1>2. ASSUME NEW S \in SUBSET DOMAIN page[p], ApplyFails(p, S) PROVE TypeOK'
    <2>1. DbType'
      BY <1>2, UpsertEventsType DEF ApplyFails, googleVars
    <2>2. PassType'
      BY <1>2, AbortType DEF ApplyFails, googleVars
    <2> QED BY <1>2, <2>1, <2>2, <1>0, PassStepType, SpendType DEF ApplyFails, Budgets
  <1>3. CASE FetchFails(p)
    <2>1. PassType'
      BY <1>3, AbortType DEF FetchFails, googleVars
    <2> QED BY <1>3, <2>1, <1>0, PassStepType, DbUnchanged, SpendType DEF FetchFails, Budgets
  <1>4. CASE StoreFails(p)
    <2>1. PassType'
      BY <1>4, AbortType DEF StoreFails, googleVars
    <2> QED BY <1>4, <2>1, <1>0, PassStepType, DbUnchanged, SpendType DEF StoreFails, Budgets
  <1> QED BY <1>1, <1>2, <1>3, <1>4 DEF Fails

LEMMA NextType == TypeOK /\ [Next]_vars => TypeOK'
  <1> SUFFICES ASSUME TypeOK, [Next]_vars PROVE TypeOK'
    OBVIOUS
  <1>1. CASE UNCHANGED vars
    BY <1>1 DEF vars, googleVars, dbVars, passVars, TypeOK, DeadRowsEmpty, Live
  <1>2. CASE Next
    BY <1>2, EnvironmentType, StepType, FailsType DEF Next
  <1> QED BY <1>1, <1>2

\* Every variable keeps its type, no version is ahead of Google's, and nothing
\* refers to a calendar row that a clear removed, however many passes overlap.
THEOREM TypeCorrect == Spec => []TypeOK
  <1> QED BY InitType, NextType, PTL DEF Spec

-----------------------------------------------------------------------------
(* A calendar has one row.                                                 *)

LEMMA OneRowStep == ASSUME TypeOK, OneRowEach, [Next]_vars PROVE OneRowEach'
  <1>1. ASSUME UNCHANGED calOf PROVE OneRowEach'
    BY <1>1 DEF OneRowEach
  <1>2. ASSUME NEW R, ClearRows(R) PROVE OneRowEach'
    BY <1>2 DEF ClearRows, OneRowEach
  <1>3. ASSUME NEW C \in SUBSET Calendars, UpsertCalendars(C) PROVE OneRowEach'
    <2> DEFINE new == {c \in C : \A r \in RowIds : calOf[r] # c}
    <2>1. PICK f \in [new -> RowIds] :
            /\ IsNewRows(f, new)
            /\ calOf' = [r \in RowIds |->
                 IF \E c \in new : f[c] = r THEN CHOOSE c \in new : f[c] = r ELSE calOf[r]]
      BY <1>3 DEF UpsertCalendars
    <2>2. \A r \in RowIds :
            \/ calOf'[r] \in new /\ f[calOf'[r]] = r
            \/ calOf'[r] = calOf[r]
      BY <2>1
    <2>3. \A r \in RowIds : calOf[r] \notin new
      OBVIOUS
    <2> QED BY <2>2, <2>3 DEF OneRowEach
  <1>4. ASSUME NEW p \in Passes, Step(p) PROVE OneRowEach'
    BY <1>1, <1>2, <1>3, <1>4
       DEF Step, Finish, Snapshot, ListCalendars, EndAccount, StartAccount, LoadToken, Fetch, Gone,
           ApplyPage, ApplyRefused, StoreToken, StoreRefused, dbVars, CalendarList
  <1>5. ASSUME NEW p \in Passes, Fails(p) PROVE OneRowEach'
    BY <1>1, <1>3, <1>5 DEF Fails, ListFails, ApplyFails, FetchFails, StoreFails, dbVars, CalendarList
  <1>6. CASE Environment
    BY <1>1, <1>6 DEF Environment, RemoteChange, LocalEdit, Press, Crash, dbVars
  <1> QED BY <1>1, <1>4, <1>5, <1>6 DEF Next, vars, dbVars

-----------------------------------------------------------------------------
(* What the step of one pass leaves to the others.                         *)

\* A step that is not q's own leaves q where it is.
Untouched(q) ==
  /\ pc'[q] = pc[q] /\ account'[q] = account[q] /\ cals'[q] = cals[q] /\ cal'[q] = cal[q]
  /\ since'[q] = since[q] /\ upto'[q] = upto[q] /\ left'[q] = left[q] /\ page'[q] = page[q]

\* It keeps the rows that q relies on, unless it races q, or q relies on none.
RowsKept(q) ==
  /\ raced \subseteq raced'
  /\ Orderly' => \A c \in cals[q] : calOf'[c.row] = calOf[c.row]
  /\ Orderly' /\ Syncing(q) => calOf'[cal[q].row] = calOf[cal[q].row]
  /\ Syncing(q) /\ cal[q].google \notin raced' =>
       /\ token'[account[q]][cal[q].row] = token[account[q]][cal[q].row]
       /\ fullAt'[cal[q].row] = fullAt[cal[q].row]
       /\ copy'[cal[q].row] = copy[cal[q].row]
       /\ \A e \in Events : <<cal[q].row, e>> \in own => <<cal[q].row, e>> \in own'

Kept(q) == Untouched(q) /\ (RowsKept(q) \/ (~Syncing(q) /\ cals[q] = {}))

LEMMA PassKept ==
  ASSUME TypeOK, TypeOK', NEW q \in Passes, PassOK(q), Kept(q), UNCHANGED googleVars
  PROVE  PassOK(q)'
  <1>1. CASE ~Syncing(q) /\ cals[q] = {}
    <2>1. ~Syncing(q)' /\ pc'[q] # "apply"
      BY <1>1 DEF Kept, Untouched, Syncing
    <2> QED BY <1>1, <2>1 DEF Kept, Untouched, Syncing, PassOK, SnapshotOK, ListingOK, PageFresh,
                              ListingCovers, CancelCovers, Forward
  <1>2. CASE RowsKept(q)
    <2>1. Untouched(q) /\ (Syncing(q)' <=> Syncing(q))
      BY DEF Kept, Untouched, Syncing
    <2>2. (Orderly' => Orderly) /\ (Clean(q)' => Clean(q) /\ cal[q].google \notin raced')
      BY <1>2, <2>1 DEF RowsKept, Untouched, Orderly, Clean, TypeOK
    <2>3. SnapshotOK(q)'
      <3>1. SnapshotOK(q)
        BY DEF PassOK
      <3>2. pc'[q] \in {"idle", "account", "list", "snapshot"} => cals'[q] = {}
        BY <2>1, <3>1 DEF SnapshotOK, Untouched
      <3>3. ASSUME Orderly', NEW c \in cals'[q]
            PROVE  calOf'[c.row] = c.google /\ AccountOf[c.google] = account'[q]
        BY <1>2, <2>1, <2>2, <3>1, <3>3 DEF SnapshotOK, RowsKept, Untouched
      <3>4. ASSUME Orderly', Syncing(q)'
            PROVE  calOf'[cal'[q].row] = cal'[q].google /\ AccountOf[cal'[q].google] = account'[q]
        BY <1>2, <2>1, <2>2, <3>1, <3>4 DEF SnapshotOK, RowsKept, Untouched
      <3> QED BY <3>2, <3>3, <3>4 DEF SnapshotOK
    <2>4. ListingOK(q)' /\ PageFresh(q)'
      <3>1. pc[q] = "apply" => Syncing(q)
        BY DEF Syncing
      <3> QED BY <1>2, <2>1, <2>2, <3>1
              DEF PassOK, ListingOK, PageFresh, RowsKept, Untouched, googleVars
    <2>5. ListingCovers(q)' /\ CancelCovers(q)'
      BY <1>2, <2>1, <2>2 DEF PassOK, ListingCovers, CancelCovers, RowsKept, Untouched, googleVars
    <2>6. Forward(q)'
      <3>1. pc[q] = "apply" => Syncing(q)
        BY DEF Syncing
      <3> QED BY <1>2, <2>1, <2>2, <3>1 DEF PassOK, Forward, RowsKept, Untouched, googleVars
    <2> QED BY <2>3, <2>4, <2>5, <2>6 DEF PassOK
  <1> QED BY <1>1, <1>2 DEF Kept

\* With the stepping pass in order, all are.
LEMMA Compose ==
  ASSUME SyncInv, TypeOK', NEW p \in Passes, UNCHANGED googleVars,
         \A q \in Passes \ {p} : Kept(q), PassOK(p)',
         Syncing(p)' => Syncing(p) /\ cal'[p] = cal[p]
  PROVE  PassInv'
  <1>1. \A q \in Passes : PassOK(q)'
    BY PassKept DEF SyncInv, PassInv
  <1>2. \A q \in Passes : Syncing(q)' => Syncing(q) /\ cal'[q] = cal[q]
    BY DEF Kept, Untouched, Syncing
  <1>3. \A q \in Passes \ {p} : Syncing(q)' => raced \subseteq raced'
    BY DEF Kept, RowsKept, Untouched, Syncing
  <1>4. Exclusive'
    <2> SUFFICES ASSUME NEW q \in Passes, NEW s \in Passes, q # s, Syncing(q)', Syncing(s)',
                        cal'[q].google = cal'[s].google
                 PROVE  cal'[q].google \in raced'
      BY DEF Exclusive
    <2>1. cal[q].google \in raced
      BY <1>2 DEF SyncInv, PassInv, Exclusive
    <2> QED BY <1>2, <1>3, <2>1
  <1> QED BY <1>1, <1>4 DEF PassInv

LEMMA StepUntouched ==
  ASSUME TypeOK, NEW p \in Passes, Step(p) \/ Fails(p) \/ (\E k \in Kinds : Press(p, k)),
         NEW q \in Passes \ {p}
  PROVE  Untouched(q)
  <1> USE DEF Goto, TypeOK, Untouched
  <1>1. CASE Finish(p) \/ EndAccount(p) \/ ListCalendars(p)
    BY <1>1 DEF Finish, EndAccount, ListCalendars, passVars
  <1>2. CASE Snapshot(p) \/ Gone(p) \/ StoreToken(p)
    BY <1>2 DEF Snapshot, Gone, StoreToken
  <1>3. ASSUME NEW a \in accounts[p], StartAccount(p, a) PROVE Untouched(q)
    BY <1>3 DEF StartAccount
  <1>4. ASSUME NEW c \in cals[p], LoadToken(p, c) PROVE Untouched(q)
    BY <1>4 DEF LoadToken
  <1>5. ASSUME NEW S \in SUBSET Events, Fetch(p, S) PROVE Untouched(q)
    BY <1>5 DEF Fetch
  <1>6. CASE ApplyPage(p)
    BY <1>6 DEF ApplyPage
  <1>7. ASSUME Abort(p) PROVE Untouched(q)
    BY <1>7 DEF Abort
  <1>8. ASSUME NEW k \in Kinds, Press(p, k) PROVE Untouched(q)
    BY <1>8 DEF Press
  <1>9. CASE ApplyRefused(p) \/ StoreRefused(p) \/ Fails(p)
    BY <1>7, <1>9 DEF ApplyRefused, StoreRefused, Fails, ListFails, ApplyFails, FetchFails, StoreFails
  <1> QED BY <1>1, <1>2, <1>3, <1>4, <1>5, <1>6, <1>8, <1>9 DEF Step

LEMMA QuietRows ==
  ASSUME NEW q \in Passes, UNCHANGED dbVars, raced \subseteq raced'
  PROVE  RowsKept(q)
  BY DEF RowsKept, dbVars

\* Of two passes that sync calendars at which none was raced, each has its row.
LEMMA DistinctRows ==
  ASSUME SyncInv, NEW p \in Passes, NEW q \in Passes \ {p}, Syncing(p), Syncing(q), Clean(q)
  PROVE  cal[p].row # cal[q].row
  <1>1. cal[q].google \in Calendars
    BY DEF SyncInv, TypeOK, CalRow
  <1>2. Orderly /\ cal[p].google # cal[q].google
    BY <1>1 DEF SyncInv, PassInv, Exclusive, Clean, Orderly
  <1>3. SnapshotOK(p) /\ SnapshotOK(q)
    BY DEF SyncInv, PassInv, PassOK
  <1> QED BY <1>2, <1>3 DEF SnapshotOK

LEMMA UpsertCalendarsKeepsRows ==
  ASSUME SyncInv, NEW C \in SUBSET Calendars, UpsertCalendars(C),
         UNCHANGED <<head, raced, token, copy, fullAt, own>>, NEW q \in Passes
  PROVE  RowsKept(q)
  <1>1. \A r \in RowIds : Live(r) => calOf'[r] = calOf[r]
    BY UpsertCalendarsType, TypeSplit DEF SyncInv
  <1>2. SnapshotOK(q) /\ (Orderly' <=> Orderly)
    BY DEF SyncInv, PassInv, PassOK, Orderly
  <1>3. ASSUME NEW c \in CalRow, calOf[c.row] = c.google PROVE calOf'[c.row] = calOf[c.row]
    BY <1>1, <1>3, ConstantsAssumption DEF CalRow, Live
  <1>4. cals[q] \subseteq CalRow /\ cal[q] \in CalRow
    BY DEF SyncInv, TypeOK
  <1> QED BY <1>2, <1>3, <1>4 DEF RowsKept, SnapshotOK

\* A page or a token goes to the row of the pass that stores it.
LEMMA StoringKeepsRows ==
  ASSUME SyncInv, NEW p \in Passes, NEW q \in Passes \ {p}, Syncing(p), UNCHANGED <<calOf, raced>>,
         \A r \in RowIds : r # cal[p].row =>
           /\ \A a \in Accounts : token'[a][r] = token[a][r]
           /\ fullAt'[r] = fullAt[r] /\ copy'[r] = copy[r]
           /\ \A e \in Events : <<r, e>> \in own => <<r, e>> \in own'
  PROVE  RowsKept(q)
  <1>1. ASSUME Syncing(q), Clean(q) PROVE cal[q].row \in RowIds /\ cal[q].row # cal[p].row
    BY <1>1, DistinctRows DEF SyncInv, TypeOK, CalRow
  <1> QED BY <1>1 DEF RowsKept, Clean, SyncInv, TypeOK

\* A clear either leaves a pass the rows it holds, or marks every calendar raced.
LEMMA ClearKeeps ==
  ASSUME SyncInv, NEW p \in Passes, NEW a \in Accounts, NEW q \in Passes \ {p},
         ClearRows(RowsOf(a)), raced' = RacedByClear(p, a)
  PROVE  RowsKept(q) \/ (~Syncing(q) /\ cals[q] = {})
  <1>0. cal[q] \in CalRow /\ cals[q] \subseteq CalRow /\ raced \subseteq Calendars
    BY DEF SyncInv, TypeOK
  <1>1. CASE q \notin Others(p)
    BY <1>1 DEF Others
  <1>2. CASE \E s \in Others(p) : account[s] = a
    <2>1. raced' = Calendars
      BY <1>2 DEF RacedByClear
    <2> QED BY <1>0, <2>1 DEF RowsKept, Orderly, CalRow
  <1>3. CASE q \in Others(p) /\ ~ \E s \in Others(p) : account[s] = a
    <2>1. raced' = raced /\ account[q] # a
      BY <1>3 DEF RacedByClear
    <2>2. SnapshotOK(q)
      BY DEF SyncInv, PassInv, PassOK
    <2>3. ASSUME NEW c \in CalRow, calOf[c.row] = c.google, AccountOf[c.google] = account[q]
          PROVE  c.row \in RowIds /\ c.row \notin RowsOf(a)
      BY <2>1, <2>3 DEF RowsOf, CalRow
    <2>4. ASSUME NEW r \in RowIds, r \notin RowsOf(a)
          PROVE  /\ calOf'[r] = calOf[r] /\ fullAt'[r] = fullAt[r] /\ copy'[r] = copy[r]
                 /\ \A b \in Accounts : token'[b][r] = token[b][r]
                 /\ \A e \in Events : <<r, e>> \in own => <<r, e>> \in own'
      BY <2>4 DEF ClearRows
    <2>5. Orderly => \A c \in cals[q] : calOf'[c.row] = calOf[c.row]
      BY <1>0, <2>2, <2>3, <2>4 DEF SnapshotOK
    <2>6. Orderly /\ Syncing(q) => cal[q].row \in RowIds /\ cal[q].row \notin RowsOf(a)
      BY <1>0, <2>2, <2>3 DEF SnapshotOK
    <2>7. cal[q].google \notin raced => Orderly
      BY <1>0 DEF Orderly, CalRow
    <2>8. Orderly' <=> Orderly
      BY <2>1 DEF Orderly
    <2>9. account[q] \in Accounts
      BY DEF SyncInv, TypeOK
    <2> QED BY <2>1, <2>4, <2>5, <2>6, <2>7, <2>8, <2>9 DEF RowsKept
  <1> QED BY <1>1, <1>2, <1>3

LEMMA OthersKept ==
  ASSUME SyncInv, NEW p \in Passes, Step(p) \/ Fails(p) \/ (\E k \in Kinds : Press(p, k)),
         NEW q \in Passes \ {p}
  PROVE  Kept(q)
  <1>0. TypeOK /\ Untouched(q)
    BY StepUntouched DEF SyncInv
  <1> SUFFICES RowsKept(q) \/ (~Syncing(q) /\ cals[q] = {})
    BY <1>0 DEF Kept
  <1>1. ASSUME UNCHANGED <<dbVars, raced>> PROVE RowsKept(q)
    BY <1>1, QuietRows
  <1>2. CASE \/ Finish(p) \/ Snapshot(p) \/ EndAccount(p) \/ Gone(p)
             \/ ApplyRefused(p) \/ StoreRefused(p) \/ FetchFails(p) \/ StoreFails(p)
             \/ \E k \in Kinds : Press(p, k)
    BY <1>1, <1>2 DEF Finish, Snapshot, EndAccount, Gone, ApplyRefused, StoreRefused, FetchFails,
                      StoreFails, Press
  <1>3. ASSUME NEW S \in SUBSET Events, Fetch(p, S) PROVE RowsKept(q)
    BY <1>1, <1>3 DEF Fetch
  <1>4. ASSUME NEW c \in cals[p], LoadToken(p, c) PROVE RowsKept(q)
    <2>1. raced \subseteq raced'
      BY <1>4 DEF LoadToken, RacedBySync
    <2> QED BY <1>4, <2>1, QuietRows DEF LoadToken
  <1>5. ASSUME NEW a \in accounts[p], StartAccount(p, a)
        PROVE  RowsKept(q) \/ (~Syncing(q) /\ cals[q] = {})
    <2>1. a \in Accounts
      BY <1>0 DEF TypeOK
    <2> QED BY <1>1, <1>5, <2>1, ClearKeeps DEF StartAccount
  <1>6. ASSUME NEW C \in SUBSET CalendarList(account[p]), ListCalendars(p) \/ ListFails(p, C)
        PROVE  RowsKept(q)
    <2>1. CalendarList(account[p]) \subseteq Calendars
      BY DEF CalendarList
    <2> QED BY <1>6, <2>1, UpsertCalendarsKeepsRows DEF ListCalendars, ListFails, googleVars
  <1>7. ASSUME NEW S, ApplyPage(p) \/ ApplyFails(p, S) PROVE RowsKept(q)
    <2>1. Syncing(p) /\ UNCHANGED <<calOf, raced, token, fullAt>>
      BY <1>7 DEF ApplyPage, ApplyFails, Syncing
    <2>2. PICK D : UpsertEvents(p, cal[p].row, D)
      BY <1>7 DEF ApplyPage, ApplyFails
    <2>3. \A r \in RowIds : r # cal[p].row =>
            copy'[r] = copy[r] /\ \A e \in Events : <<r, e>> \in own => <<r, e>> \in own'
      BY <1>0, <2>2 DEF UpsertEvents, TypeOK
    <2> QED BY <2>1, <2>3, StoringKeepsRows
  <1>8. CASE StoreToken(p)
    <2>1. Syncing(p) /\ UNCHANGED <<calOf, raced, copy, own>>
      BY <1>8 DEF StoreToken, Syncing
    <2>2. \A r \in RowIds : r # cal[p].row =>
            fullAt'[r] = fullAt[r] /\ \A a \in Accounts : token'[a][r] = token[a][r]
      BY <1>0, <1>8 DEF StoreToken, TypeOK
    <2> QED BY <2>1, <2>2, StoringKeepsRows
  <1>9. CASE ListCalendars(p)
    BY <1>6, <1>9
  <1>10. CASE Fails(p)
    BY <1>2, <1>6, <1>7, <1>10 DEF Fails
  <1>11. CASE Step(p)
    BY <1>2, <1>3, <1>4, <1>5, <1>7, <1>8, <1>9, <1>11 DEF Step
  <1> QED BY <1>2, <1>10, <1>11

-----------------------------------------------------------------------------
(* The invariant, action by action.                                        *)

LEMMA InitSync == Init => SyncInv
  <1> SUFFICES ASSUME Init PROVE SyncInv
    OBVIOUS
  <1>1. TypeOK /\ OneRowEach
    BY InitType DEF Init
  <1>2. DbInv
    <2>1. GoogleInv
      BY DEF Init, GoogleInv
    <2>2. ASSUME NEW r \in RowIds, Live(r) PROVE TokenOf(r) = 0
      BY <2>2, <1>1, ConstantsAssumption DEF Init, TokenOf, Live, TypeOK
    <2>3. ASSUME NEW e \in Events, remote[e] # 0 PROVE changed[e] > 0
      BY <2>3, <1>1 DEF Init, TypeOK
    <2>4. TokenCoversLive
      BY <2>2, <2>3, <1>1 DEF TokenCoversLive, Undisturbed, TypeOK
    <2>5. \A r \in RowIds, e \in Events : copy[r][e] = 0
      BY DEF Init
    <2>6. CancellationsApplied /\ NoForeignEvents /\ CopyOld
      BY <2>5, <1>1 DEF CancellationsApplied, NoForeignEvents, CopyOld, TypeOK
    <2> QED BY <2>1, <2>4, <2>6 DEF DbInv
  <1>3. PassInv
    BY DEF Init, PassInv, Exclusive, PassOK, SnapshotOK, ListingOK, PageFresh, ListingCovers,
           CancelCovers, Forward, Syncing, EmptyPage
  <1> QED BY <1>1, <1>2, <1>3 DEF SyncInv

LEMMA DbKept ==
  ASSUME DbInv, UNCHANGED <<googleVars, dbVars>>, raced \subseteq raced'
  PROVE  DbInv'
  <1>1. \A r \in RowIds : Undisturbed(r)' => Undisturbed(r) /\ TokenOf(r)' = TokenOf(r)
    BY DEF Undisturbed, TokenOf, Live, dbVars
  <1>2. GoogleInv' /\ CopyOld'
    BY DEF DbInv, GoogleInv, CopyOld, googleVars, dbVars
  <1>3. TokenCoversLive' /\ CancellationsApplied' /\ NoForeignEvents'
    BY <1>1 DEF DbInv, TokenCoversLive, CancellationsApplied, NoForeignEvents, googleVars, dbVars
  <1> QED BY <1>2, <1>3 DEF DbInv

\* A pass outside a listing.
LEMMA Between ==
  ASSUME NEW p \in Passes, pc'[p] \notin {"fetch", "apply", "store"}, DOMAIN page'[p] = {},
         SnapshotOK(p)'
  PROVE  PassOK(p)' /\ ~Syncing(p)'
  BY DEF PassOK, ListingOK, PageFresh, ListingCovers, CancelCovers, Forward, Syncing

\* A pass that gives its account up leaves nothing behind.
LEMMA AbortKept ==
  ASSUME TypeOK, NEW p \in Passes, Abort(p)
  PROVE  PassOK(p)' /\ ~Syncing(p)'
  <1>1. pc'[p] = "account" /\ DOMAIN page'[p] = {} /\ cals'[p] = {}
    BY DEF Abort, Goto, TypeOK, EmptyPage
  <1>2. SnapshotOK(p)'
    BY <1>1 DEF SnapshotOK, Syncing
  <1> QED BY <1>1, <1>2, Between

\* A move between accounts and calendars.
LEMMA MoveKept ==
  ASSUME NEW p \in Passes, PassOK(p), pc[p] # "apply",
         pc'[p] \in {"idle", "account", "list", "snapshot"},
         UNCHANGED <<page, cals>>, cals[p] = {}
  PROVE  PassOK(p)' /\ ~Syncing(p)'
  <1>1. DOMAIN page'[p] = {}
    BY DEF PassOK, ListingOK
  <1>2. SnapshotOK(p)'
    BY DEF SnapshotOK, Syncing
  <1> QED BY <1>1, <1>2, Between

LEMMA StepKept ==
  ASSUME SyncInv, NEW p \in Passes, Step(p) \/ Fails(p) \/ (\E k \in Kinds : Press(p, k)),
         UNCHANGED googleVars, DbInv', PassOK(p)',
         Syncing(p)' => Syncing(p) /\ cal'[p] = cal[p]
  PROVE  SyncInv'
  <1>1. Next
    BY DEF Next, Environment
  <1>2. TypeOK' /\ OneRowEach'
    BY <1>1, NextType, OneRowStep DEF SyncInv
  <1>3. PassInv'
    BY <1>2, OthersKept, Compose
  <1> QED BY <1>2, <1>3 DEF SyncInv

LEMMA SnapshotKept == ASSUME SyncInv, NEW p \in Passes, Snapshot(p) PROVE SyncInv'
  <1>0. TypeOK /\ PassOK(p)
    BY DEF SyncInv, PassInv
  <1>1. DbInv'
    BY DbKept DEF SyncInv, Snapshot
  <1>2. pc[p] = "snapshot" /\ pc'[p] = "calendar" /\ page' = page /\ DOMAIN page[p] = {}
    BY <1>0 DEF Snapshot, Goto, TypeOK, PassOK, ListingOK
  <1>3. cals'[p] = {[row |-> r, google |-> calOf[r]] : r \in RowsOf(account[p])}
    BY <1>0 DEF Snapshot, TypeOK
  <1>4. \A c \in cals'[p] : calOf'[c.row] = c.google /\ AccountOf[c.google] = account'[p]
    BY <1>3 DEF Snapshot, RowsOf, dbVars
  <1>5. SnapshotOK(p)'
    BY <1>2, <1>4 DEF SnapshotOK, Syncing
  <1>6. PassOK(p)' /\ ~Syncing(p)'
    BY <1>2, <1>5, Between
  <1> QED BY <1>1, <1>6, StepKept DEF Step, Snapshot

\* Rows that a clear deletes take everything with them; the others stay.
LEMMA ClearKept ==
  ASSUME TypeOK, DbInv, NEW p \in Passes, NEW a \in Accounts, ClearRows(RowsOf(a)),
         raced' = RacedByClear(p, a), UNCHANGED googleVars
  PROVE  DbInv'
  <1>1. GoogleInv'
    BY DEF DbInv, GoogleInv, googleVars
  <1>2. \A r \in RowIds : Live(r)' =>
          /\ r \notin RowsOf(a) /\ Live(r) /\ calOf'[r] = calOf[r] /\ calOf[r] \in Calendars
          /\ copy'[r] = copy[r] /\ fullAt'[r] = fullAt[r]
          /\ TokenOf(r)' = TokenOf(r)
    BY ConstantsAssumption DEF ClearRows, Live, TokenOf, TypeOK
  <1>3. \A r \in RowIds : Undisturbed(r)' => Undisturbed(r)
    BY <1>2 DEF Undisturbed, RacedByClear, RowsOf, CalendarList
  <1>4. \A r \in RowIds, e \in Events : Live(r)' /\ <<r, e>> \in own => <<r, e>> \in own'
    BY <1>2 DEF ClearRows
  <1>5. TokenCoversLive'
    BY <1>2, <1>3, <1>4 DEF DbInv, TokenCoversLive, Undisturbed, googleVars
  <1>6. CancellationsApplied' /\ NoForeignEvents'
    BY <1>2, <1>3 DEF DbInv, CancellationsApplied, NoForeignEvents, Undisturbed, googleVars
  <1>7. CopyOld'
    <2> SUFFICES ASSUME NEW r \in RowIds, NEW e \in Events PROVE copy'[r][e] <= changed[e]
      BY DEF CopyOld, googleVars
    <2>1. copy'[r][e] = 0 \/ copy'[r][e] = copy[r][e]
      BY DEF ClearRows
    <2>2. 0 <= changed[e] /\ copy[r][e] <= changed[e]
      BY DEF TypeOK, DbInv, CopyOld
    <2> QED BY <2>1, <2>2
  <1> QED BY <1>1, <1>5, <1>6, <1>7 DEF DbInv

LEMMA StartAccountKept ==
  ASSUME SyncInv, NEW p \in Passes, NEW a \in accounts[p], StartAccount(p, a)
  PROVE  SyncInv'
  <1>0. TypeOK /\ PassOK(p) /\ a \in Accounts
    BY DEF SyncInv, PassInv, TypeOK
  <1>1. DbInv'
    BY <1>0, ClearKept, DbKept DEF SyncInv, StartAccount
  <1>2. pc'[p] \in {"list", "snapshot"} /\ pc[p] = "account" /\ UNCHANGED <<page, cals>>
    BY <1>0 DEF StartAccount, Goto, TypeOK
  <1>3. cals[p] = {}
    BY <1>0, <1>2 DEF PassOK, SnapshotOK
  <1>4. PassOK(p)' /\ ~Syncing(p)'
    BY <1>0, <1>2, <1>3, MoveKept
  <1> QED BY <1>1, <1>4, StepKept DEF Step, StartAccount

\* New calendar rows start empty.
LEMMA UpsertCalendarsKept ==
  ASSUME TypeOK, DbInv, NEW C \in SUBSET Calendars, UpsertCalendars(C),
         UNCHANGED <<googleVars, raced, token, copy, fullAt, own>>
  PROVE  DbInv'
  <1>1. GoogleInv' /\ CopyOld'
    BY DEF DbInv, GoogleInv, CopyOld, googleVars
  <1>2. DbType'
    BY UpsertCalendarsType, TypeSplit DEF googleVars
  <1>3. \A r \in RowIds : Live(r) => calOf'[r] = calOf[r] /\ TokenOf(r)' = TokenOf(r)
    BY UpsertCalendarsType, TypeSplit DEF googleVars, TokenOf
  <1>4. \A r \in RowIds : ~Live(r) /\ Live(r)' => TokenOf(r)' = 0
    BY <1>2, ConstantsAssumption DEF TypeOK, DeadRowsEmpty, TokenOf, DbType, Live
  <1>5. \A e \in Events : remote[e] # 0 => changed[e] > 0
    BY DEF DbInv, GoogleInv, TypeOK
  <1>6. \A r \in RowIds, e \in Events : ~Live(r) => copy[r][e] = 0
    BY DEF TypeOK, DeadRowsEmpty
  <1>7. \A r \in RowIds : Live(r) /\ Undisturbed(r)' => Undisturbed(r)
    BY <1>3 DEF Undisturbed
  <1>8. TokenCoversLive'
    <2> SUFFICES ASSUME NEW r \in RowIds, NEW e \in Events,
                        Undisturbed(r)', calOf'[r] = HomeOf[e], remote[e] # 0,
                        changed[e] <= TokenOf(r)', <<r, e>> \notin own
                 PROVE  copy[r][e] = remote[e]
      BY DEF TokenCoversLive, googleVars
    <2>1. CASE Live(r)
      BY <2>1, <1>3, <1>7 DEF DbInv, TokenCoversLive
    <2>2. CASE ~Live(r)
      BY <2>2, <1>4, <1>5 DEF TypeOK, Undisturbed
    <2> QED BY <2>1, <2>2
  <1>9. CancellationsApplied' /\ NoForeignEvents'
    BY <1>3, <1>6, <1>7 DEF DbInv, CancellationsApplied, NoForeignEvents, googleVars
  <1> QED BY <1>1, <1>8, <1>9 DEF DbInv

LEMMA ListFailsKept ==
  ASSUME SyncInv, NEW p \in Passes, NEW C \in SUBSET CalendarList(account[p]), ListFails(p, C)
  PROVE  SyncInv'
  <1>1. DbInv'
    BY UpsertCalendarsKept DEF SyncInv, ListFails, CalendarList
  <1>2. PassOK(p)' /\ ~Syncing(p)'
    BY AbortKept DEF SyncInv, ListFails
  <1> QED BY <1>1, <1>2, StepKept DEF Fails, ListFails

LEMMA ListCalendarsKept == ASSUME SyncInv, NEW p \in Passes, ListCalendars(p) PROVE SyncInv'
  <1>0. TypeOK /\ PassOK(p)
    BY DEF SyncInv, PassInv
  <1>1. DbInv'
    BY UpsertCalendarsKept DEF SyncInv, ListCalendars, CalendarList
  <1>2. pc'[p] = "snapshot" /\ pc[p] = "list" /\ UNCHANGED <<page, cals>>
    BY <1>0 DEF ListCalendars, Goto, TypeOK, passVars
  <1>3. cals[p] = {}
    BY <1>0, <1>2 DEF PassOK, SnapshotOK
  <1>4. PassOK(p)' /\ ~Syncing(p)'
    BY <1>0, <1>2, <1>3, MoveKept
  <1> QED BY <1>1, <1>4, StepKept DEF Step, ListCalendars

LEMMA MovesKept ==
  ASSUME SyncInv, NEW p \in Passes, Finish(p) \/ EndAccount(p) \/ (\E k \in Kinds : Press(p, k))
  PROVE  SyncInv'
  <1>0. TypeOK /\ PassOK(p)
    BY DEF SyncInv, PassInv
  <1>1. UNCHANGED <<googleVars, dbVars, raced>>
    BY DEF Finish, EndAccount, Press
  <1>2. DbInv'
    BY <1>1, DbKept DEF SyncInv
  <1>3. /\ pc'[p] \in {"idle", "account"} /\ pc[p] \in {"account", "calendar", "idle"}
        /\ UNCHANGED <<page, cals>>
    BY <1>0 DEF Finish, EndAccount, Press, Goto, TypeOK, passVars
  <1>4. cals[p] = {}
    BY <1>0, <1>3 DEF PassOK, SnapshotOK, Finish, EndAccount, Press
  <1>5. PassOK(p)' /\ ~Syncing(p)'
    BY <1>0, <1>3, <1>4, MoveKept
  <1> QED BY <1>1, <1>2, <1>5, StepKept DEF Step

\* The failures that change nothing in the database.
LEMMA FailureKept ==
  ASSUME SyncInv, NEW p \in Passes,
         FetchFails(p) \/ StoreFails(p) \/ ApplyRefused(p) \/ StoreRefused(p)
  PROVE  SyncInv'
  <1>1. Abort(p) /\ UNCHANGED <<googleVars, dbVars, raced>>
    BY DEF FetchFails, StoreFails, ApplyRefused, StoreRefused
  <1>2. DbInv' /\ PassOK(p)' /\ ~Syncing(p)'
    BY <1>1, AbortKept, DbKept DEF SyncInv
  <1>3. Step(p) \/ Fails(p)
    BY DEF Step, Fails
  <1> QED BY <1>1, <1>2, <1>3, StepKept

LEMMA CrashKept == ASSUME SyncInv, Crash PROVE SyncInv'
  <1>1. Next
    BY DEF Next, Environment
  <1>2. TypeOK' /\ OneRowEach'
    BY <1>1, NextType, OneRowStep DEF SyncInv
  <1>3. DbInv'
    BY DbKept DEF SyncInv, Crash
  <1>4. \A p \in Passes : pc'[p] = "idle" /\ DOMAIN page'[p] = {} /\ cals'[p] = {}
    BY DEF Crash, EmptyPage
  <1>5. \A p \in Passes : SnapshotOK(p)'
    BY <1>4 DEF SnapshotOK, Syncing
  <1>6. \A p \in Passes : PassOK(p)' /\ ~Syncing(p)'
    BY <1>4, <1>5, Between
  <1>7. PassInv'
    BY <1>6 DEF PassInv, Exclusive
  <1> QED BY <1>2, <1>3, <1>7 DEF SyncInv

LEMMA TokenInRange ==
  ASSUME TypeOK
  PROVE  /\ \A r \in RowIds : Live(r) => TokenOf(r) \in 0..head
         /\ \A p \in Passes : token[account[p]][cal[p].row] \in 0..head
  BY ConstantsAssumption DEF TypeOK, TokenOf, Live, CalRow

\* A change on Google's side is newer than every token and every listing.
LEMMA RemoteChangeKept ==
  ASSUME SyncInv, NEW e \in Events, NEW cancel \in BOOLEAN, RemoteChange(e, cancel)
  PROVE  SyncInv'
  <1>0. TypeOK /\ DbInv /\ PassInv
    BY DEF SyncInv
  <1>1. TypeOK' /\ OneRowEach'
    BY EnvironmentType, OneRowStep DEF SyncInv, Environment, Next
  <1>2. /\ head \in Nat /\ changed'[e] = head + 1
        /\ \A d \in Events : d # e => changed'[d] = changed[d] /\ remote'[d] = remote[d]
        /\ UNCHANGED <<dbVars, raced, pc, passVars>>
    BY <1>0, ConstantsAssumption DEF RemoteChange, TypeOK
  <1>3. remote'[e] \in {0, head + 1}
    BY <1>0 DEF RemoteChange, TypeOK
  <1>4. \A r \in RowIds :
          /\ Undisturbed(r)' <=> Undisturbed(r)
          /\ TokenOf(r)' = TokenOf(r)
          /\ Undisturbed(r) => TokenOf(r) \in 0..head
    BY <1>0, <1>2, TokenInRange DEF Undisturbed, TokenOf, Live, dbVars
  <1>5. DbInv'
    <2>1. GoogleInv'
      BY <1>0, <1>2, <1>3 DEF DbInv, GoogleInv
    <2>2. TokenCoversLive'
      BY <1>0, <1>2, <1>4 DEF DbInv, TokenCoversLive, dbVars
    <2>3. CancellationsApplied'
      BY <1>0, <1>2, <1>4 DEF DbInv, CancellationsApplied, dbVars
    <2>4. NoForeignEvents'
      BY <1>0, <1>2, <1>4 DEF DbInv, NoForeignEvents, dbVars
    <2>5. CopyOld'
      <3>1. \A r \in RowIds, d \in Events : copy[r][d] \in 0..head /\ copy[r][d] <= changed[d]
        BY <1>0 DEF TypeOK, DbInv, CopyOld
      <3> QED BY <1>2, <3>1 DEF CopyOld, dbVars
    <2> QED BY <2>1, <2>2, <2>3, <2>4, <2>5 DEF DbInv
  <1>6. ASSUME NEW p \in Passes PROVE PassOK(p)'
    <2>0. PassOK(p) /\ upto[p] \in 0..head /\ (Syncing(p)' <=> Syncing(p)) /\ (Clean(p)' <=> Clean(p))
      BY <1>0, <1>2 DEF PassInv, TypeOK, Syncing, Clean, passVars
    <2>1. SnapshotOK(p)' /\ ListingOK(p)'
      BY <1>2, <2>0 DEF PassOK, SnapshotOK, ListingOK, Orderly, dbVars, passVars
    <2>2. \A d \in DOMAIN page[p] : d \in Events /\ page[p][d] \in 0..head
      BY <1>0, PageElim DEF TypeOK
    <2>3. PageFresh(p)'
      <3> SUFFICES ASSUME pc[p] = "apply", Clean(p), NEW d \in DOMAIN page[p],
                          page[p][d] # remote'[d]
                   PROVE  changed'[d] > upto[p] /\ changed'[d] > token[account[p]][cal[p].row]
        BY <1>2, <2>0 DEF PageFresh, dbVars, passVars
      <3>1. CASE d = e
        BY <1>0, <1>2, <2>0, <3>1, TokenInRange
      <3>2. CASE d # e
        BY <1>2, <2>0, <2>2, <3>2 DEF PassOK, PageFresh
      <3> QED BY <3>1, <3>2
    <2>4. ListingCovers(p)' /\ CancelCovers(p)'
      BY <1>2, <2>0 DEF PassOK, ListingCovers, CancelCovers, dbVars, passVars
    <2>5. Forward(p)'
      <3>1. pc[p] = "apply" => \A d \in DOMAIN page[p] : page[p][d] <= changed'[d]
        BY <1>2, <2>0, <2>2 DEF PassOK, Forward
      <3> QED BY <1>2, <2>0, <3>1 DEF PassOK, Forward, dbVars, passVars
    <2> QED BY <2>1, <2>3, <2>4, <2>5 DEF PassOK
  <1>7. Exclusive'
    BY <1>0, <1>2 DEF PassInv, Exclusive, Syncing, passVars
  <1> QED BY <1>1, <1>5, <1>6, <1>7 DEF SyncInv, PassInv

LEMMA LocalEditKept ==
  ASSUME SyncInv, NEW r \in RowIds, NEW e \in Events, NEW delete \in BOOLEAN,
         LocalEdit(r, e, delete)
  PROVE  SyncInv'
  <1>0. TypeOK /\ DbInv /\ PassInv
    BY DEF SyncInv
  <1>1. TypeOK' /\ OneRowEach'
    BY EnvironmentType, OneRowStep DEF SyncInv, Environment, Next
  <1>2. /\ own' = own \cup {<<r, e>>}
        /\ \A q \in RowIds, d \in Events :
             copy'[q][d] = copy[q][d] \/ (copy'[q][d] = 0 /\ q = r /\ d = e)
        /\ UNCHANGED <<googleVars, calOf, token, fullAt, raced, pc, passVars>>
    BY <1>0 DEF LocalEdit, TypeOK
  <1>3. \A d \in Events : changed[d] \in Nat
    BY <1>0 DEF TypeOK
  <1>4. DbInv'
    <2>1. GoogleInv' /\ CopyOld'
      BY <1>0, <1>2, <1>3 DEF DbInv, GoogleInv, CopyOld, googleVars
    <2>2. \A q \in RowIds : (Undisturbed(q)' <=> Undisturbed(q)) /\ TokenOf(q)' = TokenOf(q)
      BY <1>2 DEF Undisturbed, TokenOf, Live
    <2>3. TokenCoversLive' /\ CancellationsApplied' /\ NoForeignEvents'
      BY <1>0, <1>2, <2>2
         DEF DbInv, TokenCoversLive, CancellationsApplied, NoForeignEvents, googleVars
    <2> QED BY <2>1, <2>3 DEF DbInv
  <1>5. ASSUME NEW p \in Passes PROVE PassOK(p)'
    <2>0. /\ PassOK(p) /\ cal[p].row \in RowIds
          /\ (Syncing(p)' <=> Syncing(p)) /\ (Clean(p)' <=> Clean(p))
      BY <1>0, <1>2 DEF PassInv, TypeOK, CalRow, Syncing, Clean, passVars
    <2>1. SnapshotOK(p)' /\ ListingOK(p)' /\ PageFresh(p)'
      BY <1>2, <2>0
         DEF PassOK, SnapshotOK, ListingOK, PageFresh, Orderly, googleVars, passVars
    <2>2. ListingCovers(p)' /\ CancelCovers(p)'
      BY <1>2, <2>0 DEF PassOK, ListingCovers, CancelCovers, googleVars, passVars
    <2>3. \A d \in DOMAIN page[p] : d \in Events /\ page[p][d] \in Nat
      BY <1>0, PageElim DEF TypeOK
    <2>4. Forward(p)'
      BY <1>2, <2>0, <2>3 DEF PassOK, Forward, googleVars, passVars
    <2> QED BY <2>1, <2>2, <2>4 DEF PassOK
  <1>6. Exclusive'
    BY <1>0, <1>2 DEF PassInv, Exclusive, Syncing, passVars
  <1> QED BY <1>1, <1>4, <1>5, <1>6 DEF SyncInv, PassInv

\* A second pass at the calendar is what raced remembers.
LEMMA LoadTokenKept ==
  ASSUME SyncInv, NEW p \in Passes, NEW c \in cals[p], LoadToken(p, c)
  PROVE  SyncInv'
  <1>0. TypeOK /\ PassOK(p)
    BY DEF SyncInv, PassInv
  <1>1. TypeOK' /\ OneRowEach'
    BY StepType, OneRowStep DEF SyncInv, Step, Next
  <1>2. /\ pc[p] = "calendar" /\ pc'[p] = "fetch" /\ cal'[p] = c /\ upto'[p] = 0 /\ left'[p] = {}
        /\ since'[p] = token[account[p]][c.row] /\ cals'[p] = cals[p] \ {c}
        /\ raced' = RacedBySync(p, c)
        /\ UNCHANGED <<googleVars, dbVars, account, page>>
    BY <1>0 DEF LoadToken, Goto, TypeOK
  <1>3. raced \subseteq raced' /\ (Orderly' => Orderly)
    BY <1>1, <1>2 DEF RacedBySync, Orderly, TypeOK
  <1>4. DbInv'
    BY <1>2, <1>3, DbKept DEF SyncInv
  <1>5. PassOK(p)'
    <2>1. DOMAIN page[p] = {} /\ since'[p] \in Int
      BY <1>0, <1>1, <1>2 DEF PassOK, ListingOK, TypeOK
    <2>2. SnapshotOK(p)'
      BY <1>0, <1>2, <1>3 DEF PassOK, SnapshotOK, Syncing, dbVars
    <2>3. ListingOK(p)'
      BY <1>2, <2>1 DEF ListingOK, dbVars
    <2>4. PageFresh(p)' /\ ListingCovers(p)' /\ CancelCovers(p)' /\ Forward(p)'
      BY <1>2 DEF PageFresh, ListingCovers, CancelCovers, Forward
    <2> QED BY <2>2, <2>3, <2>4 DEF PassOK
  <1>6. \A q \in Passes \ {p} : Kept(q) /\ PassOK(q)'
    <2> SUFFICES ASSUME NEW q \in Passes \ {p} PROVE Kept(q) /\ PassOK(q)'
      OBVIOUS
    <2>1. Kept(q)
      BY OthersKept DEF Step
    <2> QED BY <1>1, <1>2, <2>1, PassKept DEF SyncInv, PassInv
  <1>7. Exclusive'
    <2> SUFFICES ASSUME NEW q \in Passes, NEW s \in Passes, q # s, Syncing(q)', Syncing(s)',
                        cal'[q].google = cal'[s].google
                 PROVE  cal'[q].google \in raced'
      BY DEF Exclusive
    <2>1. \A t \in Passes \ {p} : Syncing(t)' => Syncing(t) /\ cal'[t] = cal[t]
      BY <1>6 DEF Kept, Untouched, Syncing
    <2>2. CASE q = p \/ s = p
      BY <1>2, <2>1, <2>2 DEF RacedBySync
    <2>3. CASE q # p /\ s # p
      BY <1>3, <2>1, <2>3 DEF SyncInv, PassInv, Exclusive
    <2> QED BY <2>2, <2>3
  <1> QED BY <1>1, <1>4, <1>5, <1>6, <1>7 DEF SyncInv, PassInv

\* The row a clean pass is syncing is in the table, and its token is the account's.
LEMMA SyncedRow ==
  ASSUME SyncInv, NEW p \in Passes, Syncing(p), Clean(p)
  PROVE  /\ cal[p].row \in RowIds /\ cal[p].google \in Calendars
         /\ calOf[cal[p].row] = cal[p].google /\ AccountOf[cal[p].google] = account[p]
         /\ Undisturbed(cal[p].row)
         /\ TokenOf(cal[p].row) = token[account[p]][cal[p].row]
  <1>1. cal[p].row \in RowIds /\ cal[p].google \in Calendars
    BY DEF SyncInv, TypeOK, CalRow
  <1>2. SnapshotOK(p) /\ Orderly
    BY <1>1 DEF SyncInv, PassInv, PassOK, Orderly, Clean
  <1> QED BY <1>1, <1>2, ConstantsAssumption DEF SnapshotOK, Undisturbed, Live, TokenOf, Clean

\* And the row of a raced pass is one that nothing is promised of.
LEMMA RacedRow ==
  ASSUME SyncInv, NEW p \in Passes, Syncing(p), ~Clean(p)
  PROVE  ~Undisturbed(cal[p].row)
  <1>1. cal[p].row \in RowIds
    BY DEF SyncInv, TypeOK, CalRow
  <1>2. SnapshotOK(p)
    BY DEF SyncInv, PassInv, PassOK
  <1>3. CASE Orderly
    BY <1>2, <1>3 DEF SnapshotOK, Undisturbed, Clean
  <1>4. CASE ~Orderly
    BY <1>1, <1>4 DEF Orderly, Undisturbed, Live, SyncInv, TypeOK
  <1> QED BY <1>3, <1>4

\* The request lists what its sync token does not cover, and the copy has what
\* it does; so the events still to come and those on the page are all it lacks.
LEMMA FetchKept ==
  ASSUME SyncInv, NEW p \in Passes, NEW S \in SUBSET Events, Fetch(p, S)
  PROVE  SyncInv'
  <1> DEFINE listing == IF upto[p] = 0 THEN Listing(cal[p].google, since[p]) ELSE left[p]
  <1>0. TypeOK /\ PassOK(p) /\ DbInv
    BY DEF SyncInv, PassInv
  <1>1. /\ pc[p] = "fetch" /\ pc'[p] = "apply" /\ S \subseteq listing
        /\ upto'[p] = (IF upto[p] = 0 THEN head ELSE upto[p])
        /\ left'[p] = listing \ S
        /\ page'[p] = Items(S, since[p])
        /\ UNCHANGED <<googleVars, dbVars, raced, account, cals, cal, since>>
    BY <1>0 DEF Fetch, Goto, TypeOK
  <1>2. /\ DOMAIN Items(S, since[p]) \subseteq S
        /\ \A e \in DOMAIN Items(S, since[p]) : Items(S, since[p])[e] = remote[e]
        /\ \A e \in S : e \notin DOMAIN Items(S, since[p]) => remote[e] = 0 /\ since[p] = 0
    BY DEF Items
  <1>3. Syncing(p) /\ (Clean(p)' <=> Clean(p)) /\ DOMAIN page[p] = {}
    BY <1>0, <1>1 DEF Syncing, Clean, PassOK, ListingOK
  <1>4. listing \subseteq EventsOf(cal[p].google)
    BY <1>0, <1>3 DEF PassOK, ListingOK, Listing
  <1>5. ASSUME Clean(p), NEW e \in Events, HomeOf[e] = cal[p].google, e \notin listing, upto[p] = 0,
               since[p] # 0 \/ remote[e] # 0
        PROVE  changed[e] <= TokenOf(cal[p].row)
    <2>1. changed[e] <= since[p]
      BY <1>0, <1>5 DEF Listing, EventsOf, TypeOK, DbInv, GoogleInv
    <2>2. since[p] <= token[account[p]][cal[p].row]
      BY <1>0, <1>3, <1>5 DEF PassOK, ListingOK
    <2>3. changed[e] \in Int /\ since[p] \in Int /\ token[account[p]][cal[p].row] \in Int
      BY <1>0, TokenInRange DEF TypeOK
    <2> QED BY <1>3, <1>5, <2>1, <2>2, <2>3, SyncedRow
  <1>6. SnapshotOK(p)'
    BY <1>0, <1>1, <1>3 DEF PassOK, SnapshotOK, Orderly, dbVars
  <1>7. ListingOK(p)'
    <2>1. upto'[p] # 0
      BY <1>0, <1>1 DEF TypeOK
    <2>2. Clean(p) => since[p] <= token[account[p]][cal[p].row]
      BY <1>0, <1>3 DEF PassOK, ListingOK
    <2> QED BY <1>1, <1>2, <1>3, <1>4, <2>1, <2>2 DEF ListingOK, dbVars, EventsOf
  <1>8. PageFresh(p)'
    BY <1>1, <1>2 DEF PageFresh, googleVars
  <1>9. ListingCovers(p)'
    <2> SUFFICES ASSUME Clean(p), NEW e \in Events,
                        HomeOf[e] = cal[p].google, remote[e] # 0, changed[e] <= upto'[p]
                 PROVE  \/ e \in left'[p] \/ e \in DOMAIN page'[p]
                        \/ <<cal[p].row, e>> \in own \/ copy[cal[p].row][e] = remote[e]
      BY <1>1, <1>3 DEF ListingCovers, googleVars, dbVars
    <2>1. CASE e \in listing
      BY <2>1, <1>1, <1>2
    <2>2. CASE e \notin listing /\ upto[p] = 0
      <3>1. changed[e] <= TokenOf(cal[p].row)
        BY <1>5, <2>2
      <3> QED BY <1>0, <1>3, <3>1, SyncedRow DEF DbInv, TokenCoversLive
    <2>3. CASE e \notin listing /\ upto[p] # 0
      BY <1>0, <1>1, <1>3, <2>3 DEF PassOK, ListingCovers
    <2> QED BY <2>1, <2>2, <2>3
  <1>10. CancelCovers(p)'
    <2> SUFFICES ASSUME Clean(p), since[p] # 0, NEW e \in Events,
                        HomeOf[e] = cal[p].google, remote[e] = 0,
                        fullAt[cal[p].row] < changed[e], changed[e] <= upto'[p]
                 PROVE  e \in left'[p] \/ e \in DOMAIN page'[p] \/ copy[cal[p].row][e] = 0
      BY <1>1, <1>3 DEF CancelCovers, googleVars, dbVars
    <2>1. CASE e \in listing
      BY <2>1, <1>1, <1>2
    <2>2. CASE e \notin listing /\ upto[p] = 0
      <3>1. changed[e] <= TokenOf(cal[p].row)
        BY <1>5, <2>2
      <3> QED BY <1>0, <1>3, <3>1, SyncedRow DEF DbInv, CancellationsApplied
    <2>3. CASE e \notin listing /\ upto[p] # 0
      BY <1>0, <1>1, <1>3, <2>3 DEF PassOK, CancelCovers
    <2> QED BY <2>1, <2>2, <2>3
  <1>11. Forward(p)'
    <2>1. \A e \in DOMAIN page'[p] : e \in Events /\ page'[p][e] = remote[e]
      BY <1>1, <1>2
    <2>2. \A e \in Events :
            /\ remote[e] = 0 \/ remote[e] = changed[e]
            /\ changed[e] \in Nat /\ copy[cal[p].row][e] <= changed[e]
      BY <1>0 DEF DbInv, GoogleInv, CopyOld, TypeOK, CalRow
    <2>3. Clean(p) => token[account[p]][cal[p].row] <= upto'[p]
      BY <1>0, <1>1, <1>3, TokenInRange DEF PassOK, Forward
    <2> QED BY <1>1, <1>3, <2>1, <2>2, <2>3 DEF Forward, googleVars, dbVars
  <1>12. PassOK(p)'
    BY <1>6, <1>7, <1>8, <1>9, <1>10, <1>11 DEF PassOK
  <1>13. DbInv'
    BY <1>0, <1>1, DbKept
  <1> QED BY <1>1, <1>3, <1>12, <1>13, StepKept DEF Step

LEMMA GoneKept == ASSUME SyncInv, NEW p \in Passes, Gone(p) PROVE SyncInv'
  <1>0. TypeOK /\ PassOK(p) /\ DbInv
    BY DEF SyncInv, PassInv
  <1>1. /\ pc[p] = "fetch" /\ pc' = pc /\ since'[p] = 0 /\ upto'[p] = 0 /\ left'[p] = {}
        /\ UNCHANGED <<googleVars, dbVars, raced, account, cals, cal, page>>
    BY <1>0 DEF Gone, TypeOK
  <1>2. Syncing(p) /\ 0 <= token[account[p]][cal[p].row]
    BY <1>0, <1>1, TokenInRange DEF Syncing
  <1>3. SnapshotOK(p)' /\ ListingOK(p)'
    BY <1>0, <1>1, <1>2 DEF PassOK, SnapshotOK, ListingOK, Orderly, Syncing, dbVars
  <1>4. PageFresh(p)' /\ ListingCovers(p)' /\ CancelCovers(p)' /\ Forward(p)'
    BY <1>1 DEF PageFresh, ListingCovers, CancelCovers, Forward
  <1>5. DbInv' /\ PassOK(p)'
    BY <1>0, <1>1, <1>3, <1>4, DbKept DEF PassOK
  <1> QED BY <1>1, <1>2, <1>5, StepKept DEF Step

\* What a page brings is right, or newer than the token speaks for; a raced pass
\* brings it where nothing is promised.
LEMMA UpsertEventsKept ==
  ASSUME SyncInv, NEW p \in Passes, NEW S \in SUBSET DOMAIN page[p], pc[p] = "apply",
         UpsertEvents(p, cal[p].row, S), UNCHANGED <<googleVars, calOf, token, fullAt, raced>>
  PROVE  /\ DbInv'
         /\ \A r \in RowIds, e \in Events :
              IF r = cal[p].row /\ e \in S
                THEN copy'[r][e] = page[p][e]
                ELSE copy'[r][e] = copy[r][e] /\ (<<r, e>> \in own => <<r, e>> \in own')
  <1>0. TypeOK /\ DbInv /\ PassOK(p) /\ Syncing(p)
    BY DEF SyncInv, PassInv, Syncing
  <1>1. S \subseteq Events /\ S \subseteq EventsOf(cal[p].google)
    BY <1>0, PageElim DEF TypeOK, PassOK, ListingOK
  <1>2. \A r \in RowIds, e \in Events :
          IF r = cal[p].row /\ e \in S
            THEN copy'[r][e] = page[p][e]
            ELSE copy'[r][e] = copy[r][e] /\ (<<r, e>> \in own => <<r, e>> \in own')
    BY <1>0 DEF UpsertEvents, Upserted, TypeOK
  <1>3. GoogleInv'
    BY <1>0 DEF DbInv, GoogleInv, googleVars
  <1>4. \A r \in RowIds : (Undisturbed(r)' <=> Undisturbed(r)) /\ TokenOf(r)' = TokenOf(r)
    BY DEF Undisturbed, Live, TokenOf
  <1>5. ASSUME NEW r \in RowIds, Undisturbed(r), r = cal[p].row, NEW e \in S, changed[e] <= TokenOf(r)
        PROVE  page[p][e] = remote[e]
    <2>1. Clean(p)
      BY <1>0, <1>5, RacedRow
    <2>2. changed[e] \in Int /\ TokenOf(r) \in Int
      BY <1>0, <1>1, <1>5, TokenInRange DEF TypeOK, Undisturbed
    <2> QED BY <1>0, <1>5, <2>1, <2>2, SyncedRow DEF PassOK, PageFresh
  <1>6. TokenCoversLive'
    <2> SUFFICES ASSUME NEW r \in RowIds, NEW e \in Events,
                        Undisturbed(r), calOf[r] = HomeOf[e], remote[e] # 0,
                        changed[e] <= TokenOf(r), <<r, e>> \notin own'
                 PROVE  copy'[r][e] = remote[e]
      BY <1>4 DEF TokenCoversLive, googleVars
    <2>1. CASE r = cal[p].row /\ e \in S
      BY <2>1, <1>2, <1>5
    <2>2. CASE ~(r = cal[p].row /\ e \in S)
      BY <2>2, <1>0, <1>2 DEF DbInv, TokenCoversLive
    <2> QED BY <2>1, <2>2
  <1>7. CancellationsApplied'
    <2> SUFFICES ASSUME NEW r \in RowIds, NEW e \in Events,
                        Undisturbed(r), calOf[r] = HomeOf[e], remote[e] = 0,
                        fullAt[r] < changed[e], changed[e] <= TokenOf(r)
                 PROVE  copy'[r][e] = 0
      BY <1>4 DEF CancellationsApplied, googleVars
    <2>1. CASE r = cal[p].row /\ e \in S
      BY <2>1, <1>2, <1>5
    <2>2. CASE ~(r = cal[p].row /\ e \in S)
      BY <2>2, <1>0, <1>2 DEF DbInv, CancellationsApplied
    <2> QED BY <2>1, <2>2
  <1>8. NoForeignEvents'
    <2> SUFFICES ASSUME NEW r \in RowIds, NEW e \in Events, Undisturbed(r), copy'[r][e] # 0
                 PROVE  calOf[r] = HomeOf[e]
      BY <1>4 DEF NoForeignEvents
    <2>1. CASE r = cal[p].row /\ e \in S
      <3>1. calOf[r] = cal[p].google
        BY <1>0, <2>1, RacedRow, SyncedRow
      <3> QED BY <1>1, <2>1, <3>1 DEF EventsOf
    <2>2. CASE ~(r = cal[p].row /\ e \in S)
      BY <2>2, <1>0, <1>2 DEF DbInv, NoForeignEvents
    <2> QED BY <2>1, <2>2
  <1>9. CopyOld'
    <2>1. \A e \in S : page[p][e] <= changed[e]
      BY <1>0 DEF PassOK, Forward
    <2> QED BY <1>0, <1>2, <2>1 DEF CopyOld, DbInv, googleVars
  <1> QED BY <1>2, <1>3, <1>6, <1>7, <1>8, <1>9 DEF DbInv

LEMMA ApplyPageKept == ASSUME SyncInv, NEW p \in Passes, ApplyPage(p) PROVE SyncInv'
  <1>0. TypeOK /\ PassOK(p) /\ Syncing(p) /\ cal[p].row \in RowIds
    BY DEF SyncInv, PassInv, ApplyPage, Syncing, TypeOK, CalRow
  <1>1. /\ pc[p] = "apply" /\ pc'[p] = (IF left[p] = {} THEN "store" ELSE "fetch")
        /\ DOMAIN page'[p] = {}
        /\ UpsertEvents(p, cal[p].row, DOMAIN page[p])
        /\ UNCHANGED <<googleVars, raced, calOf, token, fullAt, account, cals, cal, since, upto, left>>
    BY <1>0 DEF ApplyPage, Goto, TypeOK, EmptyPage
  <1>2. /\ DbInv'
        /\ \A r \in RowIds, e \in Events :
             IF r = cal[p].row /\ e \in DOMAIN page[p]
               THEN copy'[r][e] = page[p][e]
               ELSE copy'[r][e] = copy[r][e] /\ (<<r, e>> \in own => <<r, e>> \in own')
    BY <1>1, UpsertEventsKept
  <1>3. upto[p] # 0 /\ (Clean(p)' <=> Clean(p))
    BY <1>0, <1>1 DEF PassOK, ListingOK, Clean
  <1>4. \A e \in Events : changed[e] \in Int /\ upto[p] \in Int
    BY <1>0 DEF TypeOK
  <1>5. SnapshotOK(p)' /\ ListingOK(p)'
    BY <1>0, <1>1, <1>3 DEF PassOK, SnapshotOK, ListingOK, Orderly, Syncing
  <1>6. PageFresh(p)' /\ Forward(p)'
    BY <1>0, <1>1, <1>3 DEF PassOK, PageFresh, Forward
  <1>7. ListingCovers(p)'
    <2> SUFFICES ASSUME Clean(p), NEW e \in Events,
                        HomeOf[e] = cal[p].google, remote[e] # 0, changed[e] <= upto[p]
                 PROVE  \/ e \in left[p]
                        \/ <<cal[p].row, e>> \in own' \/ copy'[cal[p].row][e] = remote[e]
      BY <1>1, <1>3 DEF ListingCovers, googleVars
    <2>1. CASE e \in DOMAIN page[p]
      <3>1. page[p][e] = remote[e]
        BY <2>1, <1>0, <1>1, <1>4 DEF PassOK, PageFresh
      <3> QED BY <1>0, <1>2, <2>1, <3>1
    <2>2. CASE e \notin DOMAIN page[p]
      BY <1>0, <1>2, <1>3, <2>2 DEF PassOK, ListingCovers
    <2> QED BY <2>1, <2>2
  <1>8. CancelCovers(p)'
    <2> SUFFICES ASSUME Clean(p), since[p] # 0, NEW e \in Events,
                        HomeOf[e] = cal[p].google, remote[e] = 0,
                        fullAt[cal[p].row] < changed[e], changed[e] <= upto[p]
                 PROVE  e \in left[p] \/ copy'[cal[p].row][e] = 0
      BY <1>1, <1>3 DEF CancelCovers, googleVars
    <2>1. CASE e \in DOMAIN page[p]
      <3>1. page[p][e] = remote[e]
        BY <2>1, <1>0, <1>1, <1>4 DEF PassOK, PageFresh
      <3> QED BY <1>0, <1>2, <2>1, <3>1
    <2>2. CASE e \notin DOMAIN page[p]
      BY <1>0, <1>2, <1>3, <2>2 DEF PassOK, CancelCovers
    <2> QED BY <2>1, <2>2
  <1>9. PassOK(p)'
    BY <1>5, <1>6, <1>7, <1>8 DEF PassOK
  <1> QED BY <1>0, <1>1, <1>2, <1>9, StepKept DEF Step

LEMMA ApplyFailsKept ==
  ASSUME SyncInv, NEW p \in Passes, NEW S \in SUBSET DOMAIN page[p], ApplyFails(p, S)
  PROVE  SyncInv'
  <1>1. DbInv'
    BY UpsertEventsKept DEF ApplyFails
  <1>2. PassOK(p)' /\ ~Syncing(p)'
    BY AbortKept DEF SyncInv, ApplyFails
  <1> QED BY <1>1, <1>2, StepKept DEF Fails, ApplyFails

\* The token is stored when the listing it belongs to has nothing left.
LEMMA StoreTokenKept == ASSUME SyncInv, NEW p \in Passes, StoreToken(p) PROVE SyncInv'
  <1>0. TypeOK /\ PassOK(p) /\ DbInv /\ Syncing(p)
    BY DEF SyncInv, PassInv, StoreToken, Syncing
  <1>1. /\ pc[p] = "store" /\ pc'[p] = "calendar"
        /\ UNCHANGED <<googleVars, raced, calOf, copy, own, account, cals, cal, page>>
    BY <1>0 DEF StoreToken, Goto, TypeOK
  <1>2. upto[p] # 0 /\ left[p] = {} /\ DOMAIN page[p] = {}
    BY <1>0, <1>1 DEF PassOK, ListingOK
  <1>3. \A r \in RowIds :
          /\ Undisturbed(r)' <=> Undisturbed(r)
          /\ r # cal[p].row => TokenOf(r)' = TokenOf(r) /\ fullAt'[r] = fullAt[r]
    BY <1>0, <1>1 DEF StoreToken, TypeOK, TokenOf, Undisturbed, Live
  <1>4. ASSUME NEW r \in RowIds, r = cal[p].row, Undisturbed(r)
        PROVE  /\ Clean(p) /\ TokenOf(r)' = upto[p] /\ calOf[r] = cal[p].google
               /\ fullAt'[r] = IF since[p] = 0 THEN upto[p] ELSE fullAt[r]
    <2>1. Clean(p)
      BY <1>0, <1>4, RacedRow
    <2>2. calOf[r] = cal[p].google /\ AccountOf[calOf[r]] = account[p] /\ account[p] \in Accounts
      BY <1>0, <1>4, <2>1, SyncedRow DEF TypeOK
    <2>3. token'[account[p]][r] = upto[p]
      BY <1>0, <1>4, <2>2 DEF StoreToken, TypeOK
    <2>4. fullAt'[r] = IF since[p] = 0 THEN upto[p] ELSE fullAt[r]
      BY <1>0, <1>4 DEF StoreToken, TypeOK
    <2> QED BY <1>1, <2>1, <2>2, <2>3, <2>4 DEF TokenOf
  <1>5. DbInv'
    <2>1. GoogleInv' /\ NoForeignEvents' /\ CopyOld'
      BY <1>0, <1>1, <1>3 DEF DbInv, GoogleInv, NoForeignEvents, CopyOld, googleVars
    <2>2. TokenCoversLive'
      <3> SUFFICES ASSUME NEW r \in RowIds, NEW e \in Events,
                          Undisturbed(r), calOf[r] = HomeOf[e], remote[e] # 0,
                          changed[e] <= TokenOf(r)', <<r, e>> \notin own
                   PROVE  copy[r][e] = remote[e]
        BY <1>1, <1>3 DEF TokenCoversLive, googleVars
      <3>1. CASE r = cal[p].row
        BY <3>1, <1>0, <1>2, <1>4 DEF PassOK, ListingCovers
      <3>2. CASE r # cal[p].row
        BY <3>2, <1>0, <1>3 DEF DbInv, TokenCoversLive
      <3> QED BY <3>1, <3>2
    <2>3. CancellationsApplied'
      <3> SUFFICES ASSUME NEW r \in RowIds, NEW e \in Events,
                          Undisturbed(r), calOf[r] = HomeOf[e], remote[e] = 0,
                          fullAt'[r] < changed[e], changed[e] <= TokenOf(r)'
                   PROVE  copy[r][e] = 0
        BY <1>1, <1>3 DEF CancellationsApplied, googleVars
      <3>1. CASE r = cal[p].row /\ since[p] = 0
        BY <3>1, <1>0, <1>4 DEF TypeOK
      <3>2. CASE r = cal[p].row /\ since[p] # 0
        BY <3>2, <1>0, <1>2, <1>4 DEF PassOK, CancelCovers
      <3>3. CASE r # cal[p].row
        BY <3>3, <1>0, <1>3 DEF DbInv, CancellationsApplied
      <3> QED BY <3>1, <3>2, <3>3
    <2> QED BY <2>1, <2>2, <2>3 DEF DbInv
  <1>6. SnapshotOK(p)'
    BY <1>0, <1>1 DEF PassOK, SnapshotOK, Orderly, Syncing
  <1>7. PassOK(p)' /\ ~Syncing(p)'
    BY <1>1, <1>2, <1>6, Between
  <1> QED BY <1>1, <1>5, <1>7, StepKept DEF Step

LEMMA SyncStep == SyncInv /\ [Next]_vars => SyncInv'
  <1> SUFFICES ASSUME SyncInv, [Next]_vars PROVE SyncInv'
    OBVIOUS
  <1>1. CASE UNCHANGED vars
    <2>1. TypeOK' /\ OneRowEach'
      BY NextType, OneRowStep DEF SyncInv
    <2>2. DbInv'
      BY <1>1, DbKept DEF vars, SyncInv
    <2>3. Exclusive'
      BY <1>1 DEF vars, passVars, SyncInv, PassInv, Exclusive, Syncing
    <2>4. ASSUME NEW q \in Passes PROVE PassOK(q)'
      <3>1. Kept(q)
        BY <1>1, QuietRows DEF vars, passVars, Kept, Untouched
      <3> QED BY <1>1, <2>1, <3>1, PassKept DEF SyncInv, PassInv, vars
    <2> QED BY <2>1, <2>2, <2>3, <2>4 DEF SyncInv, PassInv
  <1>2. CASE Environment
    BY <1>2, RemoteChangeKept, LocalEditKept, MovesKept, CrashKept DEF Environment
  <1>3. ASSUME NEW p \in Passes, Step(p) PROVE SyncInv'
    BY <1>3, MovesKept, SnapshotKept, ListCalendarsKept, StartAccountKept, LoadTokenKept,
       FetchKept, GoneKept, ApplyPageKept, FailureKept, StoreTokenKept DEF Step
  <1>4. ASSUME NEW p \in Passes, Fails(p) PROVE SyncInv'
    BY <1>4, ListFailsKept, ApplyFailsKept, FailureKept DEF Fails
  <1> QED BY <1>1, <1>2, <1>3, <1>4 DEF Next

\* The stored token never claims more than the copy holds, whatever crashes,
\* failures, 410 answers, clears, local edits and other passes come in between: at
\* a calendar where passes were not raced, every event Google changed up to the
\* token, and still has, is in the row as Google has it, unless the user changed it.
THEOREM TokenNeverAhead == Spec => []TokenCoversLive
  <1>1. SyncInv => TokenCoversLive
    BY DEF SyncInv, DbInv
  <1> QED BY <1>1, InitSync, SyncStep, PTL DEF Spec

\* The row of a calendar at which passes were not raced only ever holds events of
\* that calendar, although a row id is used again after a clear and passes may
\* still be working off rows they read before it.
THEOREM RowsHoldOwnEvents == Spec => []NoForeignEvents
  <1>1. SyncInv => NoForeignEvents
    BY DEF SyncInv, DbInv
  <1> QED BY <1>1, InitSync, SyncStep, PTL DEF Spec

\* At a calendar where passes were not raced, an event that Google cancelled after
\* its last full listing, and that the stored token claims to cover, is no longer
\* in the copy.  Cancellations older than a full listing are not covered: see
\* fullAt, and Gone, whose full listing leaves them out.
THEOREM CancellationsFollowed == Spec => []CancellationsApplied
  <1>1. SyncInv => CancellationsApplied
    BY DEF SyncInv, DbInv
  <1> QED BY <1>1, InitSync, SyncStep, PTL DEF Spec

-----------------------------------------------------------------------------
(* CalendarSync implements CalendarMirror: seen through the table of        *)
(* calendar rows, every step of the sync engine is a step of the abstract   *)
(* mirror or none.  A calendar that passes raced at is dropped from it.     *)

\* The row of a calendar is the row that names it.
LEMMA RowIs ==
  ASSUME OneRowEach, NEW r \in RowIds, NEW c \in Calendars \ raced, calOf[r] = c
  PROVE  Cached(c) /\ RowOf(c) = r
  <1>1. c # NoCalendar
    BY ConstantsAssumption
  <1>2. \A q \in RowIds : calOf[q] = c => q = r
    BY <1>1 DEF OneRowEach
  <1> QED BY <1>2 DEF Cached, RowOf

LEMMA RowIsNext ==
  ASSUME OneRowEach', NEW r \in RowIds, NEW c \in Calendars \ raced', calOf'[r] = c
  PROVE  Cached(c)' /\ RowOf(c)' = r
  <1>1. c # NoCalendar
    BY ConstantsAssumption
  <1>2. \A q \in RowIds : calOf'[q] = c => q = r
    BY <1>1 DEF OneRowEach
  <1> QED BY <1>2 DEF Cached, RowOf

LEMMA RowOfCached ==
  ASSUME NEW c \in Calendars, Cached(c)
  PROVE  /\ RowOf(c) \in RowIds /\ calOf[RowOf(c)] = c /\ c \notin raced
         /\ Live(RowOf(c)) /\ Undisturbed(RowOf(c))
  <1>1. RowOf(c) \in RowIds /\ calOf[RowOf(c)] = c /\ c \notin raced
    BY DEF Cached, RowOf
  <1> QED BY <1>1, ConstantsAssumption DEF Undisturbed, Live

HeldOf(e) == IF Cached(HomeOf[e]) THEN copy[RowOf(HomeOf[e])][e] ELSE 0
IsMine(e) == Cached(HomeOf[e]) /\ <<RowOf(HomeOf[e]), e>> \in own
MarkOf(c) == IF Cached(c) THEN TokenOf(RowOf(c)) ELSE 0

\* A step of the mirror that leaves what it shows alone.
LEMMA Stutter ==
  ASSUME UNCHANGED googleVars,
         \A e \in Events : HeldOf(e)' = HeldOf(e) /\ (IsMine(e)' <=> IsMine(e)),
         \A c \in Calendars : MarkOf(c)' = MarkOf(c)
  PROVE  UNCHANGED Mirror!vars
  BY DEF HeldOf, IsMine, MarkOf, Mirror!vars, Mirror!google, googleVars

LEMMA StutterQuiet == ASSUME UNCHANGED <<googleVars, dbVars, raced>> PROVE UNCHANGED Mirror!vars
  <1>1. \A e \in Events : HeldOf(e)' = HeldOf(e) /\ (IsMine(e)' <=> IsMine(e))
    BY DEF HeldOf, IsMine, Cached, RowOf, dbVars
  <1>2. \A c \in Calendars : MarkOf(c)' = MarkOf(c)
    BY DEF MarkOf, Cached, RowOf, TokenOf, dbVars
  <1> QED BY <1>1, <1>2, Stutter

\* A calendar that gets its row now has brought nothing yet, as when it had none.
LEMMA UpsertStutters ==
  ASSUME SyncInv, OneRowEach', NEW C \in SUBSET Calendars, UpsertCalendars(C),
         UNCHANGED <<googleVars, raced, token, copy, fullAt, own>>
  PROVE  UNCHANGED Mirror!vars
  <1>1. DbType'
    BY UpsertCalendarsType, TypeSplit DEF SyncInv, googleVars
  <1>2. \A r \in RowIds : Live(r) => calOf'[r] = calOf[r]
    BY UpsertCalendarsType, TypeSplit DEF SyncInv, googleVars
  <1>3. ASSUME NEW c \in Calendars, Cached(c)
        PROVE  Cached(c)' /\ RowOf(c)' = RowOf(c) /\ TokenOf(RowOf(c))' = TokenOf(RowOf(c))
    <2>1. RowOf(c) \in RowIds /\ calOf[RowOf(c)] = c /\ Live(RowOf(c)) /\ c \notin raced
      BY <1>3, RowOfCached
    <2>2. calOf'[RowOf(c)] = c
      BY <2>1, <1>2
    <2>3. Cached(c)' /\ RowOf(c)' = RowOf(c)
      BY <2>1, <2>2, RowIsNext
    <2> QED BY <2>1, <2>2, <2>3 DEF TokenOf
  <1>4. ASSUME NEW c \in Calendars, ~Cached(c), Cached(c)'
        PROVE  /\ \A e \in Events : copy[RowOf(c)'][e] = 0 /\ <<RowOf(c)', e>> \notin own
               /\ TokenOf(RowOf(c))' = 0
    <2>1. RowOf(c)' \in RowIds /\ calOf'[RowOf(c)'] = c
      BY <1>4 DEF Cached, RowOf
    <2>2. calOf[RowOf(c)'] # c
      BY <1>4, <2>1 DEF Cached
    <2>3. ~Live(RowOf(c)')
      BY <1>2, <2>1, <2>2
    <2>4. TokenOf(RowOf(c))' = token[AccountOf[c]][RowOf(c)']
      BY <2>1 DEF TokenOf
    <2> QED BY <2>1, <2>3, <2>4, ConstantsAssumption
            DEF SyncInv, TypeOK, DeadRowsEmpty
  <1>5. \A e \in Events : HomeOf[e] \in Calendars
    BY ConstantsAssumption
  <1>6. \A e \in Events : HeldOf(e)' = HeldOf(e) /\ (IsMine(e)' <=> IsMine(e))
    BY <1>3, <1>4, <1>5 DEF HeldOf, IsMine
  <1>7. \A c \in Calendars : MarkOf(c)' = MarkOf(c)
    BY <1>3, <1>4 DEF MarkOf
  <1> QED BY <1>6, <1>7, Stutter

LEMMA RemoteChangeMirrored ==
  ASSUME NEW e \in Events, NEW cancel \in BOOLEAN, RemoteChange(e, cancel)
  PROVE  Mirror!Next
  <1>1. Mirror!RemoteChange(e)
    <2>1. /\ head' = head + 1 /\ changed' = [changed EXCEPT ![e] = head']
          /\ \E v \in {0, head'} : remote' = [remote EXCEPT ![e] = v]
      BY DEF RemoteChange
    <2>2. UNCHANGED <<dbVars, raced>>
      BY DEF RemoteChange
    <2>3. \A d \in Events : HeldOf(d)' = HeldOf(d) /\ (IsMine(d)' <=> IsMine(d))
      BY <2>2 DEF HeldOf, IsMine, Cached, RowOf, dbVars
    <2>4. \A c \in Calendars : MarkOf(c)' = MarkOf(c)
      BY <2>2 DEF MarkOf, Cached, RowOf, TokenOf, dbVars
    <2> QED BY <2>1, <2>3, <2>4 DEF Mirror!RemoteChange, HeldOf, IsMine, MarkOf
  <1> QED BY <1>1 DEF Mirror!Next

\* The tables' rows as they were, the calendars keep theirs.
LEMMA SameRows ==
  ASSUME UNCHANGED <<calOf, raced>>
  PROVE  \A c \in Calendars : (Cached(c)' <=> Cached(c)) /\ RowOf(c)' = RowOf(c)
  BY DEF Cached, RowOf

\* An edit in the row of a calendar that passes raced at is not seen.
LEMMA LocalEditMirrored ==
  ASSUME SyncInv, NEW r \in RowIds, NEW e \in Events, NEW delete \in BOOLEAN,
         LocalEdit(r, e, delete)
  PROVE  Mirror!Next \/ UNCHANGED Mirror!vars
  <1>1. /\ own' = own \cup {<<r, e>>}
        /\ \A q \in RowIds, d \in Events :
             copy'[q][d] = copy[q][d] \/ (copy'[q][d] = 0 /\ q = r /\ d = e)
        /\ UNCHANGED <<googleVars, calOf, token, raced>>
    BY DEF LocalEdit, SyncInv, TypeOK
  <1>2. \A d \in Events : HomeOf[d] \in Calendars
    BY ConstantsAssumption
  <1>3. \A d \in Events : Cached(HomeOf[d]) => RowOf(HomeOf[d]) \in RowIds
    BY <1>2, RowOfCached
  <1>4. \A c \in Calendars : MarkOf(c)' = MarkOf(c)
    BY <1>1, SameRows DEF MarkOf, TokenOf
  <1>5. \A d \in Events \ {e} : HeldOf(d)' = HeldOf(d) /\ (IsMine(d)' <=> IsMine(d))
    BY <1>1, <1>2, <1>3, SameRows DEF HeldOf, IsMine
  <1>6. CASE Undisturbed(r)
    <2>1. calOf[r] = HomeOf[e] /\ HomeOf[e] \in Calendars \ raced
      BY <1>2, <1>6 DEF LocalEdit, SyncInv, DbInv, NoForeignEvents, Undisturbed
    <2>2. Cached(HomeOf[e]) /\ RowOf(HomeOf[e]) = r
      BY <2>1, RowIs DEF SyncInv
    <2>3. HeldOf(e)' \in {0, HeldOf(e)} /\ IsMine(e)'
      BY <1>1, <1>2, <2>2, SameRows DEF HeldOf, IsMine
    <2>4. Mirror!LocalEdit(e)
      BY <1>1, <1>4, <1>5, <2>3
         DEF Mirror!LocalEdit, Mirror!google, HeldOf, IsMine, MarkOf, googleVars
    <2> QED BY <2>4 DEF Mirror!Next
  <1>7. CASE ~Undisturbed(r)
    <2>1. Cached(HomeOf[e]) => RowOf(HomeOf[e]) # r
      BY <1>2, <1>7, RowOfCached
    <2>2. HeldOf(e)' = HeldOf(e) /\ (IsMine(e)' <=> IsMine(e))
      BY <1>1, <1>2, <1>3, <2>1, SameRows DEF HeldOf, IsMine
    <2> QED BY <1>1, <1>4, <1>5, <2>2, Stutter
  <1> QED BY <1>6, <1>7

\* The calendars C are no longer seen, the others are as they were.
LEMMA DropMirrored ==
  ASSUME NEW C \in SUBSET Calendars, UNCHANGED googleVars,
         \A c \in C : ~Cached(c)',
         \A c \in Calendars \ C : Cached(c)' <=> Cached(c),
         \A c \in Calendars \ C : Cached(c) =>
           /\ RowOf(c)' = RowOf(c) /\ TokenOf(RowOf(c))' = TokenOf(RowOf(c))
           /\ copy'[RowOf(c)] = copy[RowOf(c)]
           /\ \A e \in Events : <<RowOf(c), e>> \in own' <=> <<RowOf(c), e>> \in own
  PROVE  Mirror!Next
  <1>1. \A e \in Events : HomeOf[e] \in Calendars
    BY ConstantsAssumption
  <1>2. \A e \in Events :
          /\ HeldOf(e)' = IF HomeOf[e] \in C THEN 0 ELSE HeldOf(e)
          /\ IsMine(e)' <=> IsMine(e) /\ HomeOf[e] \notin C
    BY <1>1 DEF HeldOf, IsMine
  <1>3. \A c \in Calendars : MarkOf(c)' = IF c \in C THEN 0 ELSE MarkOf(c)
    BY DEF MarkOf
  <1>4. Mirror!Drop(C)
    BY <1>2, <1>3 DEF Mirror!Drop, Mirror!google, HeldOf, IsMine, MarkOf, googleVars
  <1> QED BY <1>4 DEF Mirror!Next

\* A clear drops the account's calendars, or all of them when it races a pass.
LEMMA ClearMirrored ==
  ASSUME SyncInv, OneRowEach', NEW p \in Passes, NEW a \in Accounts, ClearRows(RowsOf(a)),
         raced' = RacedByClear(p, a), UNCHANGED googleVars
  PROVE  Mirror!Next
  <1>1. CASE raced' = Calendars
    <2>1. \A c \in Calendars : ~Cached(c)'
      BY <1>1 DEF Cached
    <2> QED BY <2>1, DropMirrored
  <1>2. CASE raced' # Calendars
    <2> DEFINE C == CalendarList(a)
    <2>1. C \subseteq Calendars /\ \A c \in Calendars \ C : c \in raced' <=> c \in raced
      BY <1>2 DEF RacedByClear, CalendarList
    <2>2. ASSUME NEW c \in C PROVE ~Cached(c)'
      BY ConstantsAssumption DEF ClearRows, Cached, RowsOf, Live, CalendarList
    <2>3. ASSUME NEW c \in Calendars \ C, Cached(c)
          PROVE  /\ Cached(c)' /\ RowOf(c)' = RowOf(c) /\ TokenOf(RowOf(c))' = TokenOf(RowOf(c))
                 /\ copy'[RowOf(c)] = copy[RowOf(c)]
                 /\ \A e \in Events : <<RowOf(c), e>> \in own' <=> <<RowOf(c), e>> \in own
      <3>1. RowOf(c) \in RowIds /\ calOf[RowOf(c)] = c /\ RowOf(c) \notin RowsOf(a) /\ c \notin raced'
        BY <2>1, <2>3, RowOfCached DEF RowsOf, CalendarList
      <3>2. calOf'[RowOf(c)] = c
        BY <3>1 DEF ClearRows
      <3>3. Cached(c)' /\ RowOf(c)' = RowOf(c)
        BY <3>1, <3>2, RowIsNext
      <3>4. TokenOf(RowOf(c))' = TokenOf(RowOf(c))
        BY <3>1, <3>2, <3>3, ConstantsAssumption DEF TokenOf, ClearRows
      <3> QED BY <3>1, <3>3, <3>4 DEF ClearRows, SyncInv, TypeOK
    <2>4. ASSUME NEW c \in Calendars \ C, ~Cached(c) PROVE ~Cached(c)'
      BY <2>1, <2>4, ConstantsAssumption DEF ClearRows, Cached
    <2> HIDE DEF C
    <2> QED BY <2>1, <2>2, <2>3, <2>4, DropMirrored
  <1> QED BY <1>1, <1>2

\* A calendar at which a second pass starts is dropped.
LEMMA LoadTokenMirrored ==
  ASSUME SyncInv, NEW p \in Passes, NEW c \in cals[p], LoadToken(p, c)
  PROVE  Mirror!Next \/ UNCHANGED Mirror!vars
  <1>1. UNCHANGED <<googleVars, dbVars>> /\ c.google \in Calendars
    BY DEF LoadToken, SyncInv, TypeOK, CalRow
  <1>2. CASE raced' = raced
    BY <1>1, <1>2, StutterQuiet
  <1>3. CASE raced' # raced
    <2>1. raced' = raced \cup {c.google}
      BY <1>3 DEF LoadToken, RacedBySync
    <2>2. \A d \in {c.google} : ~Cached(d)'
      BY <2>1 DEF Cached
    <2>3. \A d \in Calendars \ {c.google} : Cached(d)' <=> Cached(d)
      BY <1>1, <2>1 DEF Cached, dbVars
    <2>4. \A d \in Calendars : RowOf(d)' = RowOf(d)
      BY <1>1 DEF RowOf, dbVars
    <2>5. \A d \in Calendars : TokenOf(RowOf(d))' = TokenOf(RowOf(d))
      BY <1>1, <2>4 DEF TokenOf, dbVars
    <2>6. UNCHANGED <<copy, own>> /\ {c.google} \in SUBSET Calendars
      BY <1>1 DEF dbVars
    <2> QED BY <1>1, <2>2, <2>3, <2>4, <2>5, <2>6, DropMirrored
  <1> QED BY <1>2, <1>3

\* Events of a page arrive, all of them or some before a failure; those that a
\* raced pass brings are not seen.
LEMMA ReceiveMirrored ==
  ASSUME SyncInv, NEW p \in Passes, NEW S \in SUBSET DOMAIN page[p], pc[p] = "apply",
         UpsertEvents(p, cal[p].row, S), UNCHANGED <<googleVars, calOf, token, fullAt, raced>>, TypeOK'
  PROVE  Mirror!Next
  <1>0. Syncing(p) /\ PassOK(p)
    BY DEF Syncing, SyncInv, PassInv
  <1>1. \A r \in RowIds, e \in Events :
          copy'[r][e] = IF r = cal[p].row /\ e \in S THEN page[p][e] ELSE copy[r][e]
    BY DEF UpsertEvents, Upserted, SyncInv, TypeOK
  <1>2. own' = own \ ({cal[p].row} \X S)
    BY DEF UpsertEvents
  <1>3. Clean(p) => \A e \in S : page[p][e] = 0 \/ copy[cal[p].row][e] <= page[p][e]
    BY <1>0 DEF PassOK, Forward
  <1>4. \A e \in Events : HomeOf[e] \in Calendars
    BY ConstantsAssumption
  <1>5. \A e \in Events : Cached(HomeOf[e]) => RowOf(HomeOf[e]) \in RowIds
    BY <1>4, RowOfCached
  <1>6. \A r \in RowIds, e \in Events : copy'[r][e] \in 0..head /\ copy[r][e] \in 0..head
    BY DEF TypeOK, SyncInv, googleVars
  <1>7. ASSUME NEW e \in Events
        PROVE  /\ HeldOf(e)' \in 0..head
               /\ HeldOf(e)' # 0 => HeldOf(e)' >= HeldOf(e)
               /\ IsMine(e)' => IsMine(e) /\ HeldOf(e)' = HeldOf(e)
    <2>1. CASE ~Cached(HomeOf[e])
      <3>1. HeldOf(e) = 0 /\ HeldOf(e)' = 0 /\ ~IsMine(e)'
        BY <2>1, <1>4, SameRows DEF HeldOf, IsMine
      <3> QED BY <3>1 DEF SyncInv, TypeOK
    <2>2. CASE Cached(HomeOf[e])
      <3> DEFINE q == RowOf(HomeOf[e])
      <3>1. /\ q \in RowIds /\ HeldOf(e) = copy[q][e] /\ HeldOf(e)' = copy'[q][e]
            /\ IsMine(e) <=> <<q, e>> \in own
            /\ IsMine(e)' <=> <<q, e>> \in own'
        BY <2>2, <1>4, <1>5, SameRows DEF HeldOf, IsMine
      <3>2. q = cal[p].row => Clean(p)
        BY <1>0, <1>4, <2>2, RowOfCached, RacedRow
      <3> HIDE DEF q
      <3> QED BY <3>1, <3>2, <1>1, <1>2, <1>3, <1>6
    <2> QED BY <2>1, <2>2
  <1>8. \A c \in Calendars : MarkOf(c)' = MarkOf(c)
    BY SameRows DEF MarkOf, TokenOf
  <1>9. Mirror!Receive
    BY <1>7, <1>8 DEF Mirror!Receive, Mirror!google, HeldOf, IsMine, MarkOf, googleVars
  <1> QED BY <1>9 DEF Mirror!Next

\* Storing the token advances the mark to where the listing was taken, unless
\* the calendar is one that passes raced at.
LEMMA AdvanceMirrored ==
  ASSUME SyncInv, NEW p \in Passes, StoreToken(p)
  PROVE  Mirror!Next \/ UNCHANGED Mirror!vars
  <1> DEFINE c == cal[p].google
             r == cal[p].row
  <1>0. TypeOK /\ PassOK(p) /\ Syncing(p) /\ pc[p] = "store"
    BY DEF SyncInv, PassInv, StoreToken, Syncing
  <1>1. upto[p] # 0 /\ left[p] = {} /\ DOMAIN page[p] = {}
    BY <1>0 DEF PassOK, ListingOK
  <1>2. UNCHANGED <<googleVars, calOf, copy, own, raced>>
    BY DEF StoreToken
  <1>3. \A e \in Events : HeldOf(e)' = HeldOf(e) /\ (IsMine(e)' <=> IsMine(e))
    BY <1>2, SameRows, ConstantsAssumption DEF HeldOf, IsMine
  <1>4. \A d \in Calendars : Cached(d) /\ RowOf(d) # r => MarkOf(d)' = MarkOf(d)
    <2> SUFFICES ASSUME NEW d \in Calendars, Cached(d), RowOf(d) # r PROVE MarkOf(d)' = MarkOf(d)
      OBVIOUS
    <2>1. RowOf(d) \in RowIds /\ RowOf(d)' = RowOf(d) /\ Cached(d)' /\ calOf[RowOf(d)] = d
      BY <1>2, RowOfCached, SameRows
    <2>2. MarkOf(d)' = token'[AccountOf[d]][RowOf(d)] /\ MarkOf(d) = token[AccountOf[d]][RowOf(d)]
      BY <1>2, <2>1 DEF MarkOf, TokenOf
    <2>3. token' = [token EXCEPT ![account[p]][r] = upto[p]]
      BY DEF StoreToken
    <2>4. AccountOf[d] \in Accounts
      BY ConstantsAssumption
    <2> QED BY <1>0, <2>1, <2>2, <2>3, <2>4 DEF TypeOK
  <1>5. \A d \in Calendars : ~Cached(d) => MarkOf(d)' = MarkOf(d)
    BY <1>2, SameRows DEF MarkOf
  <1>6. CASE ~Clean(p)
    <2>1. \A d \in Calendars : Cached(d) => RowOf(d) # r
      BY <1>0, <1>6, RowOfCached, RacedRow
    <2> QED BY <1>2, <1>3, <1>4, <1>5, <2>1, Stutter
  <1>7. CASE Clean(p)
    <2>1. c \in Calendars \ raced /\ r \in RowIds /\ calOf[r] = c /\ AccountOf[c] = account[p]
      BY <1>0, <1>7, SyncedRow DEF Clean
    <2>2. Cached(c) /\ RowOf(c) = r /\ TokenOf(r) = token[account[p]][r]
      BY <1>0, <1>7, <2>1, RowIs, SyncedRow DEF SyncInv
    <2>3. token'[account[p]][r] = upto[p]
      BY <1>0, <2>1 DEF StoreToken, TypeOK
    <2>4. \A d \in Calendars : MarkOf(d)' = IF d = c THEN upto[p] ELSE MarkOf(d)
      <3> SUFFICES ASSUME NEW d \in Calendars PROVE MarkOf(d)' = IF d = c THEN upto[p] ELSE MarkOf(d)
        OBVIOUS
      <3>1. CASE d = c
        <4>1. Cached(d)' /\ RowOf(d)' = r /\ calOf'[r] = d
          BY <1>2, <2>1, <2>2, <3>1, SameRows
        <4> QED BY <2>1, <2>3, <3>1, <4>1 DEF MarkOf, TokenOf
      <3>2. CASE d # c
        <4>1. Cached(d) => RowOf(d) # r
          BY <2>1, <3>2, RowOfCached
        <4> QED BY <1>4, <1>5, <3>2, <4>1
      <3> QED BY <3>1, <3>2
    <2>5. MarkOf(c) <= upto[p] /\ upto[p] \in 0..head
      BY <1>0, <1>1, <1>7, <2>2 DEF MarkOf, PassOK, Forward, TypeOK
    <2>6. \A e \in Events :
            HomeOf[e] = c /\ remote[e] # 0 /\ changed[e] <= upto[p] /\ ~IsMine(e) => HeldOf(e) = remote[e]
      BY <1>0, <1>1, <1>7, <2>2 DEF HeldOf, IsMine, PassOK, ListingCovers
    <2>7. head \in Nat
      BY <1>0 DEF TypeOK
    <2> HIDE DEF c, r
    <2>8. Mirror!Advance(c, upto[p])
      <3>1. Mirror!Complete(c, upto[p])
        BY <2>6 DEF Mirror!Complete, HeldOf, IsMine
      <3>2. UNCHANGED <<Mirror!google, [e \in Events |-> HeldOf(e)], {e \in Events : IsMine(e)}>>
        BY <1>2, <1>3 DEF Mirror!google, googleVars
      <3>3. [d \in Calendars |-> MarkOf(d)]' =
              [[d \in Calendars |-> MarkOf(d)] EXCEPT ![c] = upto[p]]
        BY <2>1, <2>4
      <3>4. [d \in Calendars |-> MarkOf(d)][c] <= upto[p] /\ upto[p] <= head
        BY <2>1, <2>5, <2>7
      <3> QED BY <3>1, <3>2, <3>3, <3>4 DEF Mirror!Advance, HeldOf, IsMine, MarkOf
    <2> QED BY <2>1, <2>5, <2>8 DEF Mirror!Next
  <1> QED BY <1>6, <1>7

LEMMA MirrorStep == SyncInv /\ [Next]_vars => [Mirror!Next]_Mirror!vars
  <1> SUFFICES ASSUME SyncInv, [Next]_vars PROVE Mirror!Next \/ UNCHANGED Mirror!vars
    OBVIOUS
  <1>1. SyncInv'
    BY SyncStep
  <1>2. CASE UNCHANGED vars
    BY <1>2, StutterQuiet DEF vars
  <1>3. CASE Environment
    BY <1>3, RemoteChangeMirrored, LocalEditMirrored, StutterQuiet DEF Environment, Press, Crash
  <1>4. ASSUME NEW p \in Passes, Step(p) PROVE Mirror!Next \/ UNCHANGED Mirror!vars
    <2>1. ASSUME NEW a \in accounts[p], StartAccount(p, a)
          PROVE  Mirror!Next \/ UNCHANGED Mirror!vars
      <3>1. a \in Accounts
        BY DEF SyncInv, TypeOK
      <3> QED BY <2>1, <3>1, <1>1, ClearMirrored, StutterQuiet DEF StartAccount, SyncInv
    <2>2. CASE ListCalendars(p)
      BY <2>2, <1>1, UpsertStutters DEF ListCalendars, CalendarList, SyncInv
    <2>3. CASE ApplyPage(p)
      BY <2>3, <1>1, ReceiveMirrored DEF ApplyPage, SyncInv
    <2>4. CASE StoreToken(p)
      BY <2>4, AdvanceMirrored
    <2> QED BY <1>4, <2>1, <2>2, <2>3, <2>4, LoadTokenMirrored, StutterQuiet
            DEF Step, Finish, Snapshot, EndAccount, Fetch, Gone, ApplyRefused, StoreRefused
  <1>5. ASSUME NEW p \in Passes, Fails(p) PROVE Mirror!Next \/ UNCHANGED Mirror!vars
    <2>1. ASSUME NEW C \in SUBSET CalendarList(account[p]), ListFails(p, C)
          PROVE  UNCHANGED Mirror!vars
      BY <2>1, <1>1, UpsertStutters DEF ListFails, CalendarList, SyncInv
    <2>2. ASSUME NEW S \in SUBSET DOMAIN page[p], ApplyFails(p, S) PROVE Mirror!Next
      BY <2>2, <1>1, ReceiveMirrored DEF ApplyFails, SyncInv
    <2> QED BY <1>5, <2>1, <2>2, StutterQuiet DEF Fails, FetchFails, StoreFails
  <1> QED BY <1>2, <1>3, <1>4, <1>5 DEF Next

LEMMA MirrorInit == Init => Mirror!Init
  <1> SUFFICES ASSUME Init PROVE Mirror!Init
    OBVIOUS
  <1>1. TypeOK
    BY InitType
  <1>2. \A e \in Events : HeldOf(e) = 0 /\ ~IsMine(e)
    <2>1. \A e \in Events : Cached(HomeOf[e]) => RowOf(HomeOf[e]) \in RowIds
      BY RowOfCached, ConstantsAssumption
    <2> QED BY <2>1 DEF Init, HeldOf, IsMine
  <1>3. \A c \in Calendars : MarkOf(c) = 0
    <2>1. \A c \in Calendars : Cached(c) => RowOf(c) \in RowIds /\ calOf[RowOf(c)] = c
      BY RowOfCached
    <2> QED BY <2>1, ConstantsAssumption DEF Init, MarkOf, TokenOf
  <1>4. remote \in [Events -> {0, 1}] /\ changed = remote /\ head = 1
    BY DEF Init
  <1> QED BY <1>2, <1>3, <1>4 DEF Mirror!Init, HeldOf, IsMine, MarkOf

\* The sync engine is a mirror of Google: seen from outside, with passes, pages, row
\* ids, 410 answers, failures and crashes hidden, an event only ever moves forward or
\* goes, and the mark of a calendar moves to where nothing of it is missing or old.
\* Two passes at one calendar drop that calendar from the mirror, and a clear under
\* a pass that holds rows of the account all of them, until they are cleared.
THEOREM ImplementsMirror == Spec => MirrorsGoogle
  <1> QED BY InitSync, SyncStep, MirrorInit, MirrorStep, PTL
          DEF Spec, MirrorsGoogle, Mirror!Spec

=============================================================================
