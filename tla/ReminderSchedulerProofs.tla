---------------------- MODULE ReminderSchedulerProofs ----------------------
(***************************************************************************)
(* Proofs about ReminderScheduler, for every value of its constants: its   *)
(* types, and the dialog's agreement with the table.                       *)
(***************************************************************************)
EXTENDS ReminderScheduler, TLAPS

\* The key of a due reminder is one of the table's keys.
LEMMA ItemKeyType ==
  ASSUME NEW d \in DueReminder
  PROVE  ItemKey(d) \in Keys
  BY DEF DueReminder, ItemKey, Keys

\* A due list only holds due reminders.
LEMMA DueRemindersType == DueReminders \subseteq DueReminder
  BY DEF DueReminders, DueReminder, IsDue

\* What a handler makes of a row is a row again.
LEMMA UpdatedType ==
  ASSUME TypeOK, NEW m \in AppMsg, NEW k \in Keys
  PROVE  Updated(m, k) \in Row
<1>1. rows[k] \in Row /\ now \in Nat
  BY ConstantsAssumption DEF TypeOK
<1>2. CASE m.op = "clear"
  BY <1>2 DEF Updated, Absent, Row
<1>3. CASE m.op \in {"dismiss", "dismissAll"}
  BY <1>1, <1>3 DEF Updated, Row
<1>4. CASE m.op \in {"snooze", "snoozeAll"}
  <2>1. m.minutes \in Nat
    BY <1>4, ConstantsAssumption DEF AppMsg, RowMsg, BulkMsg
  <2>2. SnoozeUntil(m.minutes) \in Nat
    BY <1>1, <2>1 DEF SnoozeUntil
  <2>3. QED
    BY <1>1, <1>4, <2>2 DEF Updated, Row
<1>5. QED
  BY <1>2, <1>3, <1>4 DEF AppMsg, RowMsg, BulkMsg

\* Every button sends a message the handlers know.
LEMMA ClickableType ==
  ASSUME TypeOK
  PROVE  Clickable \subseteq AppMsg
  BY DEF Clickable, AppMsg, RowMsg, BulkMsg, TypeOK

\* The budget counters stay natural numbers.
LEMMA SpendType ==
  ASSUME TypeOK, NEW b \in Budgets, Spend(b)
  PROVE  spent' \in [Budgets -> Nat]
  BY DEF TypeOK, Spend

\* Type correctness.
THEOREM TypeCorrect == Spec => []TypeOK
<1>1. Init => TypeOK
  BY ConstantsAssumption DEF Init, TypeOK, Row, Absent, AppMsg
<1>2. TypeOK /\ [Next]_vars => TypeOK'
  <2> SUFFICES ASSUME TypeOK, [Next]_vars
               PROVE  TypeOK'
    OBVIOUS
  <2> USE ConstantsAssumption
  <2>1. ASSUME NEW t \in Ticks, TickStart(t)
        PROVE  TypeOK'
    BY <2>1 DEF TypeOK, TickStart, dbVars, uiVars, shownVars, Settings
  <2>2. ASSUME NEW t \in Ticks, TickQuery(t)
        PROVE  TypeOK'
    BY <2>2, DueRemindersType DEF TypeOK, TickQuery, dbVars, uiVars, shownVars
  <2>3. ASSUME NEW t \in Ticks, TickQueryFails(t)
        PROVE  TypeOK'
    BY <2>3, SpendType DEF TypeOK, TickQueryFails, dbVars, uiVars, shownVars, Budgets
  <2>4. ASSUME NEW t \in Ticks, TickFinish(t)
        PROVE  TypeOK'
    BY <2>4 DEF TypeOK, TickFinish, dbVars, uiVars, shownVars
  <2>5. ASSUME NEW t \in Ticks, NEW d \in todo[t], RecordFired(t, d)
        PROVE  TypeOK'
    <3>1. d \in DueReminder /\ ItemKey(d) \in Keys
      BY <2>5, ItemKeyType DEF TypeOK
    <3>2. rows' \in [Keys -> Row]
      <4>1. PICK n \in FiredIds(ItemKey(d)) :
              rows' = [rows EXCEPT ![ItemKey(d)] = [id |-> n, status |-> "active", until |-> 0]]
        BY <2>5 DEF RecordFired
      <4>2. n \in Nat
        BY <3>1, <4>1 DEF FiredIds, TypeOK, Row
      <4>3. QED
        BY <3>1, <4>1, <4>2 DEF TypeOK, Row
    <3>3. todo' \in [Ticks -> SUBSET DueReminder] /\ sending' \in [Ticks -> SUBSET DueReminder]
      BY <2>5, <3>1 DEF RecordFired, TypeOK
    <3>4. QED
      BY <2>5, <3>1, <3>2, <3>3 DEF TypeOK, RecordFired, dbVars, uiVars, shownVars
  <2>6. ASSUME NEW t \in Ticks, NEW d \in todo[t], RecordFails(t, d)
        PROVE  TypeOK'
    BY <2>6, SpendType DEF TypeOK, RecordFails, dbVars, uiVars, shownVars, Budgets
  <2>7. ASSUME NEW t \in Ticks, Notify(t)
        PROVE  TypeOK'
    BY <2>7 DEF TypeOK, Notify, dbVars, uiVars, shownVars
  <2>8. ASSUME NEW t \in Ticks, HandleCheckFinished(t)
        PROVE  TypeOK'
    BY <2>8 DEF TypeOK, HandleCheckFinished, dbVars, shownVars
  <2>9. CASE RefreshOverlay
    BY <2>9 DEF TypeOK, RefreshOverlay, ActiveIds, DismissedIds, Histories, Row, dbVars, tickVars
  <2>10. ASSUME NEW m \in Clickable, Click(m)
         PROVE  TypeOK'
    <3>1. m \in AppMsg /\ inbox \in Seq(AppMsg)
      BY ClickableType DEF TypeOK
    <3>2. inbox' \in Seq(AppMsg)
      BY <2>10, <3>1 DEF Click
    <3>3. spent' \in [Budgets -> Nat]
      BY <2>10, SpendType DEF Click, Budgets
    <3>4. QED
      BY <2>10, <3>2, <3>3 DEF TypeOK, Click, dbVars, tickVars, shownVars
  <2>11. CASE HandleMsg
    <3>1. Head(inbox) \in AppMsg /\ Tail(inbox) \in Seq(AppMsg)
      BY <2>11 DEF HandleMsg, TypeOK
    <3>2. rows' \in [Keys -> Row]
      BY <2>11, <3>1, UpdatedType DEF HandleMsg, TypeOK
    <3>3. QED
      BY <2>11, <3>1, <3>2 DEF TypeOK, HandleMsg, dbVars, tickVars, shownVars
  <2>12. CASE HandleMsgFails
    <3>1. inbox' \in Seq(AppMsg)
      BY <2>12 DEF HandleMsgFails, TypeOK
    <3>2. spent' \in [Budgets -> Nat]
      BY <2>12, SpendType DEF HandleMsgFails, Budgets
    <3>3. QED
      BY <2>12, <3>1, <3>2 DEF TypeOK, HandleMsgFails, dbVars, tickVars, shownVars
  <2>13. ASSUME NEW e \in Events, NEW s \in Starts \cup {NoStart},
                NEW R \in SUBSET {r \in Reminders : EventOf[r] = e}, EditEvent(e, s, R)
         PROVE  TypeOK'
    BY <2>13, SpendType DEF TypeOK, EditEvent, tickVars, uiVars, shownVars, Budgets
  <2>14. ASSUME NEW V \in SUBSET Calendars, SetVisible(V)
         PROVE  TypeOK'
    BY <2>14, SpendType DEF TypeOK, SetVisible, tickVars, uiVars, shownVars, Budgets
  <2>15. ASSUME NEW s \in SettingsValues, SaveSettings(s)
         PROVE  TypeOK'
    BY <2>15, SpendType DEF TypeOK, SaveSettings, tickVars, uiVars, shownVars, Budgets
  <2>16. CASE Advance
    BY <2>16 DEF TypeOK, Advance, dbVars, tickVars, uiVars, shownVars
  <2>17. CASE Stop
    BY <2>17, SpendType DEF TypeOK, Stop, dbVars, Budgets
  <2>18. CASE Launch
    BY <2>18 DEF TypeOK, Launch, dbVars, tickVars, shownVars
  <2>19. CASE UNCHANGED vars
    BY <2>19 DEF TypeOK, vars, dbVars, tickVars, uiVars, shownVars
  <2>20. ASSUME NEW t \in Ticks, TickStartDefaults(t)
         PROVE  TypeOK'
    BY <2>20, SpendType DEF TypeOK, TickStartDefaults, dbVars, uiVars, shownVars, Budgets
  <2>21. CASE RefreshFails
    <3>1. spent' \in [Budgets -> Nat]
      BY <2>21, SpendType DEF RefreshFails, Budgets
    <3>2. ActiveIds \subseteq Nat
      BY DEF TypeOK, ActiveIds, Row
    <3>3. QED
      BY <2>21, <3>1, <3>2 DEF TypeOK, RefreshFails, dbVars, tickVars
  <2>22. QED
    BY <2>1, <2>2, <2>3, <2>4, <2>5, <2>6, <2>7, <2>8, <2>9, <2>10, <2>11, <2>12, <2>13, <2>14,
       <2>15, <2>16, <2>17, <2>18, <2>19, <2>20, <2>21
    DEF Next, Tick, Gtk, Environment
<1>3. QED
  BY <1>1, <1>2, PTL DEF Spec
-----------------------------------------------------------------------------
\* A step leaves the table alone unless a tick records or a handler runs.
LEMMA RowsChange ==
  ASSUME [Next]_vars, rows' # rows
  PROVE  \/ \E t \in Ticks : \E d \in todo[t] : RecordFired(t, d)
         \/ HandleMsg
  BY DEF vars, Next, Tick, TickStart, TickStartDefaults, TickQuery, TickQueryFails, TickFinish, RecordFails, Notify,
         Gtk, HandleCheckFinished, RefreshOverlay, RefreshFails, HandleMsgFails, Click,
         Environment, EditEvent, SetVisible, SaveSettings, Advance, Stop, Launch

\* record_fired leaves an active row that keeps the id it had; no other row
\* changes.
LEMMA RecordFiredRows ==
  ASSUME TypeOK, NEW t \in Ticks, NEW d \in todo[t], RecordFired(t, d)
  PROVE  /\ ItemKey(d) \in Keys
         /\ rows'[ItemKey(d)].status = "active"
         /\ Present(ItemKey(d)) => rows'[ItemKey(d)].id = rows[ItemKey(d)].id
         /\ \A k \in Keys \ {ItemKey(d)} : rows'[k] = rows[k]
<1>1. ItemKey(d) \in Keys
  BY ItemKeyType DEF TypeOK
<1>2. PICK n \in FiredIds(ItemKey(d)) :
        rows' = [rows EXCEPT ![ItemKey(d)] = [id |-> n, status |-> "active", until |-> 0]]
  BY DEF RecordFired
<1>3. rows'[ItemKey(d)] = [id |-> n, status |-> "active", until |-> 0]
  BY <1>1, <1>2 DEF TypeOK
<1>4. \A k \in Keys \ {ItemKey(d)} : rows'[k] = rows[k]
  BY <1>1, <1>2 DEF TypeOK
<1>5. ASSUME Present(ItemKey(d)) PROVE n = rows[ItemKey(d)].id
  BY <1>2, <1>5 DEF FiredIds
<1>6. QED
  BY <1>1, <1>3, <1>4, <1>5

-----------------------------------------------------------------------------
\* Recording a firing only adds to the active ids.
LEMMA RecordFiredActive ==
  ASSUME TypeOK, NEW t \in Ticks, NEW d \in todo[t], RecordFired(t, d)
  PROVE  ActiveIds \subseteq ActiveIds'
<1> SUFFICES ASSUME NEW k \in Keys, rows[k].status = "active"
             PROVE  rows'[k].status = "active" /\ rows'[k].id = rows[k].id
  BY DEF ActiveIds
<1>1. QED
  BY RecordFiredRows DEF Present

\* The GTK thread alone takes cards away or makes rows inactive, and it never
\* listens to clicks between the two.
THEOREM DialogIsSound == Spec => []DialogShowsOnlyActive
<1>1. Init => DialogShowsOnlyActive
  BY DEF Init, DialogShowsOnlyActive
<1>2. TypeOK /\ DialogShowsOnlyActive /\ [Next]_vars => DialogShowsOnlyActive'
  <2> SUFFICES ASSUME TypeOK, DialogShowsOnlyActive, [Next]_vars
               PROVE  DialogShowsOnlyActive'
    OBVIOUS
  <2>1. ASSUME NEW t \in Ticks, NEW d \in todo[t], RecordFired(t, d)
        PROVE  DialogShowsOnlyActive'
    BY <2>1, RecordFiredActive DEF DialogShowsOnlyActive, RecordFired, uiVars, shownVars
  <2>2. CASE HandleMsg
    BY <2>2 DEF DialogShowsOnlyActive, HandleMsg
  <2>3. CASE RefreshOverlay \/ RefreshFails
    BY <2>3 DEF DialogShowsOnlyActive, RefreshOverlay, RefreshFails, ActiveIds
  <2>4. CASE rows' = rows /\ ~RefreshOverlay /\ ~RefreshFails
    <3>1. ui' = "idle" => ui = "idle" /\ cards' = cards
      BY <2>4 DEF vars, uiVars, shownVars, Next, Tick, TickStart, TickStartDefaults, TickQuery, TickQueryFails, TickFinish,
         RecordFired, RecordFails, Notify, Gtk, HandleCheckFinished, HandleMsg, HandleMsgFails, Click,
         Environment, EditEvent, SetVisible, SaveSettings, Advance, Stop, Launch
    <3>2. QED
      BY <2>4, <3>1 DEF DialogShowsOnlyActive, ActiveIds
  <2>5. QED
    BY <2>1, <2>2, <2>3, <2>4, RowsChange
<1>3. QED
  BY <1>1, <1>2, TypeCorrect, PTL DEF Spec

\* No wake-up is lost: whatever makes a row active owes a rebuild of the
\* dialog, and only a rebuild settles it.
THEOREM NoReminderIsSilent == Spec => []NoSilentReminder
<1>1. Init => NoSilentReminder
  BY DEF Init, NoSilentReminder
<1>2. TypeOK /\ NoSilentReminder /\ [Next]_vars => NoSilentReminder'
  <2> SUFFICES ASSUME TypeOK, NoSilentReminder, [Next]_vars, ui' = "idle",
                      \A t \in Ticks : ~InFlight(t)'
               PROVE  ActiveIds' \subseteq cards' \/ rebuild' = "failed"
    BY DEF NoSilentReminder, TypeOK
  <2>1. CASE RefreshOverlay \/ RefreshFails
    BY <2>1 DEF RefreshOverlay, RefreshFails, ActiveIds
  <2>2. CASE ~RefreshOverlay /\ ~RefreshFails
    <3>1. ~HandleMsg /\ ui = "idle" /\ cards' = cards /\ rebuild' = rebuild
      BY <2>2 DEF vars, uiVars, shownVars, Next, Tick, TickStart, TickStartDefaults, TickQuery, TickQueryFails, TickFinish,
         RecordFired, RecordFails, Notify, Gtk, HandleCheckFinished, HandleMsg, HandleMsgFails, Click,
         Environment, EditEvent, SetVisible, SaveSettings, Advance, Stop, Launch
    <3>2. \A t \in Ticks : InFlight(t) => InFlight(t)'
      <4> SUFFICES ASSUME NEW t \in Ticks, InFlight(t)
                   PROVE  InFlight(t)'
        OBVIOUS
      <4>1. pc'[t] = pc[t] \/ pc'[t] \in {"record", "notify", "done"}
        BY <2>2, <3>1 DEF InFlight, TypeOK, vars, uiVars, shownVars, tickVars, Next, Tick, TickStart, TickStartDefaults, TickQuery,
           TickQueryFails, TickFinish, RecordFired, RecordFails, Notify, Gtk, HandleCheckFinished,
           HandleMsgFails, Click, Environment, EditEvent, SetVisible, SaveSettings, Advance, Stop, Launch
      <4>2. QED
        BY <4>1 DEF InFlight
    <3>3. \A t \in Ticks : ~InFlight(t)
      BY <3>2
    <3>4. rows' = rows
      <4>1. ASSUME NEW t \in Ticks, NEW d \in todo[t], RecordFired(t, d)
            PROVE  FALSE
        BY <3>3, <4>1 DEF RecordFired, InFlight
      <4>2. QED
        BY <3>1, <4>1, RowsChange
    <3>5. QED
      BY <3>1, <3>3, <3>4 DEF NoSilentReminder, ActiveIds
  <2>3. QED
    BY <2>1, <2>2
<1>3. QED
  BY <1>1, <1>2, TypeCorrect, PTL DEF Spec

=============================================================================
