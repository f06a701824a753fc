------------------------------ MODULE Settings ------------------------------
(***************************************************************************)
(* The settings of Calendarchy: one JSON blob in one row (core/src/        *)
(* settings.rs) that is always read and written whole, and everything in   *)
(* the program that changes a field of it: the preferences window with the *)
(* copy it loaded when it opened, the savers of pane widths with their     *)
(* timers, the notification popup, the view switcher, and the shutdown     *)
(* (app/src/main.rs, app/src/notifications.rs).                            *)
(*                                                                         *)
(* Handlers run on the GTK thread one after the other.  Each write of a    *)
(* field by the user gives it a value it never had before.                 *)
(***************************************************************************)
EXTENDS Integers, Sequences, FiniteSets, SequencesExt

CONSTANTS
  ZoneChoices, \* DISPLAY_TIMEZONE_CHOICES, the zones of the world clock
  FormRows,    \* entry rows of the add-calendar forms
  MinWidth, MaxWidth, \* limits of a pane
  MaxZones,    \* bound: zones in the world clock
  MaxWindows,  \* bound: preferences windows one above the other
  Limit,       \* bound: writes, openings, moves, typing, launches and faults
  Total        \* bound: all of these

Budgets == {"write", "open", "move", "type", "launch", "fault"}

ASSUME SettingsAssumption ==
  /\ MinWidth \in Nat /\ MaxWidth \in Nat /\ MinWidth <= MaxWidth
  /\ MaxZones \in Nat /\ MaxWindows \in Nat
  /\ Limit \in [Budgets -> Nat] /\ Total \in Nat
  /\ ZoneChoices \in Seq(ToSet(ZoneChoices)) /\ ZoneChoices # <<>>

Panes == {"sidebar", "dock"}

\* "weekends" stands for what both the preferences window and the window below
\* can change (view switcher, day zoom, table header, editor docking), "theme"
\* for what only the preferences window changes, "primary" and "secondary" for
\* the time zones with their labels.
Fields == Panes \cup {"position", "lastView", "weekends", "theme", "primary", "secondary", "zones"}
Versions == Fields \ (Panes \cup {"zones"})

Widths == MinWidth - 1..MaxWidth + 1
Zones == ToSet(ZoneChoices)

IsBlob(b) ==
  /\ DOMAIN b = Fields
  /\ \A p \in Panes : b[p] \in MinWidth..MaxWidth
  /\ \A f \in Versions : b[f] \in Nat
  /\ b["zones"] \in Seq(Zones)

\* AppSettings::default().  A pane without a saved width has one that is allowed.
Default == [f \in Fields |-> IF f \in Panes THEN MinWidth ELSE IF f = "zones" THEN <<>> ELSE 0]

NoTimer == -1

VARIABLES
  running,
  blob,      \* app_settings
  stack,     \* the open preferences windows, the last one on top: the copy each
             \* holds, its search text, filled form rows, can-close, and whether
             \* it asks "Discard unsaved changes?"; ghost: the fields changed
             \* elsewhere since its copy was loaded
  shown,     \* the width each pane has
  suppress,  \* suppress_position_save
  restored,  \* the sidebar got its saved width
  docked,    \* the dock is visible
  timer,     \* the width each pending debounced save will write
  intent,    \* ghost: what the user last made of each field
  excused,   \* ghost: fields lost to a fault, a stale copy or an early end
  spent

panes == <<shown, suppress, restored, docked, timer>>
vars == <<running, blob, stack, panes, intent, excused, spent>>

InBudget(b) == spent[b] < Limit[b] /\ MapThenSumSet(LAMBDA x : spent[x], Budgets) < Total
Spend(b) == InBudget(b) /\ spent' = [spent EXCEPT ![b] = @ + 1]

\* Each write and each load can fail, which costs a fault.
Faults == {n \in {0, 1} : spent["fault"] + n <= Limit["fault"]}
Fails(n) == spent' = [spent EXCEPT !["fault"] = @ + n]
SpendAnd(b, n) == InBudget(b) /\ spent' = [spent EXCEPT ![b] = @ + 1, !["fault"] = @ + n]

Top == stack[Len(stack)]
OnTop == running /\ stack # <<>> /\ ~Top.asking
Below == running /\ stack = <<>>
Put(w) == stack' = [stack EXCEPT ![Len(stack)] = w]

-----------------------------------------------------------------------------
(* Writing.                                                                *)

\* What the copies of the windows ws lack: ghost.
Changed == {f \in Fields : blob'[f] # blob[f] \/ intent'[f] # intent[f]}
Aged(ws) == [i \in DOMAIN ws |-> [ws[i] EXCEPT !.since = @ \cup Changed]]

\* What the user wants of a field, and the fields that a step may lose: ghosts.
\* A field is excused until it is saved as the user wants it, with no timer left
\* that would still save something else.
Wants(f, v) == intent' = [intent EXCEPT ![f] = v]
Settled(f) == blob[f] = intent[f] /\ (f \in Panes => timer[f] = NoTimer)
MayLose(n, fields) ==
  excused' = {f \in excused \cup fields \cup (IF n = 1 THEN Fields ELSE {}) : ~Settled(f)'}

\* load_settings(..).unwrap_or_default(), the assignment, save_settings: all
\* well, or not saved, or not loaded.
\* Mutant: nothing is loaded.
WriteFresh_Blind(f, v, n) == blob' = IF n = 0 THEN [Default EXCEPT ![f] = v] ELSE blob
WriteFresh(f, v, n) ==
  blob' \in IF n = 0 THEN {[blob EXCEPT ![f] = v]} ELSE {blob, [Default EXCEPT ![f] = v]}

\* A field of the copy that the window on top holds, and all of it is saved.
WriteThrough(f, v, n) ==
  LET w == [Top EXCEPT !.copy[f] = v, !.since = IF n = 0 THEN {} ELSE @]
  IN /\ blob' = IF n = 0 THEN w.copy ELSE blob
     /\ stack' = Append(Aged(Front(stack)), w)

\* The program ends: windows and timers are gone.
Pending == {p \in Panes : timer[p] # NoTimer}
Leave == running' = FALSE /\ stack' = <<>> /\ timer' = [p \in Panes |-> NoTimer]

NewVersion(f) == intent[f] + 1

-----------------------------------------------------------------------------
(* The panes.                                                              *)

\* Mutant: as wide as it was dragged.
Clamped_Raw(width) == width
Clamped(width) ==
  IF width < MinWidth THEN MinWidth ELSE IF width > MaxWidth THEN MaxWidth ELSE width

\* notify::position of the sidebar, or of a dock that is visible: a width out of
\* range is corrected, which comes back here; then a save in 350 ms replaces the
\* one that is pending.
Resized(p, width) ==
  /\ shown' = [shown EXCEPT ![p] = Clamped(width)]
  /\ timer' = [timer EXCEPT ![p] = Clamped(width)]

\* The user drags a handle, or makes the window larger or smaller.  The move that
\* the restored sidebar's flag is waiting for is swallowed.
MovePane(p, width) ==
  /\ running /\ (p = "sidebar" => stack = <<>>) /\ (p = "dock" => docked)
  /\ width # shown[p]
  /\ Spend("move")
  /\ IF p = "sidebar" /\ suppress
     THEN suppress' = FALSE /\ shown' = [shown EXCEPT ![p] = width] /\ UNCHANGED timer
     ELSE Resized(p, width) /\ UNCHANGED suppress
  /\ Wants(p, shown'[p])
  /\ excused' = IF suppress' # suppress THEN excused \cup {p} ELSE excused
  /\ UNCHANGED <<running, blob, stack, restored, docked>>

\* What is behind the hidden dock moves.
MoveHidden(width) ==
  /\ running /\ ~docked /\ width # shown["dock"] /\ Spend("move")
  /\ shown' = [shown EXCEPT !["dock"] = width]
  /\ UNCHANGED <<running, blob, stack, suppress, restored, docked, timer, intent, excused>>

\* 350 ms after the last move.
TimerFires(p) ==
  /\ running /\ timer[p] # NoTimer
  /\ timer' = [timer EXCEPT ![p] = NoTimer]
  /\ UNCHANGED <<running, shown, suppress, restored, docked, intent>>
  /\ \E n \in Faults : Fails(n) /\ WriteFresh(p, timer[p], n) /\ MayLose(n, {})
  /\ stack' = Aged(stack)

\* Once the window has a size, the sidebar gets the width it had; a Paned tells
\* of no change when it has that width already, and then the flag stays.
\* Mutant: the flag is not set.
SetSidebar_Unsuppressed(width) == Resized("sidebar", width) /\ UNCHANGED suppress
SetSidebar(width) ==
  /\ shown' = [shown EXCEPT !["sidebar"] = Clamped(width)]
  /\ suppress' = (shown["sidebar"] = Clamped(width))
  /\ UNCHANGED timer
RestoreSidebar(width) ==
  /\ running /\ ~restored
  /\ restored' = TRUE
  /\ SetSidebar(width)
  /\ UNCHANGED <<running, blob, stack, docked, intent, excused, spent>>

\* The event editor is docked, or closed.
Dock ==
  /\ Below /\ docked' = ~docked
  /\ UNCHANGED <<running, blob, stack, shown, suppress, restored, timer, intent, excused, spent>>

-----------------------------------------------------------------------------
(* The window below, and the popup.                                        *)

\* View switcher, zoom, table header: not while a dialog covers them.
ToggleBelow ==
  /\ Below
  /\ UNCHANGED <<running, stack, panes>>
  /\ Wants("weekends", NewVersion("weekends"))
  /\ \E n \in Faults :
       SpendAnd("write", n) /\ WriteFresh("weekends", NewVersion("weekends"), n) /\ MayLose(n, {})

\* drag-end of the notification popup, a window of its own.
DragPopup ==
  /\ running
  /\ UNCHANGED <<running, panes>>
  /\ Wants("position", NewVersion("position"))
  /\ \E n \in Faults :
       SpendAnd("write", n) /\ WriteFresh("position", NewVersion("position"), n) /\ MayLose(n, {})
  /\ stack' = Aged(stack)

-----------------------------------------------------------------------------
(* The preferences window.                                                 *)

NewWindow(copy, since) ==
  [copy |-> copy, search |-> FALSE, forms |-> {}, canClose |-> TRUE, asking |-> FALSE,
   since |-> since]

\* The menu, or Ctrl+comma: that works over an open one too.  What cannot be
\* loaded is as by default.
OpenPreferences ==
  /\ running /\ Len(stack) < MaxWindows
  /\ \E n \in Faults :
       /\ SpendAnd("open", n)
       /\ stack' = Append(stack, IF n = 0 THEN NewWindow(blob, {}) ELSE NewWindow(Default, Fields))
  /\ UNCHANGED <<running, blob, panes, intent, excused>>

\* A row of the window.
ChangeSetting(f) ==
  /\ OnTop
  /\ UNCHANGED <<running, panes>>
  /\ Wants(f, NewVersion(f))
  /\ \E n \in Faults :
       SpendAnd("write", n) /\ WriteThrough(f, NewVersion(f), n) /\ MayLose(n, Top.since)

\* The swap button takes a mutable borrow to swap the copy's time zones, then a
\* shared one while it sets the rows: a row that changes runs its handler, which
\* borrows to write, and the process ends.  Equal zones are just saved.
Swap ==
  /\ OnTop
  /\ LET w == Top
     IN IF w.copy["primary"] = w.copy["secondary"]
        THEN /\ UNCHANGED <<running, panes, intent>>
             /\ \E n \in Faults :
                  SpendAnd("write", n) /\ WriteThrough("primary", w.copy["primary"], n) /\ MayLose(n, w.since)
        ELSE /\ Spend("write")
             /\ UNCHANGED <<blob, shown, suppress, restored, docked, intent>>
             /\ Leave
             /\ MayLose(0, Pending)

\* A zone dropped on the row of another one, before or after it.
\* Mutant: the place is not corrected for the row that was taken out.
MoveZone_NoShift(zones, source, target, after) ==
  LET at == IF after THEN target + 1 ELSE target
  IN IF at = source \/ at > Len(zones) THEN zones
     ELSE InsertAt(RemoveAt(zones, source), at, zones[source])
MoveZone(zones, source, target, after) ==
  LET gap == IF after THEN target + 1 ELSE target
      at == IF source < gap THEN gap - 1 ELSE gap
  IN IF at = source THEN zones ELSE InsertAt(RemoveAt(zones, source), at, zones[source])

\* "Add time zone": the first one that is not there, or the first of all.
NextZone(zones) ==
  {ZoneChoices[i] : i \in {i \in DOMAIN ZoneChoices :
     \/ /\ ZoneChoices[i] \notin ToSet(zones)
        /\ \A j \in 1..i - 1 : ZoneChoices[j] \in ToSet(zones)
     \/ i = 1 /\ Zones \subseteq ToSet(zones)}}

ClockChanges(zones) ==
  {zs \in {Append(zones, z) : z \in NextZone(zones)} : Len(zs) <= MaxZones}
    \cup {RemoveAt(zones, i) : i \in DOMAIN zones}
    \cup {[zones EXCEPT ![i] = z] : i \in DOMAIN zones, z \in Zones}
    \cup {MoveZone(zones, i, j, after) : i \in DOMAIN zones, j \in DOMAIN zones, after \in BOOLEAN}

ChangeClock ==
  /\ OnTop
  /\ UNCHANGED <<running, panes>>
  /\ \E zones \in ClockChanges(Top.copy["zones"]) \ {Top.copy["zones"]} :
       /\ Wants("zones", zones)
       /\ \E n \in Faults :
            SpendAnd("write", n) /\ WriteThrough("zones", zones, n) /\ MayLose(n, Top.since)

\* Mutant: the row that was typed in says whether the window can close.
TypeForm_ThisRowOnly(row) ==
  LET forms == IF row \in Top.forms THEN Top.forms \ {row} ELSE Top.forms \cup {row}
  IN Put([Top EXCEPT !.forms = forms, !.canClose = (row \notin forms)])
\* A row of a form is filled, or emptied: the window can close while all are empty.
TypeForm(row) ==
  LET forms == IF row \in Top.forms THEN Top.forms \ {row} ELSE Top.forms \cup {row}
  IN Put([Top EXCEPT !.forms = forms, !.canClose = (forms = {})])

Type ==
  /\ OnTop /\ Spend("type")
  /\ (\E row \in FormRows : TypeForm(row)) \/ Put([Top EXCEPT !.search = ~@])
  /\ UNCHANGED <<running, blob, panes, intent, excused>>

\* Dialog::close: can-close, or close-attempt asks.
Attempt(i) ==
  IF stack[i].canClose THEN stack' = RemoveAt(stack, i)
  ELSE stack' = [stack EXCEPT ![i].asking = TRUE]

CloseWindow ==
  /\ OnTop
  /\ Attempt(Len(stack))
  /\ UNCHANGED <<running, blob, panes, intent, excused, spent>>

\* Escape is a shortcut of global scope, of every open window: it empties the
\* search, and closes a window whose search is empty.
Escape ==
  /\ OnTop
  /\ \E i \in DOMAIN stack :
       IF stack[i].search THEN stack' = [stack EXCEPT ![i].search = FALSE] ELSE Attempt(i)
  /\ UNCHANGED <<running, blob, panes, intent, excused, spent>>

Answer ==
  /\ running
  /\ \E i \in DOMAIN stack :
       /\ stack[i].asking
       /\ \/ stack' = [stack EXCEPT ![i].asking = FALSE]
          \/ stack' = RemoveAt(stack, i)
  /\ UNCHANGED <<running, blob, panes, intent, excused, spent>>

-----------------------------------------------------------------------------
(* Closing and opening the program.                                        *)

\* The view is saved; pending timers are not run.
Shutdown ==
  /\ running
  /\ Leave
  /\ Wants("lastView", NewVersion("lastView"))
  /\ \E n \in Faults :
       Fails(n) /\ WriteFresh("lastView", NewVersion("lastView"), n) /\ MayLose(n, Pending)
  /\ UNCHANGED <<shown, suppress, restored, docked>>

Launch ==
  /\ ~running /\ running' = TRUE /\ Spend("launch")
  /\ shown' = [p \in Panes |-> MinWidth]
  /\ suppress' = FALSE /\ restored' = FALSE /\ docked' = FALSE
  /\ UNCHANGED <<blob, stack, timer, intent, excused>>

Init ==
  /\ running = TRUE
  /\ blob = Default /\ intent = Default
  /\ stack = <<>> /\ excused = {}
  /\ shown = [p \in Panes |-> MinWidth] /\ timer = [p \in Panes |-> NoTimer]
  /\ suppress = FALSE /\ restored = FALSE /\ docked = FALSE
  /\ spent = [b \in Budgets |-> 0]

Next ==
  \/ \E p \in Panes, width \in Widths : MovePane(p, width)
  \/ \E width \in Widths : MoveHidden(width) \/ RestoreSidebar(width)
  \/ \E p \in Panes : TimerFires(p)
  \/ Dock
  \/ ToggleBelow
  \/ DragPopup
  \/ OpenPreferences
  \/ \E f \in {"theme", "weekends", "position", "primary"} : ChangeSetting(f)
  \/ Swap
  \/ ChangeClock
  \/ Type
  \/ CloseWindow
  \/ Escape
  \/ Answer
  \/ Shutdown
  \/ Launch

Spec == Init /\ [][Next]_vars

-----------------------------------------------------------------------------
(* Properties.                                                             *)

\* Type correctness: what is saved is always in range, pane widths above all,
\* whatever the user drags and whatever copy is saved.
TypeOK ==
  /\ IsBlob(blob) /\ IsBlob([intent EXCEPT !["sidebar"] = blob["sidebar"]])
  /\ \A i \in DOMAIN stack :
       /\ IsBlob(stack[i].copy)
       /\ stack[i].forms \subseteq FormRows /\ stack[i].since \subseteq Fields
       /\ {stack[i].search, stack[i].canClose, stack[i].asking} \subseteq BOOLEAN
  /\ shown \in [Panes -> Widths] /\ timer \in [Panes -> (MinWidth..MaxWidth) \cup {NoTimer}]
  /\ {running, suppress, restored, docked} \subseteq BOOLEAN
  /\ excused \subseteq Fields
  /\ spent \in [Budgets -> Nat]

\* What the user last made of a field is saved, or its timer is about to save it:
\* a sequence of dialogs, drags, toggles, launches and failures loses a field only
\* by a read or write that failed, by a window that saves a copy older than a
\* change, by an end within 350 ms of a drag, or by a drag of a sidebar that
\* was restored to the width it had.
OnlyExcusedLost ==
  \A f \in Fields : blob[f] # intent[f] => f \in excused \/ (f \in Panes /\ timer[f] # NoTimer)

\* The window asks before typed text is lost, however it is closed: only an
\* answer removes a window whose forms have text.
TextKept ==
  [][\A i \in DOMAIN stack :
       running' /\ stack' = RemoveAt(stack, i) => stack[i].forms = {} \/ stack[i].asking]_vars

\* Row i, dropped on row j: it lies next to it, on the side that was lit, and the others
\* keep their order.
DropsBeside(rows, i, j, after) ==
  LET moved == MoveZone(rows, i, j, after)
      at == CHOOSE k \in DOMAIN moved : moved[k] = i
      beside == IF after THEN at - 1 ELSE at + 1
  IN /\ RemoveAt(moved, at) = RemoveAt(rows, i)
     /\ i # j => beside \in DOMAIN moved /\ moved[beside] = j

\* Wherever a zone is dropped, it comes to lie next to the row it was dropped on,
\* on the side that was lit, and the others keep their order.
ZoneLands ==
  \A i, j \in DOMAIN blob["zones"], after \in BOOLEAN :
    DropsBeside([k \in DOMAIN blob["zones"] |-> k], i, j, after)

=============================================================================
