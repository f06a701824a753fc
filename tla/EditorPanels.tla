---------------------------- MODULE EditorPanels ----------------------------
(***************************************************************************)
(* The panels the event editor lives in: crates/app/src/main.rs.  A panel  *)
(* is built each time an event is opened, is shown floating over the       *)
(* calendar or in one of two docks, and is dragged between the three by    *)
(* one gesture that belongs to the window and outlives it.  The calendar   *)
(* stays usable around a panel, so a second event can be opened while one  *)
(* is being edited: nothing closes the first.                              *)
(*                                                                         *)
(* What the panel shows is in EventForm.  Sizes and pixel positions are    *)
(* left out: where the pointer is decides only which of the three modes a  *)
(* drag is about to end in.                                                *)
(***************************************************************************)
CONSTANTS
    Panels,         \* the panels built, one each time an event is opened
    Drafts,         \* those of them that edit an event not saved yet
    NoPanel

ASSUME PanelsAssumption == Drafts \subseteq Panels /\ NoPanel \notin Panels

Docks == {"Right", "Bottom"}
Modes == {"Floating"} \cup Docks
NoDrag == [panel |-> NoPanel, pending |-> "Floating", applied |-> "Floating"]

VARIABLES
    parent,         \* where each panel hangs: "unbuilt", a mode's container, "none"
    shown,          \* the dock slots that are visible
    margins,        \* the mode update_dock_margins was last called with
    mode,           \* OpenEditorPanel.mode of each panel
    layout,         \* the mode its rows are arranged for
    current,        \* EditorDocks.current_panel
    dirty,          \* the panels with edits nobody saved
    asking,         \* the panel behind "Discard unsaved changes?"
    drag,           \* active_panel, pending_mode and applied_layout
    popOuts,        \* idle callbacks queued to float a panel dragged off a dock
    savedMode,      \* AppSettings.event_editor_panel_mode
    tangled         \* history: a second panel was opened over an open one, or
                    \* a panel was closed in a drag or before its callback

vars == <<parent, shown, margins, mode, layout, current, dirty, asking, drag,
          popOuts, savedMode, tangled>>

(* Containers, and what attaching does to them *)

Open == {p \in Panels : parent[p] \in Modes}

\* Whether a panel is on the screen: a floating one is, a docked one with its slot.
OnScreen(p) == parent[p] = "Floating" \/ parent[p] \in shown

\* Mutant: docking leaves the other dock's slot as it is.
Attach_KeepsOther(p, m) ==
    /\ parent' = [parent EXCEPT ![p] = m]
    /\ shown' = IF m = "Floating" THEN {} ELSE shown \cup {m}
    /\ margins' = m

\* Every attach takes the panel out of its old container, hides the slots of
\* the other modes and sets the margins for this one.
Attach(p, m) ==
    /\ parent' = [parent EXCEPT ![p] = m]
    /\ shown' = IF m = "Floating" THEN {} ELSE {m}
    /\ margins' = m

Relayout(p, m) == layout' = [layout EXCEPT ![p] = m]

\* Mutant: the drag gesture is not told that the panel is gone.
Close_KeepsCurrent(p) ==
    /\ parent' = [parent EXCEPT ![p] = "none"]
    /\ shown' = {}
    /\ margins' = "Floating"
    /\ tangled' = (tangled \/ drag.panel = p \/ p \in popOuts)
    /\ UNCHANGED <<current, mode, layout, drag, popOuts, savedMode>>

\* close_panel hides both slots and forgets the current panel, whichever
\* panel it was called for.
Close(p) ==
    /\ parent' = [parent EXCEPT ![p] = "none"]
    /\ shown' = {}
    /\ margins' = "Floating"
    /\ current' = NoPanel
    /\ tangled' = (tangled \/ drag.panel = p \/ p \in popOuts)
    /\ UNCHANGED <<mode, layout, drag, popOuts, savedMode>>

Init ==
    /\ parent = [p \in Panels |-> "unbuilt"]
    /\ shown = {}
    /\ margins = "Floating"
    /\ mode = [p \in Panels |-> "Floating"]
    /\ layout = [p \in Panels |-> "Floating"]
    /\ current = NoPanel
    /\ dirty = {}
    /\ asking = NoPanel
    /\ drag = NoDrag
    /\ popOuts = {}
    /\ savedMode \in Modes
    /\ tangled = FALSE

(* Opening, editing, closing *)

\* Mutant: the new panel is attached without telling the drag gesture of it.
OpenPanel_NotCurrent(p) ==
    /\ parent[p] = "unbuilt"
    /\ mode' = [mode EXCEPT ![p] = savedMode]
    /\ Attach(p, savedMode)
    /\ Relayout(p, savedMode)
    /\ tangled' = (tangled \/ Open # {})
    /\ UNCHANGED <<current, dirty, asking, drag, popOuts, savedMode>>

\* show_edit_event_dialog, from Create, a double click, the popover's Edit or
\* a drag over the empty grid: the new panel takes the saved mode and becomes
\* the current one, whatever the current one was.
OpenPanel(p) ==
    /\ parent[p] = "unbuilt"
    /\ mode' = [mode EXCEPT ![p] = savedMode]
    /\ Attach(p, savedMode)
    /\ Relayout(p, savedMode)
    /\ current' = p
    /\ tangled' = (tangled \/ Open # {})
    /\ UNCHANGED <<dirty, asking, drag, popOuts, savedMode>>

\* A field of a panel on the screen, or the preview in the grid of the current
\* draft, which writes through to its fields.
Edit(p) ==
    /\ asking = NoPanel
    /\ \/ p \in Open /\ OnScreen(p)
       \/ p = current /\ p \in Drafts
    /\ dirty' = dirty \cup {p}
    /\ UNCHANGED <<parent, shown, margins, mode, layout, current, asking, drag,
                   popOuts, savedMode, tangled>>

\* The close button or Escape: confirm_close.  Each panel hears Escape wherever
\* it hangs in the window, so a panel in a hidden slot may be the one asked.
RequestClose(p) ==
    /\ asking = NoPanel
    /\ p \in Open
    /\ IF p \in dirty
       THEN /\ asking' = p
            /\ UNCHANGED <<parent, shown, margins, mode, layout, current, drag,
                           popOuts, savedMode, tangled>>
       ELSE Close(p) /\ UNCHANGED asking
    /\ UNCHANGED dirty

KeepEditing ==
    /\ asking # NoPanel
    /\ asking' = NoPanel
    /\ UNCHANGED <<parent, shown, margins, mode, layout, current, dirty, drag,
                   popOuts, savedMode, tangled>>

Discard ==
    /\ asking # NoPanel
    /\ Close(asking)
    /\ asking' = NoPanel
    /\ dirty' = dirty \ {asking}

\* Save closes the panel whether the store took the edits or not, and
\* without asking; so does Delete before it asks its own question.
Resolve(p) ==
    /\ asking = NoPanel
    /\ p \in Open /\ OnScreen(p)
    /\ Close(p)
    /\ dirty' = dirty \ {p}
    /\ UNCHANGED asking

\* Duplicate and Copy to another calendar store the event as it was loaded,
\* and close the panel only if that worked; a draft has nothing to copy.
CopyLoaded(p) ==
    /\ p \notin Drafts
    /\ Resolve(p)

(* The one drag gesture *)

\* A press inside the titlebar of the current panel, as the panel last was on
\* the screen: a hidden one still has its bounds.
DragBegin ==
    /\ asking = NoPanel
    /\ drag.panel = NoPanel
    /\ current \in Open
    /\ drag' = [panel |-> current, pending |-> mode[current], applied |-> mode[current]]
    /\ UNCHANGED <<parent, shown, margins, mode, layout, current, dirty, asking,
                   popOuts, savedMode, tangled>>

\* The first motion of a docked panel marks it floating at once and leaves the
\* reparenting to an idle callback.
PullOff ==
    LET p == drag.panel IN
    /\ p # NoPanel
    /\ mode[p] # "Floating"
    /\ mode' = [mode EXCEPT ![p] = "Floating"]
    /\ drag' = [drag EXCEPT !.pending = "Floating", !.applied = "Floating"]
    /\ popOuts' = popOuts \cup {p}
    /\ UNCHANGED <<parent, shown, margins, layout, current, dirty, asking,
                   savedMode, tangled>>

\* Any later motion: the edge the pointer is near decides the mode to be, and
\* the rows are arranged anew only when that changes.
Motion(m) ==
    LET p == drag.panel IN
    /\ p # NoPanel
    /\ mode[p] = "Floating"
    /\ drag' = [drag EXCEPT !.pending = m, !.applied = m]
    /\ IF m # drag.applied THEN Relayout(p, m) ELSE UNCHANGED layout
    /\ UNCHANGED <<parent, shown, margins, mode, current, dirty, asking, popOuts,
                   savedMode, tangled>>

\* Mutant: the callback does not look whether the drag has ended.
PopOut_Always(p) ==
    /\ p \in popOuts
    /\ popOuts' = popOuts \ {p}
    /\ Attach(p, "Floating") /\ Relayout(p, "Floating")
    /\ UNCHANGED <<mode, current, dirty, asking, drag, savedMode, tangled>>

\* The idle callback floats the panel it was queued for, if any drag is on.
PopOut(p) ==
    /\ p \in popOuts
    /\ popOuts' = popOuts \ {p}
    /\ IF drag.panel # NoPanel
       THEN Attach(p, "Floating") /\ Relayout(p, "Floating")
       ELSE UNCHANGED <<parent, shown, margins, layout>>
    /\ UNCHANGED <<mode, current, dirty, asking, drag, savedMode, tangled>>

\* The release reparents the panel held since the press, open or not, and
\* saves the mode; a save that fails is only logged.
DragEnd ==
    LET p == drag.panel IN
    /\ p # NoPanel
    /\ mode' = [mode EXCEPT ![p] = drag.pending]
    /\ Attach(p, drag.pending)
    /\ Relayout(p, drag.pending)
    /\ drag' = NoDrag
    /\ savedMode' \in {savedMode, drag.pending}
    /\ UNCHANGED <<current, dirty, asking, popOuts, tangled>>

Next ==
    \/ \E p \in Panels : OpenPanel(p)
    \/ \E p \in Panels : Edit(p)
    \/ \E p \in Panels : RequestClose(p)
    \/ KeepEditing
    \/ Discard
    \/ \E p \in Panels : Resolve(p)
    \/ \E p \in Panels : CopyLoaded(p)
    \/ DragBegin
    \/ PullOff
    \/ \E m \in Modes : Motion(m)
    \/ \E p \in Panels : PopOut(p)
    \/ DragEnd

Spec == Init /\ [][Next]_vars

-----------------------------------------------------------------------------
(* Properties *)

\* The state is well typed, a panel that is being asked about is one with
\* edits, and the current panel is one that was built.
TypeOK ==
    /\ parent \in [Panels -> Modes \cup {"unbuilt", "none"}]
    /\ shown \in SUBSET Docks
    /\ margins \in Modes /\ savedMode \in Modes
    /\ mode \in [Panels -> Modes] /\ layout \in [Panels -> Modes]
    /\ current \in Panels \cup {NoPanel}
    /\ dirty \in SUBSET Panels
    /\ asking \in dirty \cup {NoPanel}
    /\ drag \in [panel : Panels \cup {NoPanel}, pending : Modes, applied : Modes]
    /\ popOuts \in SUBSET Panels
    /\ tangled \in BOOLEAN
    /\ current # NoPanel => current \in Open

\* A dock is shown for a panel that is in it, never both docks at once, and
\* the calendar gives up its margin towards that dock and no other: whatever
\* panels are opened, closed and dragged, no empty dock and no doubled or
\* missing gap stays behind (update_dock_margins, the three attaches,
\* close_panel).
DockShown ==
    /\ \A s, t \in shown : s = t
    /\ \A s \in shown : \E p \in Panels : parent[p] = s
    /\ margins # "Floating" <=> margins \in shown

\* With one editor at a time: outside a drag, the panel hangs in the container
\* of the mode it is marked with and its rows are arranged for that mode,
\* whether the callback of an earlier drag has run or is still to come.  (Two
\* panels can break this: the callback of one runs under a drag of the other.)
Settled ==
    ~tangled /\ drag.panel = NoPanel =>
        \A p \in Open : mode[p] = parent[p] /\ layout[p] = parent[p]

\* With one editor at a time, closed only while it is not being dragged, an
\* open editor is on the screen and is the one the drag gesture and the
\* preview in the grid know of, at every moment of a drag.
EditorReachable ==
    ~tangled => \A p \in Open : OnScreen(p) /\ current = p
=============================================================================
