------------------------- MODULE EditorPanelsProofs -------------------------
(***************************************************************************)
(* The invariants of EditorPanels, for any number of panels.               *)
(*                                                                         *)
(* DockShown holds of every run.  Settled and EditorReachable speak of one *)
(* editor at a time, and are not inductive: a drag marks a docked panel    *)
(* floating long before a callback reparents it, and the gesture and the   *)
(* callbacks hold on to panels of their own.  What makes them inductive is *)
(* Lone: as long as nothing is tangled, all of these hold the same panel,  *)
(* and it is the one that is open.                                         *)
(***************************************************************************)
EXTENDS EditorPanels, TLAPS

\* The panels somebody holds: the preview and the gesture, the drag, the callbacks.
Held == ({current, drag.panel} \cup popOuts) \ {NoPanel}

\* One editor at a time: it is on the screen, and it is the only one held.
Lone ==
    ~tangled =>
        /\ \A p \in Open : OnScreen(p) /\ current = p
        /\ Held \subseteq Open
        /\ drag.panel = NoPanel => \A p \in Open : mode[p] = parent[p] /\ layout[p] = parent[p]

\* Only an open panel is asked about.
AskedIsOpen == asking # NoPanel => asking \in Open

IInv == TypeOK /\ DockShown /\ AskedIsOpen /\ Lone

\* A mode is "Floating" or a dock; no container is "unbuilt" or "none".
LEMMA ModesFacts ==
    /\ Docks \subseteq Modes /\ "Floating" \in Modes /\ "Floating" \notin Docks
    /\ \A m \in Modes : m # "Floating" => m \in Docks
    /\ "unbuilt" \notin Modes /\ "none" \notin Modes
  BY DEF Modes, Docks

\* Attaching a panel leaves the docks in order, whatever hung in them, opens
\* that panel and shows it.
LEMMA AttachDoes ==
    ASSUME TypeOK, NEW p \in Panels, NEW m \in Modes, Attach(p, m)
    PROVE  /\ DockShown'
           /\ Open' = Open \cup {p}
           /\ OnScreen(p)' /\ parent'[p] = m
           /\ \A q \in Panels \ {p} : parent'[q] = parent[q]
           /\ parent' \in [Panels -> Modes \cup {"unbuilt", "none"}]
           /\ shown' \in SUBSET Docks /\ margins' \in Modes
<1>1. parent' = [parent EXCEPT ![p] = m] /\ parent \in [Panels -> Modes \cup {"unbuilt", "none"}]
  BY DEF Attach, TypeOK
<1>2. parent'[p] = m /\ \A q \in Panels \ {p} : parent'[q] = parent[q]
  BY <1>1
<1>3. shown' = (IF m = "Floating" THEN {} ELSE {m}) /\ margins' = m
  BY DEF Attach
<1>4. DockShown'
  BY <1>2, <1>3 DEF DockShown
<1>5. OnScreen(p)'
  BY <1>2, <1>3 DEF OnScreen
<1>6. Open' = Open \cup {p}
  BY <1>2 DEF Open
<1>7. QED
  BY <1>1, <1>2, <1>3, <1>4, <1>5, <1>6, ModesFacts

\* Closing a panel leaves no dock shown, and nobody on the current panel.
LEMMA CloseDoes ==
    ASSUME TypeOK, NEW p \in Open, Close(p)
    PROVE  /\ DockShown'
           /\ Open' = Open \ {p}
           /\ parent' \in [Panels -> Modes \cup {"unbuilt", "none"}]
           /\ shown' \in SUBSET Docks /\ margins' \in Modes
           /\ current' = NoPanel /\ tangled' \in BOOLEAN
<1>1. /\ parent' = [parent EXCEPT ![p] = "none"]
      /\ shown' = {} /\ margins' = "Floating" /\ current' = NoPanel
      /\ tangled' \in BOOLEAN
  BY DEF Close, TypeOK
<1>2. p \in Panels /\ parent \in [Panels -> Modes \cup {"unbuilt", "none"}]
  BY DEF Open, TypeOK
<1>3. parent'[p] = "none" /\ \A q \in Panels \ {p} : parent'[q] = parent[q]
  BY <1>1, <1>2
<1>4. Open' = Open \ {p}
  BY <1>3, ModesFacts DEF Open
<1>5. QED
  BY <1>1, <1>2, <1>4, ModesFacts DEF DockShown

\* What hangs where stays as it is in the steps of the fields and of the questions.
Hung == <<parent, shown, margins, mode, layout, current, drag, popOuts, tangled>>

LEMMA HungKept ==
    ASSUME DockShown, Lone, UNCHANGED Hung
    PROVE  DockShown' /\ Lone' /\ Open' = Open
<1>1. Open' = Open
  BY DEF Hung, Open
<1>2. QED
  BY <1>1 DEF Hung, DockShown, Lone, Held, OnScreen

LEMMA OpenPanelInv ==
    ASSUME IInv, NEW p \in Panels, OpenPanel(p)
    PROVE  IInv'
<1>1. /\ parent[p] = "unbuilt" /\ current' = p /\ tangled' = (tangled \/ Open # {})
      /\ UNCHANGED <<dirty, asking, drag, popOuts, savedMode>>
      /\ mode' = [mode EXCEPT ![p] = savedMode] /\ layout' = [layout EXCEPT ![p] = savedMode]
      /\ savedMode \in Modes /\ TypeOK
  BY DEF OpenPanel, Relayout, IInv, TypeOK
<1>2. /\ DockShown' /\ Open' = Open \cup {p} /\ OnScreen(p)' /\ parent'[p] = savedMode
      /\ parent' \in [Panels -> Modes \cup {"unbuilt", "none"}]
      /\ shown' \in SUBSET Docks /\ margins' \in Modes
  BY <1>1, AttachDoes DEF OpenPanel
<1>3. TypeOK'
  BY <1>1, <1>2 DEF TypeOK
<1>4. AskedIsOpen'
  BY <1>1, <1>2 DEF IInv, AskedIsOpen
<1>5. Lone'
  <2>1. SUFFICES ASSUME ~tangled'
                 PROVE  /\ \A q \in Open' : OnScreen(q)' /\ current' = q
                        /\ Held' \subseteq Open'
                        /\ \A q \in Open' : mode'[q] = parent'[q] /\ layout'[q] = parent'[q]
    BY DEF Lone
  <2>2. ~tangled /\ Open = {}
    BY <1>1, <2>1 DEF TypeOK
  <2>3. Held \subseteq {}
    BY <2>2 DEF IInv, Lone
  <2>4. Open' = {p}
    BY <1>2, <2>2
  <2>5. Held' \subseteq {p}
    BY <1>1, <2>3 DEF Held
  <2>6. mode'[p] = parent'[p] /\ layout'[p] = parent'[p]
    BY <1>1, <1>2 DEF TypeOK
  <2>7. QED
    BY <1>1, <1>2, <2>4, <2>5, <2>6
<1>6. QED
  BY <1>2, <1>3, <1>4, <1>5 DEF IInv

\* However a panel comes to be closed, what is left is in order.
LEMMA CloseInv ==
    ASSUME IInv, NEW p \in Open, Close(p),
           dirty' \in SUBSET Panels, asking' = NoPanel
    PROVE  IInv'
<1>1. TypeOK /\ p \in Panels
  BY DEF IInv, Open
<1>2. /\ DockShown' /\ Open' = Open \ {p} /\ current' = NoPanel /\ tangled' \in BOOLEAN
      /\ parent' \in [Panels -> Modes \cup {"unbuilt", "none"}]
      /\ shown' \in SUBSET Docks /\ margins' \in Modes
  BY <1>1, CloseDoes
<1>3. /\ UNCHANGED <<mode, layout, drag, popOuts, savedMode>>
      /\ tangled' = (tangled \/ drag.panel = p \/ p \in popOuts)
  BY DEF Close
<1>4. TypeOK'
  BY <1>1, <1>2, <1>3 DEF TypeOK
<1>5. ASSUME ~tangled'
      PROVE  Open' = {} /\ Held' = {}
  <2>1. ~tangled /\ drag.panel # p /\ p \notin popOuts
    BY <1>3, <1>5
  <2>2. \A q \in Open : current = q
    BY <2>1 DEF IInv, Lone
  <2>3. Open = {p}
    BY <2>2
  <2>4. Held \subseteq {p}
    BY <2>1, <2>3 DEF IInv, Lone
  <2>5. Held' = {}
    BY <1>2, <1>3, <2>1, <2>4 DEF Held
  <2>6. QED
    BY <1>2, <2>3, <2>5
<1>6. QED
  BY <1>2, <1>4, <1>5 DEF IInv, Lone, AskedIsOpen

LEMMA EditInv ==
    ASSUME IInv, NEW p \in Panels, Edit(p)
    PROVE  IInv'
<1>1. UNCHANGED Hung /\ asking' = asking /\ savedMode' = savedMode /\ dirty' = dirty \cup {p}
  BY DEF Edit, Hung
<1>2. DockShown' /\ Lone' /\ Open' = Open
  BY <1>1, HungKept DEF IInv
<1>3. TypeOK'
  BY <1>1, <1>2 DEF IInv, TypeOK, Hung
<1>4. QED
  BY <1>1, <1>2, <1>3 DEF IInv, AskedIsOpen

LEMMA AskInv ==
    ASSUME IInv, UNCHANGED Hung, UNCHANGED <<dirty, savedMode>>,
           asking' \in (dirty \cap Open) \cup {NoPanel}
    PROVE  IInv'
<1>1. DockShown' /\ Lone' /\ Open' = Open
  BY HungKept DEF IInv
<1>2. TypeOK'
  BY <1>1 DEF IInv, TypeOK, Hung
<1>3. QED
  BY <1>1, <1>2 DEF IInv, AskedIsOpen

LEMMA RequestCloseInv ==
    ASSUME IInv, NEW p \in Panels, RequestClose(p)
    PROVE  IInv'
<1>1. p \in Open /\ asking = NoPanel /\ dirty' = dirty /\ dirty \in SUBSET Panels
  BY DEF RequestClose, IInv, TypeOK
<1>2. CASE p \in dirty
  BY <1>1, <1>2, AskInv DEF RequestClose, Hung
<1>3. CASE p \notin dirty
  BY <1>1, <1>3, CloseInv DEF RequestClose
<1>4. QED
  BY <1>2, <1>3

LEMMA DiscardInv ==
    ASSUME IInv, Discard
    PROVE  IInv'
<1>1. asking \in Open /\ Close(asking) /\ asking' = NoPanel /\ dirty' \in SUBSET Panels
  BY DEF Discard, IInv, AskedIsOpen, TypeOK
<1>2. QED
  BY <1>1, CloseInv

LEMMA ResolveInv ==
    ASSUME IInv, NEW p \in Panels, Resolve(p)
    PROVE  IInv'
<1>1. p \in Open /\ Close(p) /\ asking' = NoPanel /\ dirty' \in SUBSET Panels
  BY DEF Resolve, IInv, TypeOK
<1>2. QED
  BY <1>1, CloseInv

\* The press takes hold of the panel that is current, and so open.
LEMMA DragBeginInv ==
    ASSUME IInv, DragBegin
    PROVE  IInv'
<1>1. /\ UNCHANGED <<parent, shown, margins, mode, layout, current, dirty, asking,
                     popOuts, savedMode, tangled>>
      /\ drag' = [panel |-> current, pending |-> mode[current], applied |-> mode[current]]
      /\ current \in Open /\ current \in Panels /\ current # NoPanel
  BY PanelsAssumption DEF DragBegin, Open
<1>2. Open' = Open
  BY <1>1 DEF Open
<1>3. drag' \in [panel : Panels \cup {NoPanel}, pending : Modes, applied : Modes]
  BY <1>1 DEF IInv, TypeOK
<1>4. TypeOK'
  BY <1>1, <1>2, <1>3 DEF IInv, TypeOK
<1>5. DockShown' /\ AskedIsOpen'
  BY <1>1, <1>2 DEF IInv, DockShown, AskedIsOpen
<1>6. drag'.panel = current
  BY <1>1
<1>7. Lone'
  BY <1>1, <1>2, <1>6 DEF IInv, Lone, Held, OnScreen
<1>8. QED
  BY <1>4, <1>5, <1>7 DEF IInv

\* A drag under way may mark and arrange its panel as it likes.
LEMMA DragMovesInv ==
    ASSUME IInv, drag.panel # NoPanel, drag'.panel = drag.panel,
           drag' \in [panel : Panels \cup {NoPanel}, pending : Modes, applied : Modes],
           mode' \in [Panels -> Modes], layout' \in [Panels -> Modes],
           popOuts' \subseteq popOuts \cup {drag.panel},
           UNCHANGED <<parent, shown, margins, current, dirty, asking, savedMode, tangled>>
    PROVE  IInv'
<1>1. Open' = Open
  BY DEF Open
<1>2. drag.panel \in Panels
  BY DEF IInv, TypeOK
<1>3. TypeOK'
  BY <1>1, <1>2 DEF IInv, TypeOK
<1>4. DockShown' /\ AskedIsOpen'
  BY <1>1 DEF IInv, DockShown, AskedIsOpen
<1>5. Lone'
  BY <1>1 DEF IInv, Lone, Held, OnScreen
<1>6. QED
  BY <1>3, <1>4, <1>5 DEF IInv

LEMMA PullOffInv ==
    ASSUME IInv, PullOff
    PROVE  IInv'
<1>1. /\ drag.panel # NoPanel /\ popOuts' = popOuts \cup {drag.panel}
      /\ mode' = [mode EXCEPT ![drag.panel] = "Floating"]
      /\ drag' = [drag EXCEPT !.pending = "Floating", !.applied = "Floating"]
      /\ UNCHANGED <<parent, shown, margins, layout, current, dirty, asking, savedMode, tangled>>
  BY DEF PullOff
<1>2. drag'.panel = drag.panel /\ drag' \in [panel : Panels \cup {NoPanel}, pending : Modes, applied : Modes]
  BY <1>1, ModesFacts DEF IInv, TypeOK
<1>3. mode' \in [Panels -> Modes] /\ layout' \in [Panels -> Modes]
  BY <1>1, ModesFacts DEF IInv, TypeOK
<1>4. QED
  BY <1>1, <1>2, <1>3, DragMovesInv

LEMMA MotionInv ==
    ASSUME IInv, NEW m \in Modes, Motion(m)
    PROVE  IInv'
<1>1. /\ drag.panel # NoPanel /\ drag' = [drag EXCEPT !.pending = m, !.applied = m]
      /\ IF m # drag.applied THEN Relayout(drag.panel, m) ELSE UNCHANGED layout
      /\ UNCHANGED <<parent, shown, margins, mode, current, dirty, asking, popOuts, savedMode, tangled>>
  BY DEF Motion
<1>2. drag'.panel = drag.panel /\ drag' \in [panel : Panels \cup {NoPanel}, pending : Modes, applied : Modes]
  BY <1>1 DEF IInv, TypeOK
<1>3. mode' \in [Panels -> Modes] /\ layout' \in [Panels -> Modes]
  BY <1>1 DEF IInv, TypeOK, Relayout
<1>4. QED
  BY <1>1, <1>2, <1>3, DragMovesInv

\* The callback of a drag that has ended does nothing; in a drag it floats a
\* panel that is open, or else a panel was closed and the run is tangled.
LEMMA PopOutInv ==
    ASSUME IInv, NEW p \in Panels, PopOut(p)
    PROVE  IInv'
<1>1. /\ p \in popOuts /\ popOuts' = popOuts \ {p} /\ TypeOK
      /\ UNCHANGED <<mode, current, dirty, asking, drag, savedMode, tangled>>
  BY DEF PopOut, IInv
<1>2. CASE drag.panel = NoPanel
  <2>1. UNCHANGED <<parent, shown, margins, layout>>
    BY <1>2 DEF PopOut
  <2>2. Open' = Open
    BY <2>1 DEF Open
  <2>3. TypeOK'
    BY <1>1, <2>1, <2>2 DEF TypeOK
  <2>4. Lone'
    BY <1>1, <2>1, <2>2 DEF IInv, Lone, Held, OnScreen
  <2>5. QED
    BY <1>1, <2>1, <2>2, <2>3, <2>4 DEF IInv, DockShown, AskedIsOpen
<1>3. CASE drag.panel # NoPanel
  <2>1. Attach(p, "Floating") /\ layout' = [layout EXCEPT ![p] = "Floating"]
    BY <1>3 DEF PopOut, Relayout
  <2>2. /\ DockShown' /\ Open' = Open \cup {p} /\ OnScreen(p)'
        /\ parent' \in [Panels -> Modes \cup {"unbuilt", "none"}]
        /\ shown' \in SUBSET Docks /\ margins' \in Modes
    BY <1>1, <2>1, ModesFacts, AttachDoes
  <2>3. layout' \in [Panels -> Modes]
    BY <1>1, <2>1, ModesFacts DEF TypeOK
  <2>4. TypeOK'
    BY <1>1, <2>2, <2>3 DEF TypeOK
  <2>5. ASSUME ~tangled
        PROVE  Open' = {p} /\ current = p /\ Held \subseteq {p}
    <3>1. p \in Open
      BY <1>1, <2>5, PanelsAssumption DEF IInv, Lone, Held
    <3>2. \A q \in Open : current = q
      BY <2>5 DEF IInv, Lone
    <3>3. QED
      BY <2>2, <2>5, <3>1, <3>2 DEF IInv, Lone
  <2>6. Lone'
    BY <1>1, <1>3, <2>2, <2>5 DEF Lone, Held
  <2>7. QED
    BY <1>1, <2>2, <2>4, <2>6 DEF IInv, AskedIsOpen
<1>4. QED
  BY <1>2, <1>3

\* The release settles the panel held since the press.
LEMMA DragEndInv ==
    ASSUME IInv, DragEnd
    PROVE  IInv'
<1> PICK p \in Panels, m \in Modes : p = drag.panel /\ m = drag.pending
  BY DEF DragEnd, IInv, TypeOK
<1>1. /\ TypeOK /\ p \in Panels /\ p # NoPanel /\ m \in Modes /\ Attach(p, m)
      /\ mode' = [mode EXCEPT ![p] = m] /\ layout' = [layout EXCEPT ![p] = m]
      /\ drag' = NoDrag /\ savedMode' \in Modes
      /\ UNCHANGED <<current, dirty, asking, popOuts, tangled>>
  BY DEF DragEnd, Relayout, IInv, TypeOK
<1>2. /\ DockShown' /\ Open' = Open \cup {p} /\ OnScreen(p)' /\ parent'[p] = m
      /\ parent' \in [Panels -> Modes \cup {"unbuilt", "none"}]
      /\ shown' \in SUBSET Docks /\ margins' \in Modes
  BY <1>1, AttachDoes
<1>3. mode' \in [Panels -> Modes] /\ layout' \in [Panels -> Modes]
  BY <1>1 DEF TypeOK
<1>4. drag' \in [panel : Panels \cup {NoPanel}, pending : Modes, applied : Modes] /\ drag'.panel = NoPanel
  BY <1>1, ModesFacts DEF NoDrag
<1>5. TypeOK'
  BY <1>1, <1>2, <1>3, <1>4 DEF TypeOK
<1>6. ASSUME ~tangled
      PROVE  Open' = {p} /\ current = p /\ Held \subseteq {p}
  <2>1. p \in Open
    BY <1>1, <1>6 DEF IInv, Lone, Held
  <2>2. \A q \in Open : current = q
    BY <1>6 DEF IInv, Lone
  <2>3. QED
    BY <1>2, <1>6, <2>1, <2>2 DEF IInv, Lone
<1>7. mode'[p] = parent'[p] /\ layout'[p] = parent'[p]
  BY <1>1, <1>2 DEF TypeOK
<1>8. Lone'
  BY <1>1, <1>2, <1>4, <1>6, <1>7 DEF Lone, Held
<1>9. QED
  BY <1>1, <1>2, <1>5, <1>8 DEF IInv, AskedIsOpen

LEMMA InitInv == Init => IInv
<1> SUFFICES ASSUME Init PROVE IInv
  OBVIOUS
<1>1. drag \in [panel : Panels \cup {NoPanel}, pending : Modes, applied : Modes] /\ drag.panel = NoPanel
  BY ModesFacts DEF Init, NoDrag
<1>2. Open = {} /\ Held = {}
  BY <1>1, ModesFacts DEF Init, Open, Held
<1>3. TypeOK
  BY <1>1, ModesFacts DEF Init, TypeOK
<1>4. QED
  BY <1>2, <1>3, ModesFacts DEF Init, IInv, DockShown, AskedIsOpen, Lone

LEMMA NextInv == IInv /\ [Next]_vars => IInv'
<1>1. SUFFICES ASSUME IInv, [Next]_vars PROVE IInv'
  OBVIOUS
<1>2. ASSUME NEW p \in Panels, OpenPanel(p) PROVE IInv'
  BY <1>1, <1>2, OpenPanelInv
<1>3. ASSUME NEW p \in Panels, Edit(p) PROVE IInv'
  BY <1>1, <1>3, EditInv
<1>4. ASSUME NEW p \in Panels, RequestClose(p) PROVE IInv'
  BY <1>1, <1>4, RequestCloseInv
<1>5. CASE KeepEditing
  BY <1>1, <1>5, AskInv DEF KeepEditing, Hung
<1>6. CASE Discard
  BY <1>1, <1>6, DiscardInv
<1>7. ASSUME NEW p \in Panels, Resolve(p) \/ CopyLoaded(p) PROVE IInv'
  BY <1>1, <1>7, ResolveInv DEF CopyLoaded
<1>8. CASE DragBegin
  BY <1>1, <1>8, DragBeginInv
<1>9. CASE PullOff
  BY <1>1, <1>9, PullOffInv
<1>10. ASSUME NEW m \in Modes, Motion(m) PROVE IInv'
  BY <1>1, <1>10, MotionInv
<1>11. ASSUME NEW p \in Panels, PopOut(p) PROVE IInv'
  BY <1>1, <1>11, PopOutInv
<1>12. CASE DragEnd
  BY <1>1, <1>12, DragEndInv
<1>13. CASE UNCHANGED vars
  BY <1>1, <1>13, AskInv DEF vars, Hung, IInv, TypeOK, AskedIsOpen
<1>14. QED
  BY <1>1, <1>2, <1>3, <1>4, <1>5, <1>6, <1>7, <1>8, <1>9, <1>10, <1>11, <1>12, <1>13 DEF Next

THEOREM Invariance == Spec => []IInv
  BY InitInv, NextInv, PTL DEF Spec

\* Every variable keeps its type, a panel asked about has edits, and the
\* current panel is one that is built and open.
THEOREM TypeCorrect == Spec => []TypeOK
<1>1. IInv => TypeOK
  BY DEF IInv
<1>2. QED
  BY <1>1, Invariance, PTL

\* However many panels are opened over each other, closed and dragged in any
\* order, and however late the callbacks run, the docks show what hangs in them.
THEOREM DocksShowPanels == Spec => []DockShown
<1>1. IInv => DockShown
  BY DEF IInv
<1>2. QED
  BY <1>1, Invariance, PTL

\* One editor at a time lies where it says it does whenever no drag is on.
THEOREM PanelsSettle == Spec => []Settled
<1>1. IInv => Settled
  BY DEF IInv, Lone, Settled
<1>2. QED
  BY <1>1, Invariance, PTL

\* One editor at a time can be reached at every moment.
THEOREM PanelsReachable == Spec => []EditorReachable
<1>1. IInv => EditorReachable
  BY DEF IInv, Lone, EditorReachable
<1>2. QED
  BY <1>1, Invariance, PTL
=============================================================================
