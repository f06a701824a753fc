SPECIFICATION Spec
CONSTANTS
    Panels = {p1, p2, p3}
    Drafts = {p3}
    NoPanel = NoPanel
SYMMETRY Symm
INVARIANTS
    TypeOK
    DockShown
    Settled
    EditorReachable
CHECK_DEADLOCK FALSE
