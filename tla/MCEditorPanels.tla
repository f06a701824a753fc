--------------------------- MODULE MCEditorPanels ---------------------------
EXTENDS EditorPanels, TLC
Symm == Permutations(Panels \ Drafts)
=============================================================================
