--------------------------- MODULE MCEditorDrafts ---------------------------
(* Small instances of EditorDrafts for TLC. *)
EXTENDS EditorDrafts, TLC

Symmetry == Permutations(Copies) \cup Permutations(Drafts)
=============================================================================
