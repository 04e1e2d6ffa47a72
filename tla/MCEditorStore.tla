---------------------------- MODULE MCEditorStore ----------------------------
(***************************************************************************)
(* EditorStore for TLC: projects, files and requests are interchangeable.  *)
(***************************************************************************)
EXTENDS EditorStore, TLC

Symmetry == Permutations(Projects) \cup Permutations(Files) \cup Permutations(Reads)
=============================================================================
