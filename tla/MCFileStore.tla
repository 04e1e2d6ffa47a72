----------------------------- MODULE MCFileStore -----------------------------
(***************************************************************************)
(* FileStore for TLC: two names at the top, and one below each of them.    *)
(***************************************************************************)
EXTENDS FileStore, TLC

MCPaths == {<<1>>, <<1, 3>>, <<2>>, <<2, 3>>}
RequestSymmetry == Permutations(Requests)
=============================================================================
