-------------------------- MODULE MCProcessManager --------------------------
(***************************************************************************)
(* ProcessManager for TLC: p1 and p2 belong to one project, p3 to another. *)
(***************************************************************************)
EXTENDS ProcessManager

CONSTANTS p3, a, b

MCProjectOf == [p \in Procs |-> IF p = p3 THEN b ELSE a]
=============================================================================
