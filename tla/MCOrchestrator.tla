---------------------------- MODULE MCOrchestrator ----------------------------
(***************************************************************************)
(* Orchestrator for TLC: a run with two tasks and one with a single task.  *)
(***************************************************************************)
EXTENDS Orchestrator

CONSTANTS r1, r2
MCTasks == [r \in Runs |-> IF r = r1 THEN 2 ELSE 1]
=============================================================================
