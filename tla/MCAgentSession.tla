--------------------------- MODULE MCAgentSession ---------------------------
(***************************************************************************)
(* AgentSession for TLC.  Clients are interchangeable: no definition names *)
(* one.  (Runs and messages are taken in a fixed order, so they are not.)  *)
(***************************************************************************)
EXTENDS AgentSessionDelivery, TLC

ClientSymmetry == Permutations(Clients)
=============================================================================
