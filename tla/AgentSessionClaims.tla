------------------------ MODULE AgentSessionClaims ------------------------
(***************************************************************************)
(* What a comment in the source says of an agent session, stated over      *)
(* AgentSession and refuted by what the code does: README.md tells how.    *)
(***************************************************************************)
EXTENDS AgentSession

(* "Check for queued messages before marking as not running"               *)
(* (api/ws.go:1075): an agent at rest that nobody paused has no message    *)
(* waiting in its queue.                                                   *)
NoStrandedMessage == Quiescent => queue = <<>>
=============================================================================
