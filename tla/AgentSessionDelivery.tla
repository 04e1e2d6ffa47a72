------------------------ MODULE AgentSessionDelivery ------------------------
(***************************************************************************)
(* The session as an implementation of MessageDelivery.                    *)
(***************************************************************************)
EXTENDS AgentSession

(* Where a message is between the moment it is sent and the moment it is   *)
(* appended to a History: with the handler that is about to queue or       *)
(* inject it, in the queue, with the goroutine started for it, or in the   *)
(* intervention slot of an instance.                                       *)
Carried(m) ==
  \/ \E c \in Clients : carry[c] = m
  \/ \E k \in DOMAIN queue : queue[k] = m
  \/ \E r \in Runs : msg[r] = m /\ pc[r] \in {"begin", "register", "lock"}
  \/ \E i \in Insts : slot[i] = m

(* Messages may be given up while a cancel, a clear or a delete is handled *)
(* that has cleared the queue, once the row is gone, and by another        *)
(* intervention: every message to a running automated agent is one, and so *)
(* is what the users of any agent send by that command.                    *)
GivesUp ==
  \/ \E c \in Clients : cpc[c] \in {"cancel", "clear", "delete", "deleteRow"}
  \/ ~rowExists
  \/ automated \/ "intervene" \in Commands

Delivery == INSTANCE MessageDelivery WITH
  pending    <- {m \in Msgs : Carried(m)},
  mayDiscard <- GivesUp

(* The session implements the message delivery: no message is appended     *)
(* twice, and none is lost but while a command that gives messages up is   *)
(* handled, or to an overwritten intervention.                             *)
DeliverySpec == Delivery!Spec
=============================================================================
