-------------------------- MODULE MessageDelivery --------------------------
(***************************************************************************)
(* What an agent session promises about the messages a user types: a       *)
(* message enters the agent's conversation history at most once, nothing   *)
(* enters it that was not sent, and a message is given up only when the    *)
(* user did something that gives messages up.                              *)
(***************************************************************************)
EXTENDS Naturals

CONSTANTS
  Msgs        \* the user messages

VARIABLES
  sent,       \* messages the user has sent
  pending,    \* messages accepted and not yet in a history
  delivered,  \* how often each message was appended to a history
  mayDiscard  \* the user has done something that gives messages up

deliveryVars == <<sent, pending, delivered>>

Init ==
  /\ sent = {}
  /\ pending = {}
  /\ delivered = [m \in Msgs |-> 0]

Send(m) ==
  /\ m \notin sent
  /\ sent' = sent \cup {m}
  /\ pending' = pending \cup {m}
  /\ UNCHANGED delivered

Deliver(m) ==
  /\ m \in pending
  /\ pending' = pending \ {m}
  /\ delivered' = [delivered EXCEPT ![m] = @ + 1]
  /\ UNCHANGED sent

(* The handler of such a command may give up any part of what is pending.  *)
(* mayDiscard is the user's: no action here says when it changes.          *)
Discard(S) ==
  /\ mayDiscard'
  /\ S # {} /\ S \subseteq pending
  /\ pending' = pending \ S
  /\ UNCHANGED <<sent, delivered>>

Next ==
  \/ \E m \in Msgs : Send(m) \/ Deliver(m)
  \/ \E S \in SUBSET Msgs : Discard(S)

Spec == Init /\ [][Next]_deliveryVars

(* No user message is appended to a conversation history twice, and none   *)
(* that is still pending has been appended already.                        *)
AtMostOnce ==
  /\ \A m \in Msgs : delivered[m] <= 1
  /\ \A m \in pending : m \in sent /\ delivered[m] = 0
=============================================================================
