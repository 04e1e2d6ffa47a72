-------------------------- MODULE ConnectionsProofs --------------------------
(***************************************************************************)
(* Proofs about Connections, for any number of clients, goroutines that    *)
(* broadcast, read loops and shells, and any capacity of the channels: the *)
(* variables keep their types, nobody sends on a closed channel, and a     *)
(* shell that runs can be stopped.                                         *)
(*                                                                         *)
(* NoPanic is not inductive.  PanicInv adds why a broadcast may leave out  *)
(* the look at closed: the clients it has still to come to are registered, *)
(* as the hub does not change the map while one is going on, and a channel *)
(* is closed only for a client that has left, never to register again.     *)
(***************************************************************************)
EXTENDS Connections, TLAPS

PanicInv ==
  /\ NoPanic
  /\ \A b \in Casters : /\ todo[b] \subseteq clients
                        /\ casting[b] = NoAgent => todo[b] = {}
  /\ \A c \in Clients : /\ closed[c] => c \notin clients /\ reader[c] \in {"closing", "done"}
                        /\ conn[c] = "none" => reader[c] = "none"
  /\ hub.op = "register"   => reader[hub.client] \in {"reading", "leaving"}
  /\ hub.op = "unregister" => reader[hub.client] \in {"closing", "done"}

-----------------------------------------------------------------------------
(* Types.                                                                  *)

LEMMA TypeInit == Init => TypeOK
<1> SUFFICES ASSUME Init PROVE TypeOK
  OBVIOUS
<1>1. (CHOOSE c \in Clients : TRUE) \in Clients
  BY NamesAssumption
<1>2. viewer \in [Loops -> Clients]
  <2> DEFINE first == CHOOSE c \in Clients : TRUE
  <2>1. viewer = [l \in Loops |-> first] /\ first \in Clients
    BY <1>1 DEF Init
  <2> HIDE DEF first
  <2> QED
    BY <2>1
<1>3. buffered \in [Clients -> 0..Cap]
  BY BoundsAssumption DEF Init
<1> QED
  BY <1>2, <1>3 DEF Init, TypeOK, Idle

LEMMA SendType ==
  ASSUME TypeOK, NEW c \in Clients, SafeSend(c) \/ Send(c)
  PROVE  buffered' \in [Clients -> 0..Cap] /\ panicked' \in BOOLEAN
<1>1. WithOneMore(c) \in 0..Cap
  BY BoundsAssumption DEF WithOneMore, TypeOK
<1> QED
  BY <1>1 DEF SafeSend, Send, TypeOK

LEMMA TypeNext == TypeOK /\ [Next]_vars => TypeOK'
<1> SUFFICES ASSUME TypeOK, [Next]_vars PROVE TypeOK'
  OBVIOUS
<1> USE DEF hubVars, clientVars, sendVars, castVars, ptyVars, loopVars
<1>1. ASSUME NEW c \in Clients, HubTakes(c) PROVE TypeOK'
  BY <1>1 DEF HubTakes, TypeOK
<1>2. CASE HubWrites
  <2>1. hub.client \in Clients
    BY <1>2 DEF HubWrites, HubMayWrite, Idle, TypeOK
  <2> QED
    BY <1>2, <2>1 DEF HubWrites, TypeOK, Idle
<1>3. ASSUME NEW c \in Clients, Connect(c) \/ Break(c) \/ Subscribe(c) \/ ReadFails(c)
      PROVE TypeOK'
  BY <1>3 DEF Connect, Break, Subscribe, ReadFails, TypeOK
<1>4. ASSUME NEW c \in Clients, CloseAfterRead(c) \/ WriteEnds(c) PROVE TypeOK'
  BY <1>4 DEF CloseAfterRead, WriteEnds, ConnClosed, TypeOK
<1>5. ASSUME NEW c \in Clients, Write(c) PROVE TypeOK'
  <2>1. buffered[c] - 1 \in 0..Cap
    BY <1>5, BoundsAssumption DEF Write, TypeOK
  <2> QED
    BY <1>5, <2>1 DEF Write, TypeOK
<1>6. ASSUME NEW b \in Casters, Cast(b) \/ CastEnds(b) PROVE TypeOK'
  BY <1>6 DEF Cast, CastEnds, TypeOK
<1>7. ASSUME NEW b \in Casters, NEW c \in Clients, CastTo(b, c) PROVE TypeOK'
  <2>1. buffered' \in [Clients -> 0..Cap] /\ panicked' \in BOOLEAN
    BY <1>7, SendType DEF CastTo, TypeOK
  <2> QED
    BY <1>7, <2>1 DEF CastTo, TypeOK
<1>8. ASSUME NEW c \in Clients, NEW l \in Loops, TerminalSubscribe(c, l) PROVE TypeOK'
  BY <1>8 DEF TerminalSubscribe, Startable, Unstarted, ptyUnchanged, TypeOK
<1>9. ASSUME NEW l \in Loops, Lookup(l) \/ EndRead(l) PROVE TypeOK'
  BY <1>9 DEF Lookup, EndRead, ptyUnchanged, TypeOK
<1>10. ASSUME NEW l \in Loops, TellExit(l) \/ Output(l) PROVE TypeOK'
  <2>1. viewer[l] \in Clients /\ SafeSend(viewer[l])
    BY <1>10 DEF TellExit, Output, TypeOK
  <2>2. buffered' \in [Clients -> 0..Cap] /\ panicked' \in BOOLEAN
    BY <2>1, SendType
  <2> QED
    BY <1>10, <2>2 DEF TellExit, Output, ptyUnchanged, TypeOK
<1>11. CASE Stop \/ CloseAndKill
  BY <1>11 DEF Stop, CloseAndKill, ptyUnchanged, TypeOK
<1>12. ASSUME NEW s \in Shells, Exit(s) PROVE TypeOK'
  BY <1>12 DEF Exit, ptyUnchanged, TypeOK
<1>13. CASE UNCHANGED vars
  BY <1>13 DEF vars, TypeOK
<1> QED
  BY <1>1, <1>2, <1>3, <1>4, <1>5, <1>6, <1>7, <1>8, <1>9, <1>10, <1>11, <1>12, <1>13
     DEF Next, LoopStep

(* Every variable of the hub, its clients and its terminals stays in its   *)
(* type; in particular no channel holds more than its capacity.            *)
THEOREM TypeCorrect == Spec => []TypeOK
  BY TypeInit, TypeNext, PTL DEF Spec

-----------------------------------------------------------------------------
(* Closed channels.                                                        *)

LEMMA PanicInit == Init => PanicInv
  BY DEF Init, PanicInv, NoPanic, Idle

LEMMA PanicNext == TypeOK /\ PanicInv /\ [Next]_vars => PanicInv'
<1> SUFFICES ASSUME TypeOK, PanicInv, [Next]_vars PROVE PanicInv'
  OBVIOUS
<1> USE DEF TypeOK, PanicInv, NoPanic, hubVars, clientVars, sendVars, castVars, ptyVars,
            loopVars
<1>1. ASSUME NEW c \in Clients, HubTakes(c) PROVE PanicInv'
  BY <1>1 DEF HubTakes, Idle
<1>2. CASE HubWrites
  <2>1. hub.client \in Clients /\ hub.op \in {"register", "unregister"}
    BY <1>2 DEF HubWrites, HubMayWrite, Idle
  <2>2. \A b \in Casters : todo'[b] = {}
    BY <1>2 DEF HubWrites, HubMayWrite
  <2>3. CASE hub.op = "register"
    BY <1>2, <2>1, <2>2, <2>3 DEF HubWrites, Idle
  <2>4. CASE hub.op = "unregister"
    BY <1>2, <2>1, <2>2, <2>4 DEF HubWrites, Idle
  <2> QED
    BY <2>1, <2>3, <2>4
<1>3. ASSUME NEW c \in Clients, Connect(c) PROVE PanicInv'
  <2>1. reader[c] = "none" /\ ~closed[c]
    BY <1>3 DEF Connect
  <2>2. hub.op \in {"register", "unregister"} => hub.client # c
    BY <2>1
  <2> QED
    BY <1>3, <2>1, <2>2 DEF Connect
<1>4. ASSUME NEW c \in Clients, Break(c) \/ Subscribe(c) PROVE PanicInv'
  BY <1>4 DEF Break, Subscribe
<1>5. ASSUME NEW c \in Clients, ReadFails(c) \/ CloseAfterRead(c) PROVE PanicInv'
  <2>1. hub.op \in {"register", "unregister"} => hub.client \in Clients
    BY DEF Idle
  <2>2. CASE ReadFails(c)
    BY <2>1, <2>2 DEF ReadFails
  <2>3. CASE CloseAfterRead(c)
    BY <2>1, <2>3 DEF CloseAfterRead
  <2> QED
    BY <1>5, <2>2, <2>3
<1>6. ASSUME NEW c \in Clients, Write(c) \/ WriteEnds(c) PROVE PanicInv'
  BY <1>6 DEF Write, WriteEnds, ConnClosed
<1>7. ASSUME NEW b \in Casters, Cast(b) \/ CastEnds(b) PROVE PanicInv'
  BY <1>7, NamesAssumption DEF Cast, CastEnds
<1>8. ASSUME NEW b \in Casters, NEW c \in Clients, CastTo(b, c) PROVE PanicInv'
  <2>1. c \in clients /\ ~closed[c]
    BY <1>8 DEF CastTo
  <2> QED
    BY <1>8, <2>1 DEF CastTo, Send
<1>9. ASSUME NEW c \in Clients, NEW l \in Loops, TerminalSubscribe(c, l) PROVE PanicInv'
  BY <1>9 DEF TerminalSubscribe, ptyUnchanged
<1>10. ASSUME NEW l \in Loops, Lookup(l) \/ EndRead(l) PROVE PanicInv'
  BY <1>10 DEF Lookup, EndRead, ptyUnchanged
<1>11. ASSUME NEW l \in Loops, TellExit(l) \/ Output(l) PROVE PanicInv'
  BY <1>11 DEF TellExit, Output, SafeSend, Send, ptyUnchanged
<1>12. CASE Stop \/ CloseAndKill \/ \E s \in Shells : Exit(s)
  BY <1>12 DEF Stop, CloseAndKill, Exit, ptyUnchanged
<1>13. CASE UNCHANGED vars
  BY <1>13 DEF vars
<1> QED
  BY <1>1, <1>2, <1>3, <1>4, <1>5, <1>6, <1>7, <1>8, <1>9, <1>10, <1>11, <1>12, <1>13
     DEF Next, LoopStep

(* No broadcast and no read loop of a terminal sends on the channel of a   *)
(* client that the hub has closed, however registrations, broadcasts and   *)
(* the ends of the pumps interleave.                                       *)
THEOREM NoPanicCorrect == Spec => []NoPanic
<1>1. PanicInv => NoPanic
  BY DEF PanicInv
<1> QED
  BY <1>1, TypeInit, TypeNext, PanicInit, PanicNext, PTL DEF Spec

-----------------------------------------------------------------------------
(* Shells.                                                                 *)

LEMMA ShellNext == TypeOK /\ ShellKnown /\ [Next]_vars => ShellKnown'
<1> SUFFICES ASSUME TypeOK, ShellKnown, [Next]_vars PROVE ShellKnown'
  OBVIOUS
<1> USE DEF TypeOK, ShellKnown, ptyVars
<1>1. ASSUME NEW c \in Clients, NEW l \in Loops, TerminalSubscribe(c, l) PROVE ShellKnown'
  BY <1>1, NamesAssumption DEF TerminalSubscribe, Startable, Unstarted
<1>2. CASE Stop
  BY <1>2, NamesAssumption DEF Stop
<1>3. CASE CloseAndKill
  BY <1>3 DEF CloseAndKill
<1>4. ASSUME NEW s \in Shells, Exit(s) PROVE ShellKnown'
  BY <1>4 DEF Exit
<1>5. ASSUME UNCHANGED <<session, shell, ptmx, stopping>> PROVE ShellKnown'
  BY <1>5
<1>6. ASSUME NEW c \in Clients, HubTakes(c) \/ Connect(c) \/ Break(c) \/ Subscribe(c)
             \/ ReadFails(c) \/ CloseAfterRead(c) \/ Write(c) \/ WriteEnds(c)
      PROVE ShellKnown'
  BY <1>5, <1>6 DEF HubTakes, Connect, Break, Subscribe, ReadFails, CloseAfterRead, Write,
                    WriteEnds
<1>7. CASE HubWrites \/ UNCHANGED vars
  BY <1>5, <1>7 DEF HubWrites, vars
<1>8. ASSUME NEW b \in Casters, \/ Cast(b) \/ CastEnds(b)
                                \/ \E c \in Clients : CastTo(b, c)
      PROVE ShellKnown'
  BY <1>5, <1>8 DEF Cast, CastEnds, CastTo
<1>9. ASSUME NEW l \in Loops, LoopStep(l) \/ Output(l) PROVE ShellKnown'
  BY <1>5, <1>9 DEF LoopStep, Lookup, EndRead, TellExit, Output
<1> QED
  BY <1>1, <1>2, <1>3, <1>4, <1>6, <1>7, <1>8, <1>9 DEF Next

(* A shell that runs is the terminal's session or is being stopped: no     *)
(* subscription that crosses a deletion leaves one behind out of reach.    *)
THEOREM ShellKnownCorrect == Spec => []ShellKnown
<1>1. Init => ShellKnown
  BY DEF Init, ShellKnown
<1> QED
  BY <1>1, TypeInit, TypeNext, ShellNext, PTL DEF Spec
=============================================================================
