----------------------------- MODULE Connections -----------------------------
(***************************************************************************)
(* The WebSocket clients of the hub (api/ws.go): registration, the two     *)
(* pumps of a connection, subscriptions and broadcasts, and the terminals  *)
(* (api/terminal.go) whose output read loops send to a client.             *)
(*                                                                         *)
(* Messages are counted and not told apart.  The IDs of agents that        *)
(* broadcast reads without the client's mutex are seen as before or as     *)
(* after a concurrent change.                                              *)
(***************************************************************************)
EXTENDS Integers, FiniteSets

CONSTANTS
  Clients,    \* the connections
  Casters,    \* goroutines that broadcast: runs, handlers, processes
  Agents,     \* the agents a client may subscribe to
  NoAgent,    \* the empty agent ID
  Cap,        \* capacity of Client.send (256)
  Loops,      \* the goroutines of terminal_subscribe
  Shells,     \* the PTY sessions of one terminal
  NoShell     \* no session

ASSUME NamesAssumption  ==
  NoAgent \notin Agents /\ NoShell \notin Shells /\ Clients # {}
ASSUME BoundsAssumption == Cap \in Nat

VARIABLES
  clients,   \* Hub.clients
  hub,       \* what Hub.Run has received and not yet done
  topic,     \* Client.agentID
  buffered,  \* how many messages are in Client.send
  closed,    \* Client.closed, and Client.send is closed
  conn,      \* the connection of a client
  reader,    \* where its readPump is
  writer,    \* where its writePump is
  casting,   \* the agent a caster broadcasts for, with h.mu read-locked
  todo,      \* the clients it has not come to
  panicked,  \* somebody has sent on a closed channel
  session,   \* sessions[terminalID]
  shell,     \* each shell: not started, running, exited, all of its tty gone
  ptmx,      \* ptySession.ptmx is open
  loop,      \* where each read loop is
  viewer,    \* the client it sends to
  source,    \* the session it reads
  stopping   \* the session that deleteTerminal has taken out of the map

hubVars  == <<clients, hub>>
clientVars == <<topic, conn, reader, writer>>
sendVars == <<buffered, closed, panicked>>
castVars == <<casting, todo>>
ptyVars  == <<session, shell, ptmx, stopping>>
loopVars == <<loop, viewer, source>>
vars == <<clients, hub, topic, buffered, closed, conn, reader, writer, casting, todo,
          panicked, session, shell, ptmx, loop, viewer, source, stopping>>

Idle == [op |-> "none"]

Init ==
  /\ clients = {} /\ hub = Idle
  /\ topic = [c \in Clients |-> NoAgent] /\ buffered = [c \in Clients |-> 0]
  /\ closed = [c \in Clients |-> FALSE] /\ conn = [c \in Clients |-> "none"]
  /\ reader = [c \in Clients |-> "none"] /\ writer = [c \in Clients |-> "none"]
  /\ casting = [b \in Casters |-> NoAgent] /\ todo = [b \in Casters |-> {}]
  /\ panicked = FALSE
  /\ session = NoShell /\ shell = [s \in Shells |-> "none"]
  /\ ptmx = [s \in Shells |-> FALSE] /\ stopping = NoShell
  /\ loop = [l \in Loops |-> "none"] /\ viewer = [l \in Loops |-> CHOOSE c \in Clients : TRUE]
  /\ source = [l \in Loops |-> NoShell]

(* A send that does not wait.                                              *)
WithOneMore(c) == IF buffered[c] < Cap THEN buffered[c] + 1 ELSE buffered[c]

Send(c) ==
  /\ panicked' = (panicked \/ closed[c])
  /\ buffered' = IF closed[c] THEN buffered ELSE [buffered EXCEPT ![c] = WithOneMore(c)]

(* safeSend looks at closed first, with the mutex of the client.           *)
SafeSend(c) == IF closed[c] THEN UNCHANGED <<buffered, panicked>> ELSE Send(c)

-----------------------------------------------------------------------------
(* Hub.Run.                                                                *)

(* h.mu can be locked.  Mutant: readers are not waited for.                *)
HubRuns      == hub # Idle
HubMayWrite  == hub # Idle /\ \A b \in Casters : casting[b] = NoAgent

(* The sender on the register or unregister channel goes on.               *)
HubTakes(c) ==
  /\ hub = Idle
  /\ \/ /\ reader[c] = "registering" /\ hub' = [op |-> "register", client |-> c]
        /\ reader' = [reader EXCEPT ![c] = "reading"]
        /\ writer' = [writer EXCEPT ![c] = "selecting"]
     \/ /\ reader[c] = "leaving" /\ hub' = [op |-> "unregister", client |-> c]
        /\ reader' = [reader EXCEPT ![c] = "closing"] /\ UNCHANGED writer
  /\ UNCHANGED <<clients, topic, conn, sendVars, castVars, ptyVars, loopVars>>

HubWrites ==
  LET c == hub.client IN
  /\ HubMayWrite /\ hub' = Idle
  /\ IF hub.op = "register"
     THEN clients' = clients \cup {c} /\ UNCHANGED closed
     ELSE clients' = clients \ {c} /\ closed' = [closed EXCEPT ![c] = @ \/ c \in clients]
  /\ UNCHANGED <<clientVars, buffered, panicked, castVars, ptyVars, loopVars>>

-----------------------------------------------------------------------------
(* A connection.                                                           *)

Connect(c) ==
  /\ conn[c] = "none" /\ conn' = [conn EXCEPT ![c] = "open"]
  /\ reader' = [reader EXCEPT ![c] = "registering"]
  /\ UNCHANGED <<hubVars, topic, writer, sendVars, castVars, ptyVars, loopVars>>

(* The peer goes away, at any moment.                                      *)
Break(c) ==
  /\ conn[c] = "open" /\ conn' = [conn EXCEPT ![c] = "closed"]
  /\ UNCHANGED <<hubVars, topic, reader, writer, sendVars, castVars, ptyVars, loopVars>>

Subscribe(c) ==
  /\ reader[c] = "reading" /\ conn[c] = "open"
  /\ \E a \in Agents : topic' = [topic EXCEPT ![c] = a]
  /\ UNCHANGED <<hubVars, conn, reader, writer, sendVars, castVars, ptyVars, loopVars>>

(* ReadMessage fails.                                                      *)
ReadFails(c) ==
  /\ reader[c] = "reading" /\ conn[c] = "closed"
  /\ reader' = [reader EXCEPT ![c] = "leaving"]
  /\ UNCHANGED <<hubVars, topic, conn, writer, sendVars, castVars, ptyVars, loopVars>>

CloseAfterRead(c) ==
  /\ reader[c] = "closing" /\ reader' = [reader EXCEPT ![c] = "done"]
  /\ conn' = [conn EXCEPT ![c] = "closed"]
  /\ UNCHANGED <<hubVars, topic, writer, sendVars, castVars, ptyVars, loopVars>>

Write(c) ==
  /\ writer[c] = "selecting" /\ buffered[c] > 0 /\ conn[c] = "open"
  /\ buffered' = [buffered EXCEPT ![c] = @ - 1]
  /\ UNCHANGED <<hubVars, clientVars, closed, panicked, castVars, ptyVars, loopVars>>

(* Every exit of writePump closes the connection.  Mutant: it does not.    *)
ConnLeft(c)   == conn
ConnClosed(c) == [conn EXCEPT ![c] = "closed"]

(* The channel is closed and empty, a write takes more than ten seconds,   *)
(* or one, of a message or of a ping, fails.                               *)
WriteEnds(c) ==
  /\ writer[c] = "selecting" /\ writer' = [writer EXCEPT ![c] = "done"]
  /\ conn' = ConnClosed(c)
  /\ UNCHANGED <<hubVars, topic, reader, sendVars, castVars, ptyVars, loopVars>>

WriteMustEnd(c) == (conn[c] = "closed" \/ (closed[c] /\ buffered[c] = 0)) /\ WriteEnds(c)

-----------------------------------------------------------------------------
(* broadcast: all the while with h.mu read-locked.                         *)

Cast(b) ==
  /\ casting[b] = NoAgent
  /\ \E a \in Agents : casting' = [casting EXCEPT ![b] = a]
  /\ todo' = [todo EXCEPT ![b] = clients]
  /\ UNCHANGED <<hubVars, clientVars, sendVars, ptyVars, loopVars>>

CastTo(b, c) ==
  /\ c \in todo[b] /\ todo' = [todo EXCEPT ![b] = @ \ {c}]
  /\ IF topic[c] = casting[b] THEN Send(c) ELSE UNCHANGED <<buffered, panicked>>
  /\ UNCHANGED <<hubVars, clientVars, closed, casting, ptyVars, loopVars>>

CastEnds(b) ==
  /\ casting[b] # NoAgent /\ todo[b] = {} /\ casting' = [casting EXCEPT ![b] = NoAgent]
  /\ UNCHANGED <<hubVars, clientVars, sendVars, todo, ptyVars, loopVars>>

-----------------------------------------------------------------------------
(* Terminals.                                                              *)

ptyUnchanged == UNCHANGED <<hubVars, clientVars, castVars>>

(* TerminalManager.Start: a session that is in the map is taken for one    *)
(* that runs.  Mutant: the map is not looked at.                           *)
Unstarted == {s \in Shells : shell[s] = "none"}
AlwaysNew == Unstarted
Startable == IF session = NoShell THEN Unstarted ELSE {session}

TerminalSubscribe(c, l) ==
  /\ reader[c] = "reading" /\ conn[c] = "open" /\ loop[l] = "none"
  /\ \E s \in Startable :
       /\ session' = s
       /\ shell' = [shell EXCEPT ![s] = IF @ = "none" THEN "running" ELSE @]
       /\ ptmx' = [ptmx EXCEPT ![s] = @ \/ shell[s] = "none"]
  /\ loop' = [loop EXCEPT ![l] = "lookup"] /\ viewer' = [viewer EXCEPT ![l] = c]
  /\ UNCHANGED <<source, stopping, sendVars>> /\ ptyUnchanged

(* ReadLoop looks for the session once more.                               *)
Lookup(l) ==
  /\ loop[l] = "lookup" /\ source' = [source EXCEPT ![l] = session]
  /\ loop' = [loop EXCEPT ![l] = IF session = NoShell THEN "exit" ELSE "reading"]
  /\ UNCHANGED <<viewer, ptyVars, sendVars>> /\ ptyUnchanged

Output(l) ==
  /\ loop[l] = "reading"
  /\ ptmx[source[l]] /\ shell[source[l]] # "gone"
  /\ SafeSend(viewer[l])
  /\ UNCHANGED <<loop, viewer, source, closed, ptyVars>> /\ ptyUnchanged

(* Read fails: the file was closed, or nobody has the tty open any more.   *)
(* Mutant: only the first.                                                 *)
ClosedOnly(s) == ~ptmx[s]
ReadEnds(s)   == ~ptmx[s] \/ shell[s] = "gone"

EndRead(l) ==
  /\ loop[l] = "reading" /\ ReadEnds(source[l])
  /\ loop' = [loop EXCEPT ![l] = "exit"] /\ source' = [source EXCEPT ![l] = NoShell]
  /\ UNCHANGED <<viewer, ptyVars, sendVars>> /\ ptyUnchanged

TellExit(l) ==
  /\ loop[l] = "exit" /\ loop' = [loop EXCEPT ![l] = "done"] /\ SafeSend(viewer[l])
  /\ UNCHANGED <<viewer, source, closed, ptyVars>> /\ ptyUnchanged

(* The shell exits, and then the last process that has the tty open.       *)
Exit(s) ==
  /\ \/ shell[s] = "running" /\ shell' = [shell EXCEPT ![s] = "exited"]
     \/ shell[s] = "exited" /\ shell' = [shell EXCEPT ![s] = "gone"]
  /\ UNCHANGED <<session, ptmx, stopping, loopVars, sendVars>> /\ ptyUnchanged

(* Stop, by deleteTerminal.                                                *)
Stop ==
  /\ session # NoShell /\ stopping = NoShell
  /\ stopping' = session /\ session' = NoShell
  /\ UNCHANGED <<shell, ptmx, loopVars, sendVars>> /\ ptyUnchanged

CloseAndKill ==
  /\ stopping # NoShell /\ stopping' = NoShell
  /\ ptmx' = [ptmx EXCEPT ![stopping] = FALSE]
  /\ shell' = [shell EXCEPT ![stopping] = IF @ = "running" THEN "exited" ELSE @]
  /\ UNCHANGED <<session, loopVars, sendVars>> /\ ptyUnchanged

LoopStep(l) == Lookup(l) \/ EndRead(l) \/ TellExit(l)

Next ==
  \/ HubWrites \/ \E c \in Clients : HubTakes(c)
  \/ \E c \in Clients : \/ Connect(c) \/ Break(c) \/ Subscribe(c) \/ ReadFails(c)
                        \/ CloseAfterRead(c) \/ Write(c) \/ WriteEnds(c)
  \/ \E b \in Casters : Cast(b) \/ CastEnds(b) \/ \E c \in Clients : CastTo(b, c)
  \/ \E c \in Clients, l \in Loops : TerminalSubscribe(c, l)
  \/ \E l \in Loops : LoopStep(l) \/ Output(l)
  \/ Stop \/ CloseAndKill \/ \E s \in Shells : Exit(s)

Spec == Init /\ [][Next]_vars

(* The goroutines that can go on are scheduled; a hub that waits for h.mu  *)
(* bars new readers, and the others finish.  Nothing is asked of peers,    *)
(* shells or users.                                                        *)
Fairness ==
  /\ SF_vars(HubWrites) /\ WF_vars(CloseAndKill)
  /\ \A c \in Clients : /\ SF_vars(HubTakes(c))
                        /\ WF_vars(ReadFails(c) \/ CloseAfterRead(c))
                        /\ WF_vars(Write(c) \/ WriteMustEnd(c))
  /\ \A b \in Casters : WF_vars(CastEnds(b) \/ \E c \in Clients : CastTo(b, c))
  /\ \A l \in Loops : WF_vars(LoopStep(l))

FairSpec == Spec /\ Fairness

-----------------------------------------------------------------------------
(* Properties.                                                             *)

(* Every variable stays in its type; no channel holds more than it can.    *)
TypeOK ==
  /\ clients \subseteq Clients
  /\ hub \in {Idle} \cup [op : {"register", "unregister"}, client : Clients]
  /\ topic \in [Clients -> Agents \cup {NoAgent}]
  /\ buffered \in [Clients -> 0..Cap] /\ closed \in [Clients -> BOOLEAN]
  /\ conn \in [Clients -> {"none", "open", "closed"}]
  /\ reader \in [Clients -> {"none", "registering", "reading", "leaving", "closing", "done"}]
  /\ writer \in [Clients -> {"none", "selecting", "done"}]
  /\ casting \in [Casters -> Agents \cup {NoAgent}] /\ todo \in [Casters -> SUBSET Clients]
  /\ panicked \in BOOLEAN
  /\ session \in Shells \cup {NoShell} /\ stopping \in Shells \cup {NoShell}
  /\ shell \in [Shells -> {"none", "running", "exited", "gone"}]
  /\ ptmx \in [Shells -> BOOLEAN]
  /\ loop \in [Loops -> {"none", "lookup", "reading", "exit", "done"}]
  /\ viewer \in [Loops -> Clients] /\ source \in [Loops -> Shells \cup {NoShell}]

(* No broadcast and no read loop sends on the channel of a client that has *)
(* gone, which would end the server: broadcast does not look at closed.    *)
NoPanic == ~panicked

(* A shell that runs is in the map, where it can be stopped, or is being   *)
(* stopped: however subscriptions and a deletion of the terminal cross.    *)
ShellKnown ==
  \A s \in Shells : shell[s] = "running" => s \in {session, stopping}

(* When one pump of a connection has ended, the other one ends, too, and   *)
(* the hub forgets the client.                                             *)
PumpsEnd ==
  \A c \in Clients :
    writer[c] = "done" \/ reader[c] = "leaving" ~>
      writer[c] = "done" /\ reader[c] = "done" /\ c \notin clients /\ closed[c]

(* Every read loop of a terminal that is stopped, or whose tty nobody has  *)
(* open any more, ends, and tells its client.                              *)
LoopsEnd ==
  \A l \in Loops :
    loop[l] = "reading" /\ (~ptmx[source[l]] \/ shell[source[l]] = "gone") ~> loop[l] = "done"
=============================================================================
