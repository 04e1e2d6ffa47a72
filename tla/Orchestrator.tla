----------------------------- MODULE Orchestrator -----------------------------
(***************************************************************************)
(* A session in orchestrator mode: runOrchestratorLoop of agent/agent.go   *)
(* splits a message into tasks and runs a child agent for each of them;    *)
(* the hub (api/ws.go) makes the children, keeps them in its maps, and     *)
(* looks for them when the session is cancelled or cleared.  All of them   *)
(* share the slots of the LLM semaphore.                                   *)
(*                                                                         *)
(* The row of the session, its queue and its other clients are those of    *)
(* AgentSession.  A worker goes through the loop of AgentLoop: a child,    *)
(* or the run itself when the LLM found no tasks.                          *)
(***************************************************************************)
EXTENDS Integers, FiniteSets

CONSTANTS
  Runs,         \* the goroutines of handleSendMessage and handleResume
  MaxTasks,     \* bound on the tasks of each run
  Slots,        \* config LLMSlots: capacity of llmSemaphore
  MaxCalls,     \* bound on the LLM calls of a worker
  Commands,     \* the commands the client uses besides send_message
  MaxCommands,  \* bound on their number; a resume is not counted
  NoRun         \* no entry in a map

ASSUME CommandsAssumption == Commands \subseteq {"cancel", "pause", "resume", "clear"}
ASSUME BoundsAssumption   == /\ MaxTasks \in [Runs -> Nat] /\ Slots \in Nat \ {0}
                             /\ MaxCalls \in Nat \ {0} /\ MaxCommands \in Nat

Children == UNION {{r} \X (1..MaxTasks[r]) : r \in Runs}
Workers  == Runs \cup Children
RunOf(w) == IF w \in Runs THEN w ELSE w[1]

ASSUME NamesAssumption == Runs \cap Children = {} /\ NoRun \notin Workers

VARIABLES
  entry,      \* cancels[agentID]
  agents,     \* agents[agentID]: the run that made the instance
  tracked,    \* childAgents[agentID]
  inMap,      \* the children in agents
  counted,    \* the children in counters
  paused,     \* Agent.paused of each instance
  cancelled,  \* Agent.cancelled of each worker
  mu,         \* who holds Agent.mu of each instance
  slots,      \* how many slots of llmSemaphore are taken
  row,        \* the status of each child's row
  pc,         \* where each run and each child is
  kind,       \* what a run is for: a message, a resume
  inst,       \* the instance a run works on
  stop,       \* why the context of a run is done, "no" while it is not
  result,     \* what Run or Continue of each worker returned
  tasks,      \* len(subtasks)
  left,       \* LLM calls a worker may still make
  toolLive,   \* the tool a worker executes has a live context
  cpc,        \* where the client's handler is
  copied,     \* childIDs of that handler
  todo,       \* those it has not come to
  quota,      \* commands it may still give
  late,       \* history: children tracked or put in a map after a stop, or
              \* put in one while a cancel takes children out
  robbed      \* history: children taken out by the end of another run

maps    == <<entry, agents, tracked, inMap, counted>>
flags   == <<paused, cancelled>>
handler == <<cpc, copied, todo, quota>>
ghosts  == <<late, robbed>>
vars == <<entry, agents, tracked, inMap, counted, paused, cancelled, mu, slots, row,
          pc, kind, inst, stop, result, tasks, left, toolLive, cpc, copied, todo,
          quota, late, robbed>>

Init ==
  /\ entry = NoRun /\ agents = NoRun /\ tracked = {} /\ inMap = {} /\ counted = {}
  /\ paused = [r \in Runs |-> FALSE] /\ cancelled = [w \in Workers |-> FALSE]
  /\ mu = [r \in Runs |-> NoRun] /\ slots = 0
  /\ row = [c \in Children |-> "none"]
  /\ pc = [w \in Workers |-> "unused"]
  /\ kind = [r \in Runs |-> "none"] /\ inst = [r \in Runs |-> NoRun]
  /\ stop = [r \in Runs |-> "no"] /\ result = [w \in Workers |-> "none"]
  /\ tasks = [r \in Runs |-> 0] /\ left = [w \in Workers |-> MaxCalls]
  /\ toolLive = [w \in Workers |-> FALSE]
  /\ cpc = "ready" /\ copied = {} /\ todo = {} /\ quota = MaxCommands
  /\ late = {} /\ robbed = {}

Stopped(w)  == stop[RunOf(w)] # "no"
Flagged(w)  == IF w \in Runs THEN cancelled[inst[w]] ELSE cancelled[w]
Paused(w)   == w \in Runs /\ paused[inst[w]]
Goto(w, to) == pc' = [pc EXCEPT ![w] = to]
StopWith(r, why) == IF r = NoRun THEN stop ELSE [stop EXCEPT ![r] = IF @ = "no" THEN why ELSE @]

(* A worker's Run or Continue returns, and lets go of its mutex.           *)
Returns(w, what) ==
  /\ result' = [result EXCEPT ![w] = what]
  /\ IF w \in Runs THEN Goto(w, "clean") /\ mu' = [mu EXCEPT ![inst[w]] = NoRun]
                   ELSE Goto(w, "ended") /\ UNCHANGED mu

(* How an LLM or a tool call ends that saw the context done.               *)
StopResult(w) == IF Flagged(w) THEN "cancelled" ELSE IF Paused(w) THEN "paused" ELSE "error"

-----------------------------------------------------------------------------
(* The run.                                                                *)

(* The critical section of handleSendMessage.                              *)
Send(r) ==
  LET i == IF agents = NoRun THEN r ELSE agents IN
  /\ pc[r] = "unused" /\ cpc = "ready" /\ entry = NoRun
  /\ agents' = i /\ entry' = r
  /\ inst' = [inst EXCEPT ![r] = i] /\ kind' = [kind EXCEPT ![r] = "send"]
  /\ paused' = [paused EXCEPT ![i] = FALSE] /\ cancelled' = [cancelled EXCEPT ![i] = FALSE]
  /\ Goto(r, "lock")
  /\ UNCHANGED <<tracked, inMap, counted, mu, slots, row, stop, result, tasks, left,
                 toolLive, handler, ghosts>>

runUnchanged == UNCHANGED <<entry, agents, tracked, inMap, counted, row, kind, inst,
                            stop, handler, ghosts>>

Lock(r) ==
  /\ pc[r] = "lock" /\ mu[inst[r]] = NoRun
  /\ mu' = [mu EXCEPT ![inst[r]] = r]
  /\ paused' = [paused EXCEPT ![inst[r]] = @ /\ kind[r] # "resume"]
  /\ Goto(r, "decompose")
  /\ UNCHANGED <<cancelled, slots, result, tasks, left, toolLive>> /\ runUnchanged

(* A slot, or the end of the context: with both, either.                   *)
SlotOr(w, from, to, why) ==
  /\ pc[w] = from
  /\ \/ slots < Slots /\ slots' = slots + 1 /\ Goto(w, to) /\ UNCHANGED <<result, mu>>
     \/ Stopped(w) /\ Returns(w, why) /\ UNCHANGED slots
  /\ UNCHANGED <<flags, tasks, left, toolLive>> /\ runUnchanged

(* The answer gives the slot back.  Mutant: the run keeps the slot for its *)
(* summary.                                                                *)
KeptForSummary(w) == IF pc[w] = "planning" THEN slots ELSE slots - 1
Released(w) == slots - 1

(* The decomposition: an error, no tasks, or a child for each of them.     *)
Plan(r) ==
  /\ pc[r] = "planning" /\ slots' = Released(r)
  /\ \/ Returns(r, "error") /\ UNCHANGED tasks
     \/ Goto(r, "top") /\ UNCHANGED <<result, mu, tasks>>
     \/ \E n \in 1..MaxTasks[r] :
          /\ tasks' = [tasks EXCEPT ![r] = n]
          /\ pc' = [w \in Workers |-> IF w = r THEN "children"
                                      ELSE IF w \in {r} \X (1..n) THEN "spawn" ELSE pc[w]]
          /\ UNCHANGED <<result, mu>>
  /\ UNCHANGED <<flags, left, toolLive>> /\ runUnchanged

(* The channel of the results is closed.  Mutant: wg.Add in the goroutine: *)
(* one that has not begun is not waited for.                               *)
BegunEnded(r) == \A c \in {r} \X (1..tasks[r]) : pc[c] \in {"spawn", "ended"}
AllEnded(r)   == \A c \in {r} \X (1..tasks[r]) : pc[c] = "ended"

Collect(r) ==
  /\ pc[r] = "children" /\ AllEnded(r) /\ Goto(r, "synthesize")
  /\ UNCHANGED <<flags, mu, slots, result, tasks, left, toolLive>> /\ runUnchanged

(* Also with an error there is a summary.                                  *)
Summarize(r) ==
  /\ pc[r] = "summing" /\ slots' = Released(r) /\ Returns(r, "response")
  /\ UNCHANGED <<flags, tasks, left, toolLive>> /\ runUnchanged

Deadline(r) ==
  /\ pc[r] \notin {"unused", "clean", "settle", "done"} /\ stop[r] = "no"
  /\ stop' = [stop EXCEPT ![r] = "deadline"]
  /\ UNCHANGED <<maps, flags, mu, slots, row, pc, kind, inst, result, tasks, left,
                 toolLive, handler, ghosts>>

(* After Run: the children that are tracked leave the maps.  handleResume  *)
(* has nothing of the kind.  Mutant: those that failed stay.               *)
ForgetDone == {c \in tracked : result[c] = "response"}
Forgotten  == tracked

Clean(r) ==
  LET gone == IF kind[r] = "send" THEN Forgotten ELSE {} IN
  /\ pc[r] = "clean" /\ Goto(r, "settle") /\ entry' = NoRun
  /\ tracked' = IF kind[r] = "send" THEN {} ELSE tracked
  /\ inMap' = inMap \ gone /\ counted' = counted \ gone
  /\ robbed' = robbed \cup {c \in gone : c[1] # r}
  /\ UNCHANGED <<agents, flags, mu, slots, row, kind, inst, stop, result, tasks, left,
                 toolLive, handler, late>>

Settle(r) ==
  LET quiet == result[r] = "cancelled" /\ kind[r] = "send" IN
  /\ pc[r] = "settle" /\ Goto(r, "done")
  /\ cancelled' = [cancelled EXCEPT ![inst[r]] = @ /\ ~quiet]
  /\ paused' = [paused EXCEPT ![inst[r]] = @ /\ (quiet \/ result[r] = "paused")]
  /\ UNCHANGED <<mu, slots, result, tasks, left, toolLive>> /\ runUnchanged

RunStep(r) ==
  \/ Lock(r) \/ SlotOr(r, "decompose", "planning", "error") \/ Plan(r) \/ Collect(r)
  \/ SlotOr(r, "synthesize", "summing", "error") \/ Summarize(r) \/ Clean(r) \/ Settle(r)

-----------------------------------------------------------------------------
(* ChildSpawner.                                                           *)

childUnchanged == UNCHANGED <<entry, agents, flags, mu, slots, kind, inst, stop, tasks,
                              left, toolLive, handler, robbed>>

Spawn(c) ==
  /\ pc[c] = "spawn"
  /\ \/ row' = [row EXCEPT ![c] = "running"] /\ Goto(c, "track") /\ UNCHANGED result
     \/ Goto(c, "ended") /\ result' = [result EXCEPT ![c] = "error"] /\ UNCHANGED row
  /\ UNCHANGED <<tracked, inMap, counted, late>> /\ childUnchanged

Late(c)   == late' = IF Stopped(c) THEN late \cup {c} ELSE late
Astray(c) == late' = IF Stopped(c) \/ c \notin tracked \/ cpc = "cancel"
                     THEN late \cup {c} ELSE late

Track(c) ==
  /\ pc[c] = "track" /\ Goto(c, "count") /\ tracked' = tracked \cup {c} /\ Late(c)
  /\ UNCHANGED <<inMap, counted, row, result>> /\ childUnchanged

Count(c) ==
  /\ pc[c] = "count" /\ Goto(c, "enter") /\ counted' = counted \cup {c} /\ Astray(c)
  /\ UNCHANGED <<tracked, inMap, row, result>> /\ childUnchanged

Enter(c) ==
  /\ pc[c] = "enter" /\ Goto(c, "top") /\ inMap' = inMap \cup {c} /\ Astray(c)
  /\ UNCHANGED <<tracked, counted, row, result>> /\ childUnchanged

-----------------------------------------------------------------------------
(* The loop of a worker (AgentLoop).                                       *)

Top(w) ==
  /\ pc[w] = "top"
  /\ IF Stopped(w) \/ left[w] = 0
     THEN Returns(w, IF Stopped(w) THEN StopResult(w) ELSE "error") /\ UNCHANGED left
     ELSE /\ Goto(w, "wait") /\ left' = [left EXCEPT ![w] = @ - 1]
          /\ UNCHANGED <<result, mu>>
  /\ UNCHANGED <<flags, slots, tasks, toolLive>> /\ runUnchanged

Answer(w) ==
  /\ pc[w] = "llm" /\ slots' = Released(w)
  /\ \/ Returns(w, "response") \/ Returns(w, StopResult(w))
     \/ Goto(w, "call") /\ UNCHANGED <<result, mu>>
  /\ UNCHANGED <<flags, tasks, left, toolLive>> /\ runUnchanged

BeforeCall(w) ==
  /\ pc[w] = "call"
  /\ IF Flagged(w) \/ Paused(w)
     THEN Returns(w, StopResult(w)) /\ UNCHANGED toolLive
     ELSE /\ Goto(w, "tool") /\ toolLive' = [toolLive EXCEPT ![w] = TRUE]
          /\ UNCHANGED <<result, mu>>
  /\ UNCHANGED <<flags, slots, tasks, left>> /\ runUnchanged

ToolReturns(w) ==
  /\ pc[w] = "tool" /\ toolLive' = [toolLive EXCEPT ![w] = FALSE]
  /\ \/ ~Paused(w) /\ Returns(w, "response")
     \/ (Flagged(w) \/ Paused(w)) /\ Returns(w, StopResult(w))
     \/ ~Flagged(w) /\ ~Paused(w) /\ Goto(w, "top") /\ UNCHANGED <<result, mu>>
  /\ UNCHANGED <<flags, slots, tasks, left>> /\ runUnchanged

LoopStep(w) == \/ Top(w) \/ SlotOr(w, "wait", "llm", StopResult(w)) \/ Answer(w)
               \/ BeforeCall(w) \/ ToolReturns(w)

ChildStep(c) == Spawn(c) \/ Track(c) \/ Count(c) \/ Enter(c)

-----------------------------------------------------------------------------
(* The handlers of the client.                                             *)

Given(name) ==
  /\ cpc = "ready" /\ name \in Commands
  /\ UNCHANGED <<mu, slots, row, result, tasks, left, ghosts>>

Command(name) == Given(name) /\ quota > 0 /\ quota' = quota - 1

(* What handleCancel and cleanupAgent do to the instance.                  *)
StopInstance(i) ==
  /\ cancelled' = IF i = NoRun THEN cancelled ELSE [cancelled EXCEPT ![i] = TRUE]
  /\ toolLive' = [w \in Workers |->
                    toolLive[w] /\ ~(w \in Runs /\ inst[w] = i /\ pc[w] = "tool")]

Cancel ==
  /\ Command("cancel") /\ entry # NoRun
  /\ copied' = tracked /\ todo' = tracked
  /\ StopInstance(agents) /\ stop' = StopWith(entry, "cancel") /\ entry' = NoRun
  /\ cpc' = "cancel"
  /\ UNCHANGED <<agents, tracked, inMap, counted, paused, pc, kind, inst>>

Clear ==
  /\ Command("clear")
  /\ copied' = tracked /\ todo' = tracked /\ tracked' = {}
  /\ StopInstance(agents) /\ stop' = StopWith(entry, "clear") /\ entry' = NoRun
  /\ agents' = NoRun /\ cpc' = "clear"
  /\ UNCHANGED <<inMap, counted, paused, pc, kind, inst>>

Pause ==
  /\ Command("pause") /\ entry # NoRun
  /\ paused' = IF agents = NoRun THEN paused ELSE [paused EXCEPT ![agents] = TRUE]
  /\ stop' = StopWith(entry, "pause") /\ entry' = NoRun
  /\ UNCHANGED <<agents, tracked, inMap, counted, cancelled, pc, kind, inst, toolLive,
                 cpc, copied, todo>>

(* A resume makes a run, and is bounded by the runs there are.             *)
Resume(r) ==
  /\ Given("resume") /\ agents # NoRun /\ paused[agents] /\ pc[r] = "unused"
  /\ stop' = StopWith(entry, "resume") /\ entry' = r
  /\ kind' = [kind EXCEPT ![r] = "resume"] /\ inst' = [inst EXCEPT ![r] = agents]
  /\ Goto(r, "lock")
  /\ UNCHANGED <<agents, tracked, inMap, counted, flags, toolLive, handler>>

handlerUnchanged == UNCHANGED <<entry, agents, paused, mu, slots, pc, kind, inst, stop,
                                result, tasks, left, copied, quota, ghosts>>

(* cancelChildAgent.  Mutant: the tools go on.                             *)
ToolsKept(c)    == toolLive
ToolsStopped(c) == [toolLive EXCEPT ![c] = FALSE]

CancelChild(c) ==
  /\ cpc \in {"cancel", "clear"} /\ c \in todo /\ todo' = todo \ {c}
  /\ IF c \in inMap THEN /\ cancelled' = [cancelled EXCEPT ![c] = TRUE]
                         /\ toolLive' = ToolsStopped(c)
                    ELSE UNCHANGED <<cancelled, toolLive>>
  /\ inMap' = inMap \ {c} /\ counted' = counted \ {c}
  /\ UNCHANGED <<tracked, row, cpc>> /\ handlerUnchanged

Untrack ==
  /\ cpc = "cancel" /\ todo = {} /\ tracked' = {} /\ cpc' = "cancelRows"
  /\ UNCHANGED <<inMap, counted, cancelled, toolLive, row, todo>> /\ handlerUnchanged

(* The rows of the children: marked by a cancel, deleted by a clear.       *)
(* Mutant: of those that are still tracked.                                *)
MarkedTracked == [c \in Children |-> IF c \in tracked THEN "failed" ELSE row[c]]
Marked        == [c \in Children |-> IF c \in copied THEN "failed" ELSE row[c]]

CancelRows ==
  /\ cpc = "cancelRows" /\ cpc' = "ready" /\ row' = Marked
  /\ UNCHANGED <<tracked, inMap, counted, cancelled, toolLive, todo>> /\ handlerUnchanged

ClearRows ==
  /\ cpc = "clear" /\ todo = {} /\ cpc' = "ready"
  /\ row' = [c \in Children |-> IF row[c] = "none" THEN "none" ELSE "deleted"]
  /\ UNCHANGED <<tracked, inMap, counted, cancelled, toolLive, todo>> /\ handlerUnchanged

HandlerStep == Untrack \/ CancelRows \/ ClearRows \/ \E c \in Children : CancelChild(c)

Done == (\A w \in Workers : pc[w] \in {"unused", "ended", "done"}) /\ cpc = "ready"

Next ==
  \/ \E r \in Runs : Send(r) \/ RunStep(r) \/ Deadline(r) \/ Resume(r)
  \/ \E c \in Children : ChildStep(c)
  \/ \E w \in Workers : LoopStep(w)
  \/ Cancel \/ Clear \/ Pause \/ HandlerStep

Spec == Init /\ [][Next]_vars

-----------------------------------------------------------------------------
(* Properties.                                                             *)

MapTypes ==
  /\ entry \in Runs \cup {NoRun} /\ agents \in Runs \cup {NoRun}
  /\ tracked \subseteq Children /\ inMap \subseteq Children /\ counted \subseteq Children

RunTypes ==
  /\ paused \in [Runs -> BOOLEAN] /\ mu \in [Runs -> Runs \cup {NoRun}]
  /\ kind \in [Runs -> {"none", "send", "resume"}] /\ inst \in [Runs -> Runs \cup {NoRun}]
  /\ stop \in [Runs -> {"no", "cancel", "clear", "pause", "resume", "deadline"}]
  /\ tasks \in [Runs -> Nat]

Points  == {"unused", "lock", "decompose", "planning", "children", "synthesize", "summing",
            "clean", "settle", "done", "spawn", "track", "count", "enter", "top", "wait",
            "llm", "call", "tool", "ended"}
Results == {"none", "response", "cancelled", "paused", "error"}

WorkerTypes ==
  /\ pc \in [Workers -> Points] /\ result \in [Workers -> Results]
  /\ cancelled \in [Workers -> BOOLEAN] /\ left \in [Workers -> 0..MaxCalls]
  /\ toolLive \in [Workers -> BOOLEAN] /\ slots \in 0..Slots
  /\ row \in [Children -> {"none", "running", "failed", "deleted"}]

HandlerTypes ==
  /\ cpc \in {"ready", "cancel", "cancelRows", "clear"}
  /\ copied \subseteq Children /\ todo \subseteq copied /\ quota \in 0..MaxCommands
  /\ late \subseteq Children /\ robbed \subseteq Children

(* Every variable stays in its type.                                       *)
TypeOK == MapTypes /\ RunTypes /\ WorkerTypes /\ HandlerTypes

(* A run that has asked for a summary has the results of all its children. *)
SummaryOfAll ==
  \A r \in Runs : pc[r] \in {"synthesize", "summing"} =>
    \A c \in {r} \X (1..tasks[r]) : pc[c] = "ended" /\ result[c] # "none"

(* Once a cancel or a clear is over, no child of the run it stopped is in  *)
(* a tool with a live context, also none that was not yet in the maps when *)
(* it looked; but for those that the end of an earlier run has taken out.  *)
StopReachesChildren ==
  \A c \in Children :
    cpc = "ready" /\ stop[c[1]] \in {"cancel", "clear"} /\ toolLive[c] => c \in robbed

(* When all is quiet, a child of a cancelled run whose row says running    *)
(* was spawned across the cancel.                                          *)
CancelMarksChildren ==
  Done => \A c \in Children : stop[c[1]] = "cancel" /\ row[c] = "running" => c \in late \cup robbed

(* When all is quiet, what is left in the maps of the hub are children of  *)
(* resumed runs and those that a stop or the end of another run has        *)
(* overtaken.                                                              *)
MapsEmptied ==
  Done => \A c \in inMap \cup counted \cup tracked : c \in late \cup robbed \/ kind[c[1]] = "resume"

(* Who waits for an answer of the LLM.                                     *)
InCall == {w \in Workers : pc[w] \in {"planning", "llm", "summing"}}

(* The slots in use are those of the calls that the LLM is working on:     *)
(* nobody keeps one while he waits for others or after an error, so that   *)
(* with a single slot all children come to their turn.                     *)
SlotsReturned == slots = Cardinality(InCall)
=============================================================================
