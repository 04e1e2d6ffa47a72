---------------------------- MODULE AgentSession ----------------------------
(***************************************************************************)
(* The life of one agent session in the hub (api/ws.go): the goroutines    *)
(* that run the agent for a message or a resume, the commands the clients  *)
(* issue meanwhile, and the state they share: the maps of the hub under    *)
(* agentMu, the message queue under queueMu, the agent's flags and         *)
(* intervention slot, its mutex, and its row of the chats table.           *)
(*                                                                         *)
(* A step is one critical section, one access to the database, or one stay *)
(* between two points where the goroutine looks at shared state.  Every    *)
(* access in a handler uses the same agent ID, so one session is enough.   *)
(***************************************************************************)
EXTENDS Naturals, Sequences

CONSTANTS
  Runs,        \* the goroutines of handleSendMessage and handleResume
  Msgs,        \* the user messages
  Clients,     \* goroutines that execute handlers: readPumps, HTTP requests
  Mode,        \* agt.Mode
  Commands,    \* the commands the clients use besides send_message
  MaxCommands, \* bound on the number of such commands
  MaxIter,     \* iterations of runLoopWithMaxIterations (25, 100 in oneshot)
  MaxCalls,    \* bound on the tool calls of one LLM answer
  MaxFailures, \* maxConsecutiveFailures of infinite mode
  NoRun,       \* no entry in a map keyed by agent ID
  NoMsg        \* the empty string

CommandNames ==
  {"cancel", "pause", "resume", "clear", "delete", "intervene"}

(* ValidateTypeMode; the orchestrator mode has a module of its own.        *)
Modes == {"direct", "oneshot", "infinite"}

ASSUME ModeAssumption     == Mode \in Modes
ASSUME CommandsAssumption == Commands \subseteq CommandNames
ASSUME BoundsAssumption   == /\ MaxCommands \in Nat
                             /\ MaxIter \in Nat \ {0}
                             /\ MaxCalls \in Nat \ {0}
                             /\ MaxFailures \in Nat \ {0}
ASSUME NoRunAssumption    == NoRun \notin Runs
ASSUME NoMsgAssumption    == NoMsg \notin Msgs

(* An *agent.Agent is made by the send run that finds none in the map, at  *)
(* most one per run: the instance bears the name of that run.              *)
Insts == Runs

VARIABLES
  cancels,     \* cancels[agentID]: the run whose cancel function it is
  agents,      \* agents[agentID]: the instance
  lastActive,  \* agentLastActive[agentID]: none, recent, or over 30 minutes
  paused,      \* Agent.paused of each instance
  cancelled,   \* Agent.cancelled of each instance
  muHolder,    \* who holds Agent.mu of each instance
  slot,        \* Agent.intervention of each instance
  queue,       \* queues[agentID]
  rowExists,   \* the row of table chats exists
  rowRunning,  \* its column running
  rowStatus,   \* its column status
  pc,          \* where each run is
  inst,        \* the instance a run works on
  msg,         \* the message a send run carries; NoMsg in a resume run
  stop,        \* why ctx of the run is done; "no" while it is not
  result,      \* what Run or Continue returned
  left,        \* iterations left in runLoopWithMaxIterations
  calls,       \* tool calls of the last answer not yet executed
  fails,       \* consecutiveFailures of runAutomatedLoop
  cpc,         \* where each client's handler is
  carry,       \* the message that handler still has to hand over
  quota,       \* commands the clients may still issue
  sent,        \* history: messages sent
  delivered    \* history: how often a message was appended to a History

registry  == <<cancels, agents, lastActive>>
flags     == <<paused, cancelled>>
row       == <<rowExists, rowRunning, rowStatus>>
loopVars  == <<left, calls, fails>>
runVars   == <<pc, inst, msg, stop, result, left, calls, fails>>
client    == <<cpc, carry, quota>>
history   == <<sent, delivered>>
vars == <<cancels, agents, lastActive, paused, cancelled, muHolder, slot, queue,
          rowExists, rowRunning, rowStatus, pc, inst, msg, stop, result, left,
          calls, fails, cpc, carry, quota, sent, delivered>>

automated == Mode \in {"oneshot", "infinite"}

(* Program points.  A registered run has put its cancel function in the    *)
(* map and has not yet deleted the entry; a run in the loop holds a.mu.    *)
LoopPoints       == {"top", "llm", "tools", "ran", "between", "backoff"}
RegisteredPoints == LoopPoints \cup {"lock", "restore", "relock", "clean"}
RunPoints == RegisteredPoints \cup
             {"unused", "begin", "register", "resume", "settle", "pop", "mark", "done"}
ClientPoints == {"ready", "queue", "intervene", "cancel", "cancelDb", "pauseDb",
                 "clear", "delete", "deleteRow"}

(* Mutant: ctx.Done is never looked at.                                    *)
NeverStopped(r) == FALSE /\ pc[r] = "top"

Live(r)     == pc[r] \notin {"unused", "done"}
InLoop(r)   == pc[r] \in LoopPoints
Stopped(r)  == stop[r] # "no"
IsResume(r) == msg[r] = NoMsg

(* Goroutines that were not started yet are alike, and so are messages     *)
(* that were not sent: taking a fixed one loses no behaviour.              *)
NextRun == CHOOSE r \in Runs : pc[r] = "unused"
NextMsg == CHOOSE m \in Msgs : m \notin sent

(* The row as createAgent makes it, with the defaults of its columns.      *)
Created == rowExists = TRUE /\ rowRunning = FALSE /\ rowStatus = "idle"

Init ==
  /\ cancels = NoRun /\ agents = NoRun /\ lastActive = "none"
  /\ paused    = [i \in Insts |-> FALSE]
  /\ cancelled = [i \in Insts |-> FALSE]
  /\ muHolder  = [i \in Insts |-> NoRun]
  /\ slot      = [i \in Insts |-> NoMsg]
  /\ queue = <<>> /\ Created
  /\ pc     = [r \in Runs |-> "unused"]
  /\ inst   = [r \in Runs |-> NoRun]
  /\ msg    = [r \in Runs |-> NoMsg]
  /\ stop   = [r \in Runs |-> "no"]
  /\ result = [r \in Runs |-> "none"]
  /\ left   = [r \in Runs |-> 0]
  /\ calls  = [r \in Runs |-> 0]
  /\ fails  = [r \in Runs |-> 0]
  /\ cpc    = [c \in Clients |-> "ready"]
  /\ carry  = [c \in Clients |-> NoMsg]
  /\ quota = MaxCommands
  /\ sent = {} /\ delivered = [m \in Msgs |-> 0]

(* cancel() of run r: only the first cancellation of a context counts.     *)
StopWith(r, why) == [stop EXCEPT ![r] = IF @ = "no" THEN why ELSE @]

(* The cancel entry once a run is over.  Mutant: it is left in the map.    *)
EntryKept        == cancels
EntryAfterReturn == NoRun

(* a.mu can be taken.  Mutant: it is taken unconditionally.                *)
LockIgnored(i) == i \in Insts
LockFree(i)    == muHolder[i] = NoRun

(* Run appends the user message to the History, also when its context is   *)
(* done by then.  Mutant: then it does not.                                *)
AppendedUnlessStopped(r) ==
  IF stop[r] = "no" THEN [delivered EXCEPT ![msg[r]] = @ + 1] ELSE delivered
Appended(r) == [delivered EXCEPT ![msg[r]] = @ + 1]

(* Every iteration counts.  Mutant: a repeated answer starts it anew.      *)
NotCounted(r)     == left[r]
AfterIteration(r) == left[r] - 1

(* A run that ends as cancelled leaves the row alone, unless it is a       *)
(* resume.  Mutant: handleResume does as handleSendMessage.                *)
QuietAlike(r)   == result[r] = "cancelled"
ExitsQuietly(r) == result[r] = "cancelled" /\ ~IsResume(r)

(* The queue without the popped head.  Mutant: the head stays.             *)
HeadKept == queue
Popped   == Tail(queue)

SetRunning(b) == rowRunning' = (rowExists /\ b)
Goto(r, to)   == pc' = [pc EXCEPT ![r] = to]

-----------------------------------------------------------------------------
(* handleMessage: what a client's read pump does with a command.           *)

Became(c, to) == cpc' = [cpc EXCEPT ![c] = to]

(* send_message: one look at both maps decides between a new run, the      *)
(* queue, and (automated agents) the intervention slot.                    *)
SendMessage(c) ==
  \E m \in Msgs \ sent :
    /\ m = NextMsg
    /\ cpc[c] = "ready"
    /\ sent' = sent \cup {m}
    /\ \/ /\ cancels # NoRun
          /\ Became(c, IF automated /\ agents # NoRun THEN "intervene" ELSE "queue")
          /\ carry' = [carry EXCEPT ![c] = m]
          /\ UNCHANGED <<pc, msg>>
       \/ /\ cancels = NoRun
          /\ \E r \in Runs : /\ pc[r] = "unused" /\ r = NextRun
                             /\ Goto(r, "begin")
                             /\ msg' = [msg EXCEPT ![r] = m]
          /\ UNCHANGED <<cpc, carry>>
    /\ UNCHANGED <<registry, flags, muHolder, slot, queue, row, inst, stop,
                   result, loopVars, quota, delivered>>

(* queueMessage: the append, after the message was saved and broadcast.    *)
QueueMessage(c) ==
  /\ cpc[c] = "queue"
  /\ queue' = Append(queue, carry[c])
  /\ Became(c, "ready")
  /\ carry' = [carry EXCEPT ![c] = NoMsg]
  /\ UNCHANGED <<registry, flags, muHolder, slot, row, runVars, quota, history>>

(* handleIntervene: without an instance the message goes nowhere, with one *)
(* it replaces whatever is in the slot.                                    *)
Intervene(c) ==
  /\ cpc[c] = "intervene"
  /\ IF agents = NoRun THEN UNCHANGED slot
                       ELSE slot' = [slot EXCEPT ![agents] = carry[c]]
  /\ Became(c, "ready")
  /\ carry' = [carry EXCEPT ![c] = NoMsg]
  /\ UNCHANGED <<registry, flags, muHolder, queue, row, runVars, quota, history>>

Issue(c, command) ==
  /\ cpc[c] = "ready"
  /\ command \in Commands
  /\ quota > 0
  /\ quota' = quota - 1

InterveneCommand(c) ==
  \E m \in Msgs \ sent :
    /\ m = NextMsg
    /\ Issue(c, "intervene")
    /\ sent' = sent \cup {m}
    /\ Became(c, "intervene")
    /\ carry' = [carry EXCEPT ![c] = m]
    /\ UNCHANGED <<registry, flags, muHolder, slot, queue, row, runVars, delivered>>

(* cancel, clear and delete first clear the queue.                         *)
ClearQueue(c, command) ==
  /\ Issue(c, command)
  /\ queue' = <<>>
  /\ Became(c, command)
  /\ UNCHANGED <<registry, flags, muHolder, slot, row, runVars, carry, history>>

(* handleCancel, the critical section: nothing without an entry, otherwise *)
(* flag, cancel and delete the entry.                                      *)
Cancel(c) ==
  /\ cpc[c] = "cancel"
  /\ \/ /\ cancels = NoRun
        /\ Became(c, "ready")
        /\ UNCHANGED <<cancels, cancelled, stop>>
     \/ /\ cancels # NoRun
        /\ cancelled' = [i \in Insts |-> i = agents \/ cancelled[i]]
        /\ stop' = StopWith(cancels, "cancel")
        /\ cancels' = NoRun
        /\ Became(c, "cancelDb")
  /\ UNCHANGED <<agents, lastActive, paused, muHolder, slot, queue, row, pc,
                 inst, msg, result, loopVars, carry, quota, history>>

CancelDb(c) ==
  /\ cpc[c] = "cancelDb"
  /\ SetRunning(FALSE)
  /\ rowStatus' = IF rowExists THEN "failed" ELSE rowStatus
  /\ Became(c, "ready")
  /\ UNCHANGED <<registry, flags, muHolder, slot, queue, rowExists, runVars,
                 carry, quota, history>>

(* handlePause: as cancel, with the other flag.                            *)
Pause(c) ==
  /\ Issue(c, "pause")
  /\ \/ /\ cancels = NoRun
        /\ UNCHANGED <<cancels, paused, stop, cpc>>
     \/ /\ cancels # NoRun
        /\ paused' = [i \in Insts |-> i = agents \/ paused[i]]
        /\ stop' = StopWith(cancels, "pause")
        /\ cancels' = NoRun
        /\ Became(c, "pauseDb")
  /\ UNCHANGED <<agents, lastActive, cancelled, muHolder, slot, queue, row, pc,
                 inst, msg, result, loopVars, carry, history>>

PauseDb(c) ==
  /\ cpc[c] = "pauseDb"
  /\ SetRunning(FALSE)
  /\ Became(c, "ready")
  /\ UNCHANGED <<registry, flags, muHolder, slot, queue, rowExists, rowStatus,
                 runVars, carry, quota, history>>

(* resume starts a goroutine without looking at anything.                  *)
Resume(c) ==
  /\ Issue(c, "resume")
  /\ \E r \in Runs : pc[r] = "unused" /\ r = NextRun /\ Goto(r, "resume")
  /\ UNCHANGED <<registry, flags, muHolder, slot, queue, row, inst, msg, stop,
                 result, loopVars, cpc, carry, history>>

(* cleanupAgent, the critical section: the session leaves every map.       *)
CleanupAgent(c) ==
  /\ cpc[c] \in {"clear", "delete"}
  /\ cancelled' = [i \in Insts |-> i = agents \/ cancelled[i]]
  /\ stop' = IF cancels = NoRun THEN stop ELSE StopWith(cancels, "clear")
  /\ cancels' = NoRun /\ agents' = NoRun /\ lastActive' = "none"
  /\ Became(c, IF cpc[c] = "clear" THEN "ready" ELSE "deleteRow")
  /\ UNCHANGED <<paused, muHolder, slot, queue, row, pc, inst, msg, result,
                 loopVars, carry, quota, history>>

(* deleteAgent: the row goes after the in-memory state.                    *)
DeleteRow(c) ==
  /\ cpc[c] = "deleteRow"
  /\ rowExists' = FALSE /\ rowRunning' = FALSE /\ rowStatus' = "idle"
  /\ Became(c, "ready")
  /\ UNCHANGED <<registry, flags, muHolder, slot, queue, runVars, carry, quota,
                 history>>

ClientStep(c) ==
  \/ SendMessage(c) \/ QueueMessage(c)
  \/ InterveneCommand(c) \/ Intervene(c)
  \/ \E command \in {"cancel", "clear", "delete"} : ClearQueue(c, command)
  \/ Cancel(c) \/ CancelDb(c)
  \/ Pause(c) \/ PauseDb(c)
  \/ Resume(c)
  \/ CleanupAgent(c) \/ DeleteRow(c)

-----------------------------------------------------------------------------
(* handleSendMessage up to a.mu.                                           *)

(* The row is looked up, the user message is saved.                        *)
Begin(r) ==
  /\ pc[r] = "begin"
  /\ Goto(r, IF rowExists THEN "register" ELSE "done")
  /\ UNCHANGED <<registry, flags, muHolder, slot, queue, row, inst, msg, stop,
                 result, loopVars, client, history>>

(* The critical section: mark running, take or make the instance, reset    *)
(* both flags, and put the cancel function in the map.                     *)
Register(r) ==
  LET i == IF agents = NoRun THEN r ELSE agents IN
  /\ pc[r] = "register"
  /\ SetRunning(TRUE)
  /\ agents' = i
  /\ inst' = [inst EXCEPT ![r] = i]
  /\ paused' = [paused EXCEPT ![i] = FALSE]
  /\ cancelled' = [cancelled EXCEPT ![i] = FALSE]
  /\ cancels' = r
  /\ Goto(r, "lock")
  /\ UNCHANGED <<lastActive, muHolder, slot, queue, rowExists, rowStatus, msg,
                 stop, result, loopVars, client, history>>

(* Agent.Run: lock, append the user message, enter the loop of the mode.   *)
Lock(r) ==
  /\ pc[r] = "lock"
  /\ LockFree(inst[r])
  /\ muHolder' = [muHolder EXCEPT ![inst[r]] = r]
  /\ delivered' = Appended(r)
  /\ left' = [left EXCEPT ![r] = MaxIter]
  /\ Goto(r, "top")
  /\ UNCHANGED <<registry, flags, slot, queue, row, inst, msg, stop, result,
                 calls, fails, client, sent>>

(* handleResume, the critical section: nothing unless the instance is      *)
(* paused; a context still in the map is cancelled and replaced.           *)
BeginResume(r) ==
  /\ pc[r] = "resume"
  /\ \/ /\ agents = NoRun
        /\ Goto(r, "done")
        /\ UNCHANGED <<cancels, inst, stop>>
     \/ /\ agents # NoRun /\ ~paused[agents]
        /\ Goto(r, "done")
        /\ UNCHANGED <<cancels, inst, stop>>
     \/ /\ agents # NoRun /\ paused[agents]
        /\ stop' = IF cancels = NoRun THEN stop ELSE StopWith(cancels, "stale")
        /\ cancels' = r
        /\ inst' = [inst EXCEPT ![r] = agents]
        /\ Goto(r, "restore")
  /\ UNCHANGED <<agents, lastActive, flags, muHolder, slot, queue, row, msg,
                 result, loopVars, client, history>>

(* The slot is restored (up to 5 s), then the row is marked running.       *)
Restore(r) ==
  /\ pc[r] = "restore"
  /\ SetRunning(TRUE)
  /\ rowStatus' = IF rowExists THEN "running" ELSE rowStatus
  /\ Goto(r, "relock")
  /\ UNCHANGED <<registry, flags, muHolder, slot, queue, rowExists, inst, msg,
                 stop, result, loopVars, client, history>>

(* Agent.Continue: lock, clear the paused flag, enter the loop.            *)
Relock(r) ==
  /\ pc[r] = "relock"
  /\ LockFree(inst[r])
  /\ muHolder' = [muHolder EXCEPT ![inst[r]] = r]
  /\ paused' = [paused EXCEPT ![inst[r]] = FALSE]
  /\ left' = [left EXCEPT ![r] = MaxIter]
  /\ Goto(r, "top")
  /\ UNCHANGED <<registry, cancelled, slot, queue, row, inst, msg, stop, result,
                 calls, fails, client, history>>

-----------------------------------------------------------------------------
(* The agent loop, as far as the session can see it.                       *)

(* What a done context, or a failed LLM call, is turned into.              *)
StopResult(i) ==
  CASE cancelled[i]               -> "cancelled"
    [] ~cancelled[i] /\ paused[i] -> "paused"
    [] OTHER                      -> "error"

(* Run or Continue returns: a.mu is unlocked, the loop's locals are gone.  *)
Return(r, res) ==
  /\ result' = [result EXCEPT ![r] = res]
  /\ muHolder' = [muHolder EXCEPT ![inst[r]] = NoRun]
  /\ left' = [left EXCEPT ![r] = 0]
  /\ calls' = [calls EXCEPT ![r] = 0]
  /\ fails' = [fails EXCEPT ![r] = 0]
  /\ Goto(r, "clean")

(* runLoopWithMaxIterations returns.  In infinite mode an answer leads to  *)
(* the 5 s between iterations and a failure, up to a limit, to the 30 s    *)
(* of backoff; everything else returns.                                    *)
EndLoop(r, res) ==
  LET again == Mode = "infinite" /\
               (res = "ok" \/ (res = "error" /\ fails[r] + 1 < MaxFailures))
  IN
  \/ /\ again
     /\ fails' = [fails EXCEPT ![r] = IF res = "ok" THEN 0 ELSE @ + 1]
     /\ Goto(r, IF res = "ok" THEN "between" ELSE "backoff")
     /\ left' = [left EXCEPT ![r] = 0]
     /\ calls' = [calls EXCEPT ![r] = 0]
     /\ UNCHANGED <<result, muHolder>>
  \/ ~again /\ Return(r, res)

(* checkIntervention takes the message, and the caller appends it.         *)
(* Mutant: the message stays in the slot.                                  *)
SlotKept(i)    == [slot EXCEPT ![i] = slot[i]]
SlotCleared(i) == [slot EXCEPT ![i] = NoMsg]

TakeIntervention(i) ==
  /\ slot' = SlotCleared(i)
  /\ delivered' = IF slot[i] = NoMsg THEN delivered
                  ELSE [delivered EXCEPT ![slot[i]] = @ + 1]

inLoopUnchanged == <<registry, flags, queue, row, inst, msg, stop, client, sent>>

(* i < maxIterations.                                                      *)
IterationsLeft(r) == left[r] > 0

(* Head of an iteration: the iteration cap, then ctx.Done, then the        *)
(* intervention.                                                           *)
LoopTop(r) ==
  /\ pc[r] = "top"
  /\ \/ /\ ~IterationsLeft(r)
        /\ EndLoop(r, "error")
        /\ UNCHANGED <<slot, delivered>>
     \/ /\ IterationsLeft(r) /\ Stopped(r)
        /\ EndLoop(r, StopResult(inst[r]))
        /\ UNCHANGED <<slot, delivered>>
     \/ /\ IterationsLeft(r) /\ ~Stopped(r)
        /\ left' = [left EXCEPT ![r] = AfterIteration(r)]
        /\ TakeIntervention(inst[r])
        /\ Goto(r, "llm")
        /\ UNCHANGED <<result, calls, fails, muHolder>>
  /\ UNCHANGED inLoopUnchanged

(* The LLM call fails, also when ctx is done while it waits for the        *)
(* semaphore or streams; or it answers without a tool call.                *)
LlmFails(r) ==
  /\ pc[r] = "llm"
  /\ EndLoop(r, StopResult(inst[r]))
  /\ UNCHANGED <<inLoopUnchanged, slot, delivered>>

LlmAnswers(r) ==
  /\ pc[r] = "llm"
  /\ EndLoop(r, "ok")
  /\ UNCHANGED <<inLoopUnchanged, slot, delivered>>

(* The answer repeats the last one, repeats its tool calls, or is empty.   *)
LlmRepeats(r) ==
  /\ pc[r] = "llm"
  /\ Goto(r, "top")
  /\ UNCHANGED <<inLoopUnchanged, muHolder, result, loopVars, slot, delivered>>

LlmCallsTools(r) ==
  /\ pc[r] = "llm"
  /\ \E n \in 1..MaxCalls : calls' = [calls EXCEPT ![r] = n]
  /\ Goto(r, "tools")
  /\ UNCHANGED <<inLoopUnchanged, muHolder, result, left, fails, slot, delivered>>

(* Before a tool call: cancelled, then paused, then the intervention.      *)
ToolCheck(r) ==
  /\ pc[r] = "tools"
  /\ \/ /\ cancelled[inst[r]]
        /\ EndLoop(r, "cancelled")
        /\ UNCHANGED <<slot, delivered>>
     \/ /\ ~cancelled[inst[r]] /\ paused[inst[r]]
        /\ EndLoop(r, "paused")
        /\ UNCHANGED <<slot, delivered>>
     \/ /\ ~cancelled[inst[r]] /\ ~paused[inst[r]]
        /\ TakeIntervention(inst[r])
        /\ calls' = [calls EXCEPT ![r] = @ - 1]
        /\ Goto(r, "ran")
        /\ UNCHANGED <<result, left, fails, muHolder>>
  /\ UNCHANGED inLoopUnchanged

(* After a tool call: one that failed because of a cancel returns;         *)
(* otherwise the next call or, after the last one, the pause check, then   *)
(* the answer of a response tool or the next iteration.                    *)
ToolRan(r) ==
  /\ pc[r] = "ran"
  /\ \/ cancelled[inst[r]] /\ EndLoop(r, "cancelled")
     \/ calls[r] = 0 /\ paused[inst[r]] /\ EndLoop(r, "paused")
     \/ calls[r] = 0 /\ ~paused[inst[r]] /\ EndLoop(r, "ok")
     \/ /\ \/ calls[r] > 0 /\ Goto(r, "tools")
           \/ calls[r] = 0 /\ ~paused[inst[r]] /\ Goto(r, "top")
        /\ UNCHANGED <<result, loopVars, muHolder>>
  /\ UNCHANGED <<inLoopUnchanged, slot, delivered>>

(* Infinite mode: the pause between iterations and the backoff end with    *)
(* their timer or with ctx.Done.  Only the backoff does not look at the    *)
(* flags when it is ended by ctx.Done.                                     *)
NextIteration(r) ==
  /\ pc[r] \in {"between", "backoff"}
  /\ \/ Stopped(r) /\ Return(r, StopResult(inst[r]))
     \/ Stopped(r) /\ pc[r] = "backoff" /\ Return(r, "error")
     \/ /\ ~Stopped(r)
        /\ left' = [left EXCEPT ![r] = MaxIter]
        /\ Goto(r, "top")
        /\ UNCHANGED <<result, calls, fails, muHolder>>
  /\ UNCHANGED <<inLoopUnchanged, slot, delivered>>

LoopStep(r) ==
  \/ LoopTop(r)
  \/ LlmFails(r) \/ LlmAnswers(r) \/ LlmRepeats(r) \/ LlmCallsTools(r)
  \/ ToolCheck(r) \/ ToolRan(r)
  \/ NextIteration(r)

(* The deadline of the context; infinite mode has none.                    *)
Timeout(r) ==
  /\ Mode # "infinite"
  /\ pc[r] \in RegisteredPoints \ {"clean"}
  /\ ~Stopped(r)
  /\ stop' = StopWith(r, "timeout")
  /\ UNCHANGED <<registry, flags, muHolder, slot, queue, row, pc, inst, msg,
                 result, loopVars, client, history>>

-----------------------------------------------------------------------------
(* handleSendMessage and handleResume after the agent returned.            *)

(* delete(h.cancels, agentID): whoever's entry it is by now.  The run has  *)
(* no more use for its own context.                                        *)
Clean(r) ==
  /\ pc[r] = "clean"
  /\ cancels' = EntryAfterReturn
  /\ lastActive' = IF IsResume(r) THEN lastActive ELSE "recent"
  /\ stop' = [stop EXCEPT ![r] = "no"]
  /\ Goto(r, IF result[r] = "paused" THEN "done" ELSE "settle")
  /\ UNCHANGED <<agents, flags, muHolder, slot, queue, row, inst, msg, result,
                 loopVars, client, history>>

(* A cancelled send run resets its flag and is done; all others clear the  *)
(* paused flag and go on.                                                  *)
Settle(r) ==
  /\ pc[r] = "settle"
  /\ \/ /\ ExitsQuietly(r)
        /\ cancelled' = [cancelled EXCEPT ![inst[r]] = FALSE]
        /\ Goto(r, "done")
        /\ UNCHANGED paused
     \/ /\ ~ExitsQuietly(r)
        /\ paused' = [paused EXCEPT ![inst[r]] = FALSE]
        /\ Goto(r, IF IsResume(r) THEN "mark" ELSE "pop")
        /\ UNCHANGED cancelled
  /\ result' = [result EXCEPT ![r] = "none"]
  /\ UNCHANGED <<registry, muHolder, slot, queue, row, inst, msg, stop,
                 loopVars, client, history>>

(* popQueue: the head gets a goroutine of its own, which leaves the row    *)
(* marked running; an empty queue lets this run mark it not running.       *)
Pop(r) ==
  /\ pc[r] = "pop"
  /\ \/ /\ queue = <<>>
        /\ Goto(r, "mark")
        /\ UNCHANGED <<queue, msg>>
     \/ /\ queue # <<>>
        /\ \E n \in Runs :
             /\ pc[n] = "unused" /\ n = NextRun
             /\ pc' = [pc EXCEPT ![r] = "done", ![n] = "begin"]
             /\ msg' = [msg EXCEPT ![n] = Head(queue)]
        /\ queue' = Popped
  /\ UNCHANGED <<registry, flags, muHolder, slot, row, inst, stop, result,
                 loopVars, client, history>>

Mark(r) ==
  /\ pc[r] = "mark"
  /\ SetRunning(FALSE)
  /\ Goto(r, "done")
  /\ UNCHANGED <<registry, flags, muHolder, slot, queue, rowExists, rowStatus,
                 inst, msg, stop, result, loopVars, client, history>>

RunStep(r) ==
  \/ Begin(r) \/ Register(r) \/ Lock(r)
  \/ BeginResume(r) \/ Restore(r) \/ Relock(r)
  \/ LoopStep(r)
  \/ Clean(r) \/ Settle(r) \/ Pop(r) \/ Mark(r)

-----------------------------------------------------------------------------
(* Half an hour passes since the last activity.  In direct mode no run     *)
(* lasts that long: its context ends after 10 minutes and the tools in     *)
(* progress after 5 more.                                                  *)
Expire ==
  /\ lastActive = "recent"
  /\ Mode # "direct" \/ \A r \in Runs : ~Live(r)
  /\ lastActive' = "expired"
  /\ UNCHANGED <<cancels, agents, flags, muHolder, slot, queue, row, runVars,
                 client, history>>

(* cleanupIdleAgents.                                                      *)
CleanupIdle ==
  /\ lastActive = "expired"
  /\ cancels = NoRun
  /\ agents # NoRun => ~paused[agents]
  /\ agents' = NoRun /\ lastActive' = "none"
  /\ UNCHANGED <<cancels, flags, muHolder, slot, queue, row, runVars, client,
                 history>>

Quiescent ==
  /\ \A r \in Runs : ~Live(r)
  /\ \A c \in Clients : cpc[c] = "ready"

(* The users have nothing more to say and every handler has returned.      *)
Terminating ==
  /\ Quiescent
  /\ sent = Msgs \/ \A r \in Runs : pc[r] # "unused"
  /\ UNCHANGED vars

Next ==
  \/ \E c \in Clients : ClientStep(c)
  \/ \E r \in Runs : RunStep(r) \/ Timeout(r)
  \/ Expire \/ CleanupIdle
  \/ Terminating

Spec == Init /\ [][Next]_vars

(* What is started is scheduled: every goroutine that can take a step of   *)
(* its own takes one, and every handler that was entered goes on.  Users   *)
(* need not issue commands, and timers other than those inside the loop    *)
(* need not fire.                                                          *)
HandlerStep(c) ==
  \/ QueueMessage(c) \/ Intervene(c) \/ Cancel(c) \/ CancelDb(c) \/ PauseDb(c)
  \/ CleanupAgent(c) \/ DeleteRow(c)

Fairness ==
  /\ \A r \in Runs : WF_vars(RunStep(r))
  /\ \A c \in Clients : WF_vars(HandlerStep(c))

FairSpec == Spec /\ Fairness

-----------------------------------------------------------------------------
(* Properties.                                                             *)

TypeOK ==
  /\ cancels \in Runs \cup {NoRun}
  /\ agents \in Insts \cup {NoRun}
  /\ lastActive \in {"none", "recent", "expired"}
  /\ paused \in [Insts -> BOOLEAN] /\ cancelled \in [Insts -> BOOLEAN]
  /\ muHolder \in [Insts -> Runs \cup {NoRun}]
  /\ slot \in [Insts -> Msgs \cup {NoMsg}]
  /\ queue \in Seq(Msgs)
  /\ rowExists \in BOOLEAN /\ rowRunning \in BOOLEAN
  /\ rowStatus \in {"idle", "running", "failed"}
  /\ pc \in [Runs -> RunPoints]
  /\ inst \in [Runs -> Insts \cup {NoRun}]
  /\ msg \in [Runs -> Msgs \cup {NoMsg}]
  /\ stop \in [Runs -> {"no", "cancel", "pause", "clear", "stale", "timeout"}]
  /\ result \in [Runs -> {"none", "ok", "error", "paused", "cancelled"}]
  /\ left \in [Runs -> 0..MaxIter]
  /\ calls \in [Runs -> 0..MaxCalls]
  /\ fails \in [Runs -> 0..MaxFailures]
  /\ cpc \in [Clients -> ClientPoints]
  /\ carry \in [Clients -> Msgs \cup {NoMsg}]
  /\ quota \in 0..MaxCommands
  /\ sent \subseteq Msgs
  /\ delivered \in [Msgs -> Nat]

(* A cancel function in the map is that of a run that is still going and   *)
(* that works on the very instance the other map holds: what a cancel, a   *)
(* pause or a clear flags is what the run it cancels will look at.         *)
RegistryInv ==
  cancels # NoRun =>
    /\ pc[cancels] \in RegisteredPoints
    /\ agents # NoRun /\ inst[cancels] = agents

(* Two runs never work on the History of one instance at a time, however   *)
(* many goroutines double sends and resumes have started.                  *)
HistoryGuarded ==
  \A r, s \in Runs : InLoop(r) /\ InLoop(s) /\ inst[r] = inst[s] => r = s

(* When every goroutine and handler is done, the row does not say that the *)
(* agent is running: whatever cancels, pauses and resumes crossed, the     *)
(* last write of the column was FALSE.                                     *)
SettledNotRunning == Quiescent => ~rowRunning

(* Once the context of an executing run is done the run ends, in every     *)
(* mode: also in infinite mode, where nothing else need end it.            *)
StopTakesEffect ==
  \A r \in Runs : stop[r] # "no" /\ InLoop(r) ~> pc[r] = "done"

(* A message a goroutine was started for enters a History: none waits      *)
(* forever for a.mu.                                                       *)
StartedIsDelivered ==
  \A m \in Msgs : (\E r \in Runs : msg[r] = m) ~> (delivered[m] = 1)

(* The session comes to rest.                                              *)
EventuallyQuiescent == <>[]Quiescent
=============================================================================
