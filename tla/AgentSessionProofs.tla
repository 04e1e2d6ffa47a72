------------------------- MODULE AgentSessionProofs -------------------------
(***************************************************************************)
(* Theorems about AgentSession for all values of its constants.            *)
(***************************************************************************)
EXTENDS AgentSessionDelivery, TLAPS

(* What the program points say about a goroutine's locals.                 *)
LocalsOK ==
  /\ \A r \in Runs : pc[r] \in RegisteredPoints \cup {"settle"} => inst[r] \in Insts
  /\ \A r \in Runs : pc[r] = "tools" => calls[r] > 0
  /\ \A c \in Clients : cpc[c] \in {"queue", "intervene"} => carry[c] \in Msgs

(* A run in the loop holds the mutex of its instance.                      *)
MutexInv == \A r \in Runs : InLoop(r) => muHolder[inst[r]] = r

TypeInv == TypeOK /\ LocalsOK
IInv    == TypeInv /\ RegistryInv /\ MutexInv

(* SettledNotRunning, made inductive: while the row says running, some     *)
(* handler is about to write FALSE, or some run is on its way to doing so, *)
(* and a flag that would make it return without is not set.                *)
Marks(r) ==
  \/ pc[r] \in {"begin", "register", "relock", "pop", "mark"}
  \/ /\ pc[r] \in LoopPoints \cup {"lock"}
     /\ ~paused[inst[r]]
     /\ IsResume(r) \/ ~cancelled[inst[r]]
  \/ /\ pc[r] \in {"clean", "settle"}
     /\ result[r] # "paused"
     /\ IsResume(r) \/ result[r] # "cancelled"

MarkedInv ==
  rowRunning => \/ \E c \in Clients : cpc[c] \in {"cancelDb", "pauseDb"}
                \/ \E r \in Runs : Marks(r)

USE DEF Insts, RegisteredPoints, LoopPoints, RunPoints, ClientPoints, registry,
        flags, row, loopVars, runVars, client, history, Goto, Became

LEMMA TypeInit == Init => TypeInv
<1> SUFFICES ASSUME Init PROVE TypeInv
  OBVIOUS
<1> USE NoRunAssumption, NoMsgAssumption, BoundsAssumption DEF Init, Created
<1>1. cancels \in Runs \cup {NoRun} /\ agents \in Insts \cup {NoRun}
  OBVIOUS
<1>2. /\ paused \in [Insts -> BOOLEAN] /\ cancelled \in [Insts -> BOOLEAN]
      /\ muHolder \in [Insts -> Runs \cup {NoRun}] /\ slot \in [Insts -> Msgs \cup {NoMsg}]
      /\ inst \in [Runs -> Insts \cup {NoRun}] /\ msg \in [Runs -> Msgs \cup {NoMsg}]
      /\ carry \in [Clients -> Msgs \cup {NoMsg}]
  OBVIOUS
<1>3. /\ left \in [Runs -> 0..MaxIter] /\ calls \in [Runs -> 0..MaxCalls]
      /\ fails \in [Runs -> 0..MaxFailures] /\ quota \in 0..MaxCommands
      /\ delivered \in [Msgs -> Nat]
  OBVIOUS
<1>4. /\ pc \in [Runs -> RunPoints] /\ cpc \in [Clients -> ClientPoints]
      /\ stop \in [Runs -> {"no", "cancel", "pause", "clear", "stale", "timeout"}]
      /\ result \in [Runs -> {"none", "ok", "error", "paused", "cancelled"}]
  OBVIOUS
<1>5. LocalsOK
  BY DEF LocalsOK
<1>6. queue \in Seq(Msgs) /\ sent \subseteq Msgs
  OBVIOUS
<1>7. /\ lastActive \in {"none", "recent", "expired"} /\ rowExists \in BOOLEAN
      /\ rowRunning \in BOOLEAN /\ rowStatus \in {"idle", "running", "failed"}
  OBVIOUS
<1> QED
  BY <1>1, <1>2, <1>3, <1>4, <1>5, <1>6, <1>7 DEF TypeInv, TypeOK

LEMMA TypeClient ==
  ASSUME TypeInv, NEW c \in Clients, ClientStep(c)
  PROVE  TypeInv'
<1> USE BoundsAssumption, CommandsAssumption DEF TypeInv, TypeOK, LocalsOK
<1>1. CASE SendMessage(c)
  <2>1. PICK m \in Msgs \ sent : SendMessage(c)!(m)
    BY <1>1 DEF SendMessage
  <2>2. /\ cpc' \in [Clients -> ClientPoints] /\ carry' \in [Clients -> Msgs \cup {NoMsg}]
        /\ \A d \in Clients : cpc'[d] \in {"queue", "intervene"} => carry'[d] \in Msgs
    BY <2>1
  <2>3. pc' \in [Runs -> RunPoints] /\ msg' \in [Runs -> Msgs \cup {NoMsg}]
    <3>1. CASE UNCHANGED <<pc, msg>>
      BY <3>1
    <3>2. ASSUME NEW r \in Runs, Goto(r, "begin"), msg' = [msg EXCEPT ![r] = m]
          PROVE  pc' \in [Runs -> RunPoints] /\ msg' \in [Runs -> Msgs \cup {NoMsg}]
      BY <3>2
    <3> QED
      BY <2>1, <3>1, <3>2
  <2>4. \A r \in Runs : pc'[r] = pc[r] \/ pc'[r] = "begin"
    BY <2>1
  <2> QED
    BY <2>1, <2>2, <2>3, <2>4
<1>2. CASE QueueMessage(c)
  BY <1>2 DEF QueueMessage
<1>3. CASE InterveneCommand(c)
  BY <1>3 DEF InterveneCommand, Issue
<1>4. CASE Intervene(c)
  BY <1>4 DEF Intervene
<1>5. ASSUME NEW command \in {"cancel", "clear", "delete"}, ClearQueue(c, command)
      PROVE  TypeInv'
  BY <1>5 DEF ClearQueue, Issue
<1>6. CASE Cancel(c)
  <2>1. cancelled' \in [Insts -> BOOLEAN]
    <3>1. \/ cancelled' = cancelled
          \/ cancelled' = [i \in Insts |-> i = agents \/ cancelled[i]]
      BY <1>6 DEF Cancel
    <3>2. cancelled \in [Insts -> BOOLEAN]
      OBVIOUS
    <3> HIDE DEF TypeInv
    <3> QED
      BY <3>1, <3>2, Zenon
  <2>2. CASE cancels = NoRun
    BY <1>6, <2>2 DEF Cancel
  <2>3. CASE cancels # NoRun
    <3>1. cancels \in Runs /\ stop' = StopWith(cancels, "cancel") /\ cancels' = NoRun
      BY <1>6, <2>3 DEF Cancel
    <3>2. stop' \in [Runs -> {"no", "cancel", "pause", "clear", "stale", "timeout"}]
      BY <3>1 DEF StopWith
    <3>3. /\ cpc' \in [Clients -> ClientPoints]
          /\ \A d \in Clients : cpc'[d] = cpc[d] \/ cpc'[d] = "cancelDb"
      BY <1>6, <2>3 DEF Cancel
    <3>4. UNCHANGED <<carry, pc, calls, inst>>
      BY <1>6 DEF Cancel
    <3>5. LocalsOK'
      BY <3>3, <3>4
    <3> QED
      BY <1>6, <2>1, <3>1, <3>2, <3>3, <3>5 DEF Cancel
  <2> QED
    BY <2>2, <2>3
<1>7. CASE CancelDb(c)
  BY <1>7 DEF CancelDb, SetRunning
<1>8. CASE Pause(c)
  <2>1. paused' \in [Insts -> BOOLEAN]
    BY <1>8 DEF Pause
  <2>2. CASE cancels = NoRun
    BY <1>8, <2>2 DEF Pause, Issue
  <2>3. CASE cancels # NoRun
    <3>1. cancels \in Runs /\ stop' = StopWith(cancels, "pause") /\ cancels' = NoRun
      BY <1>8, <2>3 DEF Pause
    <3>2. stop' \in [Runs -> {"no", "cancel", "pause", "clear", "stale", "timeout"}]
      BY <3>1 DEF StopWith
    <3>3. /\ cpc' \in [Clients -> ClientPoints]
          /\ \A d \in Clients : cpc'[d] = cpc[d] \/ cpc'[d] = "pauseDb"
      BY <1>8, <2>3 DEF Pause, Issue
    <3>4. UNCHANGED <<carry, pc, calls, inst>>
      BY <1>8 DEF Pause
    <3>5. LocalsOK'
      BY <3>3, <3>4
    <3> QED
      BY <1>8, <2>1, <3>1, <3>2, <3>3, <3>5 DEF Pause, Issue
  <2> QED
    BY <2>2, <2>3
<1>9. CASE PauseDb(c)
  BY <1>9 DEF PauseDb, SetRunning
<1>10. CASE Resume(c)
  BY <1>10 DEF Resume, Issue
<1>11. CASE CleanupAgent(c)
  BY <1>11 DEF CleanupAgent, StopWith
<1>12. CASE DeleteRow(c)
  BY <1>12 DEF DeleteRow
<1> QED
  BY <1>1, <1>2, <1>3, <1>4, <1>5, <1>6, <1>7, <1>8, <1>9, <1>10, <1>11, <1>12
  DEF ClientStep

(* What the end of runLoopWithMaxIterations leaves of a run.               *)
LEMMA EndLoopType ==
  ASSUME TypeInv, NEW r \in Runs, InLoop(r),
         NEW res \in {"ok", "error", "paused", "cancelled"},
         EndLoop(r, res) \/ Return(r, res)
  PROVE  /\ muHolder' \in [Insts -> Runs \cup {NoRun}]
         /\ result' \in [Runs -> {"none", "ok", "error", "paused", "cancelled"}]
         /\ left' \in [Runs -> 0..MaxIter]
         /\ calls' \in [Runs -> 0..MaxCalls]
         /\ fails' \in [Runs -> 0..MaxFailures]
         /\ pc' \in [Runs -> RunPoints]
         /\ \A q \in Runs : pc'[q] # pc[q] => q = r
         /\ pc'[r] \in {"clean", "between", "backoff"}
         /\ \A q \in Runs \ {r} : calls'[q] = calls[q] /\ result'[q] = result[q]
         /\ \A i \in Insts : i # inst[r] => muHolder'[i] = muHolder[i]
         /\ pc'[r] # "clean" => muHolder' = muHolder
         /\ pc'[r] = "clean" => result'[r] = res
<1>1. inst[r] \in Insts
  BY DEF TypeInv, LocalsOK, InLoop
<1> USE BoundsAssumption DEF TypeInv, TypeOK
<1>2. CASE Return(r, res)
  BY <1>1, <1>2 DEF Return
<1>3. CASE EndLoop(r, res) /\ ~Return(r, res)
  <2>1. /\ fails[r] + 1 < MaxFailures \/ res = "ok"
        /\ fails' = [fails EXCEPT ![r] = IF res = "ok" THEN 0 ELSE @ + 1]
        /\ Goto(r, IF res = "ok" THEN "between" ELSE "backoff")
        /\ left' = [left EXCEPT ![r] = 0]
        /\ calls' = [calls EXCEPT ![r] = 0]
        /\ UNCHANGED <<result, muHolder>>
    BY <1>3 DEF EndLoop
  <2>2. fails' \in [Runs -> 0..MaxFailures]
    BY <2>1
  <2> QED
    BY <2>1, <2>2
<1> QED
  BY <1>2, <1>3

LEMMA StopResultType ==
  ASSUME NEW i PROVE StopResult(i) \in {"cancelled", "paused", "error"}
BY DEF StopResult

(* checkIntervention moves what is in the slot into the History.           *)
LEMMA TakeInterventionType ==
  ASSUME TypeInv, NEW i \in Insts, TakeIntervention(i)
  PROVE  slot' \in [Insts -> Msgs \cup {NoMsg}] /\ delivered' \in [Msgs -> Nat]
BY DEF TypeInv, TypeOK, TakeIntervention, SlotCleared

LEMMA TypeLoop ==
  ASSUME TypeInv, NEW r \in Runs, LoopStep(r)
  PROVE  TypeInv'
<1> USE BoundsAssumption DEF TypeInv, TypeOK, LocalsOK, inLoopUnchanged
<1>0. InLoop(r) /\ inst[r] \in Insts
  BY DEF LoopStep, LoopTop, LlmFails, LlmAnswers, LlmRepeats, LlmCallsTools,
         ToolCheck, ToolRan, NextIteration, InLoop
<1>1. ASSUME NEW res \in {"ok", "error", "paused", "cancelled"},
             EndLoop(r, res) \/ Return(r, res),
             UNCHANGED <<inLoopUnchanged, slot, delivered>>
      PROVE  TypeInv'
  <2>1. LocalsOK'
    <3> HIDE DEF TypeInv
    <3>1. /\ \A q \in Runs : pc'[q] # pc[q] => q = r
          /\ pc'[r] \in {"clean", "between", "backoff"}
          /\ \A q \in Runs \ {r} : calls'[q] = calls[q]
      BY <1>0, <1>1, EndLoopType
    <3> USE DEF TypeInv
    <3> QED
      BY <1>0, <1>1, <3>1
  <2>2. /\ muHolder' \in [Insts -> Runs \cup {NoRun}]
        /\ result' \in [Runs -> {"none", "ok", "error", "paused", "cancelled"}]
        /\ left' \in [Runs -> 0..MaxIter] /\ calls' \in [Runs -> 0..MaxCalls]
        /\ fails' \in [Runs -> 0..MaxFailures] /\ pc' \in [Runs -> RunPoints]
    BY <1>0, <1>1, EndLoopType
  <2>3. UNCHANGED <<registry, flags, queue, row, inst, msg, stop, client, sent, slot, delivered>>
    BY <1>1
  <2> QED
    BY <2>1, <2>2, <2>3
<1>2. CASE LoopTop(r)
  <2>1. CASE ~IterationsLeft(r)
    BY <1>1, <1>2, <2>1 DEF LoopTop
  <2>2. CASE IterationsLeft(r) /\ Stopped(r)
    BY <1>1, <1>2, <2>2, StopResultType DEF LoopTop
  <2>3. CASE IterationsLeft(r) /\ ~Stopped(r)
    <3>1. left' \in [Runs -> 0..MaxIter]
      <4>1. left[r] \in 1..MaxIter /\ left' = [left EXCEPT ![r] = @ - 1]
        BY <1>2, <2>3 DEF LoopTop, IterationsLeft, AfterIteration
      <4> QED
        BY <4>1
    <3>2. slot' \in [Insts -> Msgs \cup {NoMsg}] /\ delivered' \in [Msgs -> Nat]
      BY <1>0, <1>2, <2>3, TakeInterventionType DEF LoopTop
    <3>3. /\ Goto(r, "llm") /\ UNCHANGED <<result, calls, fails, muHolder>>
          /\ UNCHANGED inLoopUnchanged
      BY <1>2, <2>3 DEF LoopTop
    <3> QED
      BY <1>0, <3>1, <3>2, <3>3
  <2> QED
    BY <2>1, <2>2, <2>3
<1>3. CASE LlmFails(r)
  BY <1>1, <1>3, StopResultType DEF LlmFails
<1>4. CASE LlmAnswers(r)
  BY <1>1, <1>4 DEF LlmAnswers
<1>5. CASE LlmRepeats(r)
  BY <1>0, <1>5 DEF LlmRepeats
<1>6. CASE LlmCallsTools(r)
  <2>1. PICK n \in 1..MaxCalls : calls' = [calls EXCEPT ![r] = n]
    BY <1>6 DEF LlmCallsTools
  <2>2. calls' \in [Runs -> 0..MaxCalls] /\ calls'[r] > 0
    BY <2>1
  <2>3. pc' \in [Runs -> RunPoints] /\ UNCHANGED <<inLoopUnchanged, muHolder, result, left, fails, slot, delivered>>
    BY <1>6 DEF LlmCallsTools
  <2>4. LocalsOK'
    BY <1>0, <1>6, <2>1, <2>2 DEF LlmCallsTools
  <2> QED
    BY <2>2, <2>3, <2>4
<1>7. CASE ToolCheck(r)
  <2>1. CASE cancelled[inst[r]]
    BY <1>1, <1>7, <2>1 DEF ToolCheck
  <2>2. CASE ~cancelled[inst[r]] /\ paused[inst[r]]
    BY <1>1, <1>7, <2>2 DEF ToolCheck
  <2>3. CASE ~cancelled[inst[r]] /\ ~paused[inst[r]]
    <3>1. calls' \in [Runs -> 0..MaxCalls]
      <4>1. calls[r] \in 1..MaxCalls /\ calls' = [calls EXCEPT ![r] = @ - 1]
        BY <1>7, <2>3 DEF ToolCheck
      <4> QED
        BY <4>1
    <3>2. slot' \in [Insts -> Msgs \cup {NoMsg}] /\ delivered' \in [Msgs -> Nat]
      BY <1>0, <1>7, <2>3, TakeInterventionType DEF ToolCheck
    <3>3. /\ pc[r] = "tools" /\ Goto(r, "ran") /\ UNCHANGED <<result, left, fails, muHolder>>
          /\ calls' = [calls EXCEPT ![r] = @ - 1]
          /\ UNCHANGED inLoopUnchanged
      BY <1>7, <2>3 DEF ToolCheck
    <3> QED
      BY <1>0, <3>1, <3>2, <3>3
  <2> QED
    BY <2>1, <2>2, <2>3
<1>8. CASE ToolRan(r)
  <2>1. ASSUME NEW to \in {"tools", "top"}, Goto(r, to), to = "tools" => calls[r] > 0,
               UNCHANGED <<inLoopUnchanged, result, loopVars, muHolder, slot, delivered>>
        PROVE  TypeInv'
    BY <1>0, <2>1
  <2>2. UNCHANGED <<inLoopUnchanged, slot, delivered>>
    BY <1>8 DEF ToolRan
  <2>3. \/ \E res \in {"ok", "error", "paused", "cancelled"} : EndLoop(r, res)
        \/ /\ UNCHANGED <<result, loopVars, muHolder>>
           /\ \E to \in {"tools", "top"} : Goto(r, to) /\ (to = "tools" => calls[r] > 0)
    BY <1>8 DEF ToolRan
  <2> QED
    BY <1>1, <2>1, <2>2, <2>3
<1>9. CASE NextIteration(r)
  <2>1. CASE ~Stopped(r)
    <3>1. /\ left' = [left EXCEPT ![r] = MaxIter] /\ Goto(r, "top")
          /\ UNCHANGED <<inLoopUnchanged, slot, delivered, result, calls, fails, muHolder>>
      BY <1>9, <2>1 DEF NextIteration, Return
    <3>2. left' \in [Runs -> 0..MaxIter]
      BY <3>1
    <3> QED
      BY <1>0, <3>1, <3>2
  <2>2. CASE Stopped(r)
    BY <1>1, <1>9, <2>2, StopResultType DEF NextIteration
  <2> QED
    BY <2>1, <2>2
<1> QED
  BY <1>2, <1>3, <1>4, <1>5, <1>6, <1>7, <1>8, <1>9 DEF LoopStep

LEMMA TypeRun ==
  ASSUME TypeInv, NEW r \in Runs, RunStep(r) \/ Timeout(r)
  PROVE  TypeInv'
<1> USE BoundsAssumption, NoRunAssumption DEF TypeInv, TypeOK, LocalsOK
<1>1. CASE Begin(r)
  BY <1>1 DEF Begin
<1>2. CASE Register(r)
  <2> DEFINE i == IF agents = NoRun THEN r ELSE agents
  <2>1. i \in Insts
    OBVIOUS
  <2>2. /\ agents' = i /\ cancels' = r /\ inst' = [inst EXCEPT ![r] = i]
        /\ paused' = [paused EXCEPT ![i] = FALSE]
        /\ cancelled' = [cancelled EXCEPT ![i] = FALSE]
        /\ rowRunning' \in BOOLEAN
        /\ Goto(r, "lock")
        /\ UNCHANGED <<lastActive, muHolder, slot, queue, rowExists, rowStatus, msg,
                       stop, result, loopVars, client, history>>
    BY <1>2 DEF Register, SetRunning
  <2> HIDE DEF i
  <2>3. paused' \in [Insts -> BOOLEAN] /\ cancelled' \in [Insts -> BOOLEAN]
    BY <2>1, <2>2
  <2>4. inst' \in [Runs -> Insts \cup {NoRun}] /\ pc' \in [Runs -> RunPoints]
    BY <2>1, <2>2
  <2>5. LocalsOK'
    BY <2>1, <2>2
  <2> QED
    BY <2>1, <2>2, <2>3, <2>4, <2>5
<1>3. CASE Lock(r)
  <2>1. /\ muHolder' \in [Insts -> Runs \cup {NoRun}]
        /\ left' \in [Runs -> 0..MaxIter] /\ pc' \in [Runs -> RunPoints]
    BY <1>3 DEF Lock
  <2>3. delivered' \in [Msgs -> Nat]
    <3>1. delivered' = [delivered EXCEPT ![msg[r]] = @ + 1]
      BY <1>3 DEF Lock, Appended
    <3>2. CASE msg[r] \in Msgs
      BY <3>1, <3>2
    <3>3. CASE msg[r] \notin Msgs
      BY <3>1, <3>3
    <3> QED
      BY <3>2, <3>3
  <2>2. LocalsOK'
    BY <1>3 DEF Lock
  <2> QED
    BY <1>3, <2>1, <2>2, <2>3 DEF Lock
<1>4. CASE BeginResume(r)
  <2>1. stop' \in [Runs -> {"no", "cancel", "pause", "clear", "stale", "timeout"}]
    BY <1>4 DEF BeginResume, StopWith
  <2>2. UNCHANGED <<agents, lastActive, flags, muHolder, slot, queue, row, msg,
                    result, loopVars, client, history>>
    BY <1>4 DEF BeginResume
  <2>3. CASE Goto(r, "done") /\ UNCHANGED <<cancels, inst>>
    BY <2>1, <2>2, <2>3
  <2>4. CASE agents # NoRun /\ cancels' = r /\ inst' = [inst EXCEPT ![r] = agents] /\ Goto(r, "restore")
    BY <2>1, <2>2, <2>4
  <2> QED
    BY <1>4, <2>3, <2>4 DEF BeginResume
<1>5. CASE Restore(r)
  BY <1>5 DEF Restore, SetRunning
<1>6. CASE Relock(r)
  <2>1. /\ muHolder' \in [Insts -> Runs \cup {NoRun}] /\ paused' \in [Insts -> BOOLEAN]
        /\ left' \in [Runs -> 0..MaxIter] /\ pc' \in [Runs -> RunPoints]
    BY <1>6 DEF Relock
  <2>2. LocalsOK'
    BY <1>6 DEF Relock
  <2> QED
    BY <1>6, <2>1, <2>2 DEF Relock
<1>7. CASE LoopStep(r)
  BY <1>7, TypeLoop
<1>8. CASE Clean(r)
  BY <1>8 DEF Clean, EntryAfterReturn
<1>9. CASE Settle(r)
  <2>1. /\ cancelled' \in [Insts -> BOOLEAN] /\ paused' \in [Insts -> BOOLEAN]
        /\ pc' \in [Runs -> RunPoints] /\ LocalsOK'
    BY <1>9 DEF Settle
  <2> QED
    BY <1>9, <2>1 DEF Settle
<1>10. CASE Pop(r)
  <2>1. CASE queue = <<>>
    <3>1. UNCHANGED <<registry, flags, muHolder, slot, queue, row, inst, msg, stop, result,
                      loopVars, client, history>>
      BY <1>10, <2>1 DEF Pop
    <3>2. Goto(r, "mark")
      BY <1>10, <2>1 DEF Pop
    <3> QED
      BY <3>1, <3>2
  <2>2. CASE queue # <<>>
    <3>1. Head(queue) \in Msgs /\ queue' \in Seq(Msgs)
      <4>1. queue' = Tail(queue)
        BY <1>10, <2>2 DEF Pop, Popped
      <4> QED
        BY <2>2, <4>1
    <3>2. PICK n \in Runs : /\ pc' = [pc EXCEPT ![r] = "done", ![n] = "begin"]
                            /\ msg' = [msg EXCEPT ![n] = Head(queue)]
      BY <1>10, <2>2 DEF Pop
    <3>3. pc' \in [Runs -> RunPoints] /\ msg' \in [Runs -> Msgs \cup {NoMsg}]
      BY <3>1, <3>2
    <3>4. UNCHANGED <<registry, flags, muHolder, slot, row, inst, stop, result,
                      loopVars, client, history>>
      BY <1>10 DEF Pop
    <3>5. LocalsOK'
      BY <3>2, <3>4
    <3> QED
      BY <3>1, <3>3, <3>4, <3>5
  <2> QED
    BY <2>1, <2>2
<1>11. CASE Mark(r)
  BY <1>11 DEF Mark, SetRunning
<1>12. CASE Timeout(r)
  BY <1>12 DEF Timeout, StopWith
<1> QED
  BY <1>1, <1>2, <1>3, <1>4, <1>5, <1>6, <1>7, <1>8, <1>9, <1>10, <1>11, <1>12
  DEF RunStep

LEMMA TypeStep == TypeInv /\ [Next]_vars => TypeInv'
<1> SUFFICES ASSUME TypeInv, [Next]_vars PROVE TypeInv'
  OBVIOUS
<1> USE DEF TypeInv, TypeOK, LocalsOK
<1>1. CASE Expire
  BY <1>1 DEF Expire
<1>2. CASE CleanupIdle
  BY <1>2 DEF CleanupIdle
<1>3. CASE UNCHANGED vars
  BY <1>3 DEF vars
<1> HIDE DEF TypeInv, TypeOK, LocalsOK
<1> QED
  BY <1>1, <1>2, <1>3, TypeClient, TypeRun DEF Next, Terminating

(* Every variable stays in its type, whatever the clients do and however   *)
(* the goroutines of the session interleave.                               *)
THEOREM TypeCorrect == Spec => []TypeOK
<1>1. TypeInv => TypeOK
  BY DEF TypeInv
<1> QED
  BY TypeInit, TypeStep, <1>1, PTL DEF Spec

-----------------------------------------------------------------------------
(* What a step inside the loop does to the state the session shares: the   *)
(* run stays in the loop, or it leaves it, releases the mutex and returns  *)
(* "paused" or "cancelled" only if the flag of its instance says so.       *)
LEMMA LoopFrame ==
  ASSUME TypeInv, NEW r \in Runs, LoopStep(r)
  PROVE  /\ InLoop(r) /\ inst[r] \in Insts
         /\ \A q \in Runs : pc'[q] # pc[q] => q = r
         /\ pc'[r] \in LoopPoints \cup {"clean"}
         /\ \A i \in Insts : i # inst[r] => muHolder'[i] = muHolder[i]
         /\ pc'[r] # "clean" => muHolder' = muHolder
         /\ \A q \in Runs \ {r} : result'[q] = result[q]
         /\ pc'[r] = "clean" => /\ result'[r] = "paused" => paused[inst[r]]
                                /\ result'[r] = "cancelled" => cancelled[inst[r]]
         /\ UNCHANGED <<cancels, agents, paused, cancelled, inst, msg, rowExists,
                        rowRunning, cpc>>
<1>0. InLoop(r) /\ inst[r] \in Insts /\ UNCHANGED inLoopUnchanged
  BY DEF TypeInv, LocalsOK, LoopStep, LoopTop, LlmFails, LlmAnswers, LlmRepeats, LlmCallsTools,
         ToolCheck, ToolRan, NextIteration, InLoop
<1>1. ASSUME NEW res \in {"ok", "error", "paused", "cancelled"},
             EndLoop(r, res) \/ Return(r, res),
             res = "paused" => paused[inst[r]],
             res = "cancelled" => cancelled[inst[r]]
      PROVE  /\ \A q \in Runs : pc'[q] # pc[q] => q = r
             /\ pc'[r] \in LoopPoints \cup {"clean"}
             /\ \A i \in Insts : i # inst[r] => muHolder'[i] = muHolder[i]
             /\ pc'[r] # "clean" => muHolder' = muHolder
             /\ \A q \in Runs \ {r} : result'[q] = result[q]
             /\ pc'[r] = "clean" => /\ result'[r] = "paused" => paused[inst[r]]
                                    /\ result'[r] = "cancelled" => cancelled[inst[r]]
  BY <1>0, <1>1, EndLoopType
<1>2. ASSUME NEW to \in LoopPoints, Goto(r, to), UNCHANGED <<result, muHolder>>
      PROVE  /\ \A q \in Runs : pc'[q] # pc[q] => q = r
             /\ pc'[r] \in LoopPoints
             /\ muHolder' = muHolder /\ result' = result
  BY <1>2 DEF TypeInv, TypeOK
<1>3. \/ \E res \in {"ok", "error", "paused", "cancelled"} :
           /\ EndLoop(r, res) \/ Return(r, res)
           /\ res = "paused" => paused[inst[r]]
           /\ res = "cancelled" => cancelled[inst[r]]
      \/ \E to \in LoopPoints : Goto(r, to) /\ UNCHANGED <<result, muHolder>>
  <2>1. /\ StopResult(inst[r]) \in {"ok", "error", "paused", "cancelled"}
        /\ StopResult(inst[r]) = "paused" => paused[inst[r]]
        /\ StopResult(inst[r]) = "cancelled" => cancelled[inst[r]]
    BY DEF StopResult
  <2> QED
    BY <2>1 DEF LoopStep, LoopTop, LlmFails, LlmAnswers, LlmRepeats, LlmCallsTools,
         ToolCheck, ToolRan, NextIteration
<1> QED
  BY <1>0, <1>1, <1>2, <1>3 DEF inLoopUnchanged

LEMMA InvInit == Init => IInv
BY TypeInit DEF Init, IInv, RegistryInv, MutexInv, InLoop

(* The map and the mutex, for a step of a client's handler.                *)
LEMMA InvClient ==
  ASSUME IInv, NEW c \in Clients, ClientStep(c)
  PROVE  RegistryInv' /\ MutexInv'
<1> USE DEF IInv, TypeInv, TypeOK, RegistryInv, MutexInv, InLoop
<1>1. CASE SendMessage(c) \/ Resume(c)
  <2>1. PICK r \in Runs : \A q \in Runs : pc'[q] # pc[q] => q = r /\ pc[q] = "unused"
                                                          /\ pc'[q] \in {"begin", "resume"}
    BY <1>1 DEF SendMessage, Resume
  <2>2. UNCHANGED <<cancels, agents, muHolder, inst>>
    BY <1>1 DEF SendMessage, Resume
  <2> QED
    BY <2>1, <2>2
<1>2. CASE CleanupAgent(c) \/ Cancel(c) \/ Pause(c)
  <2>1. /\ cancels' = NoRun \/ (cancels' = cancels /\ agents' = agents)
        /\ UNCHANGED <<pc, muHolder, inst>>
    BY <1>2 DEF CleanupAgent, Cancel, Pause
  <2> QED
    BY <2>1
<1>3. CASE UNCHANGED <<cancels, agents, pc, muHolder, inst>>
  BY <1>3
<1> QED
  BY <1>1, <1>2, <1>3 DEF ClientStep, QueueMessage, InterveneCommand, Intervene,
     ClearQueue, CancelDb, PauseDb, DeleteRow

(* The same for a step of a run.                                           *)
LEMMA InvRun ==
  ASSUME IInv, NEW r \in Runs, RunStep(r) \/ Timeout(r)
  PROVE  RegistryInv' /\ MutexInv'
<1> USE NoRunAssumption DEF IInv, TypeInv, TypeOK, RegistryInv, MutexInv, InLoop
<1>1. CASE Begin(r) \/ Restore(r) \/ Settle(r) \/ Mark(r)
  <2>1. /\ UNCHANGED <<cancels, agents, muHolder, inst>>
        /\ \A q \in Runs : pc'[q] # pc[q] => q = r
        /\ pc[r] \notin RegisteredPoints \/ (pc[r] = "restore" /\ pc'[r] = "relock")
        /\ pc'[r] \notin LoopPoints
    BY <1>1 DEF Begin, Restore, Settle, Mark
  <2> QED
    BY <2>1
<1>2. CASE Register(r)
  <2>1. agents' \in Insts /\ cancels' = r /\ inst' = [inst EXCEPT ![r] = agents']
        /\ pc[r] = "register" /\ Goto(r, "lock") /\ muHolder' = muHolder
    BY <1>2 DEF Register
  <2> QED
    BY <2>1
<1>3. CASE Lock(r) \/ Relock(r)
  <2>1. /\ UNCHANGED <<cancels, agents, inst>> /\ Goto(r, "top")
        /\ pc[r] \in {"lock", "relock"}
        /\ muHolder[inst[r]] = NoRun
        /\ muHolder' = [muHolder EXCEPT ![inst[r]] = r]
    BY <1>3 DEF Lock, Relock, LockFree
  <2>2. inst[r] \in Insts
    BY <2>1 DEF LocalsOK
  <2>3. \A q \in Runs : q # r /\ InLoop(q) => inst[q] # inst[r] /\ inst[q] \in Insts
    BY <2>1 DEF LocalsOK
  <2> QED
    BY <2>1, <2>2, <2>3
<1>4. CASE BeginResume(r)
  <2>1. CASE cancels' = cancels /\ inst' = inst /\ Goto(r, "done")
    BY <1>4, <2>1 DEF BeginResume
  <2>2. CASE /\ agents # NoRun /\ cancels' = r /\ inst' = [inst EXCEPT ![r] = agents]
             /\ Goto(r, "restore")
    BY <1>4, <2>2 DEF BeginResume
  <2> QED
    BY <1>4, <2>1, <2>2 DEF BeginResume
<1>5. CASE LoopStep(r)
  <2>1. /\ InLoop(r) /\ inst[r] \in Insts /\ UNCHANGED <<cancels, agents, inst>>
        /\ \A q \in Runs : pc'[q] # pc[q] => q = r
        /\ pc'[r] \in LoopPoints \cup {"clean"}
        /\ \A i \in Insts : i # inst[r] => muHolder'[i] = muHolder[i]
        /\ pc'[r] # "clean" => muHolder' = muHolder
    <3> HIDE DEF TypeInv, InLoop
    <3> QED
      BY <1>5, LoopFrame
  <2>2. \A q \in Runs : q # r /\ InLoop(q) => inst[q] # inst[r] /\ inst[q] \in Insts
    BY <2>1 DEF LocalsOK
  <2> QED
    BY <2>1, <2>2
<1>6. CASE Clean(r)
  BY <1>6 DEF Clean, EntryAfterReturn
<1>7. CASE Pop(r)
  <2>1. /\ UNCHANGED <<cancels, agents, muHolder, inst>>
        /\ \A q \in Runs : pc'[q] # pc[q] => pc[q] \in {"pop", "unused"} /\ pc'[q] \in {"mark", "done", "begin"}
    BY <1>7 DEF Pop
  <2> QED
    BY <2>1
<1>8. CASE Timeout(r)
  BY <1>8 DEF Timeout
<1> QED
  BY <1>1, <1>2, <1>3, <1>4, <1>5, <1>6, <1>7, <1>8 DEF RunStep

LEMMA InvStep == IInv /\ [Next]_vars => IInv'
<1> SUFFICES ASSUME IInv, [Next]_vars PROVE RegistryInv' /\ MutexInv'
  BY TypeStep DEF IInv
<1>1. CASE Expire \/ CleanupIdle \/ UNCHANGED vars
  BY <1>1 DEF Expire, CleanupIdle, vars, IInv, RegistryInv, MutexInv, InLoop
<1> QED
  BY <1>1, InvClient, InvRun DEF Next, Terminating

LEMMA InvAlways == Spec => []IInv
BY InvInit, InvStep, PTL DEF Spec

(* A cancel function in the map is always that of a run that is still      *)
(* going and works on the instance of the other map.                       *)
THEOREM RegistryCorrect == Spec => []RegistryInv
<1>1. IInv => RegistryInv
  BY DEF IInv
<1> QED
  BY InvAlways, <1>1, PTL

(* However many goroutines a double send or a resume has started, two of   *)
(* them never work on the History of one instance at a time.               *)
THEOREM HistoryGuardedCorrect == Spec => []HistoryGuarded
<1>1. IInv => HistoryGuarded
  BY DEF IInv, MutexInv, HistoryGuarded
<1> QED
  BY InvAlways, <1>1, PTL

-----------------------------------------------------------------------------
(* SettledNotRunning.  The clear and delete commands are left out: a clear *)
(* sets the cancelled flag without writing the row (README.md).            *)

(* A row that is gone is not running, no teardown is in progress, and a    *)
(* run that resumes carries no message.                                    *)
RowInv ==
  /\ rowRunning => rowExists
  /\ \A r \in Runs : pc[r] \in {"unused", "resume", "restore", "relock"} => msg[r] = NoMsg
  /\ \A c \in Clients : cpc[c] \notin {"clear", "delete", "deleteRow"}

SInv == IInv /\ RowInv /\ MarkedInv

LEMMA MarkedInit == Init => SInv
BY InvInit DEF Init, Created, SInv, RowInv, MarkedInv

LEMMA MarkedClient ==
  ASSUME SInv, Commands \cap {"clear", "delete"} = {},
         NEW c \in Clients, ClientStep(c)
  PROVE  RowInv' /\ MarkedInv'
<1> USE DEF SInv, IInv, TypeInv, TypeOK, RowInv, MarkedInv
<1>1. CASE SendMessage(c) \/ Resume(c)
  <2>1. /\ \A q \in Runs : pc'[q] # pc[q] => /\ pc[q] = "unused"
                                           /\ pc'[q] \in {"begin", "resume"}
        /\ \A q \in Runs : msg'[q] # msg[q] => pc[q] = "unused" /\ pc'[q] = "begin"
    <3>1. CASE UNCHANGED <<pc, msg>>
      BY <3>1
    <3>2. ASSUME NEW n \in Runs, pc[n] = "unused",
                 \/ Goto(n, "begin") /\ \E m \in Msgs : msg' = [msg EXCEPT ![n] = m]
                 \/ Goto(n, "resume") /\ msg' = msg
          PROVE  /\ \A q \in Runs : pc'[q] # pc[q] => /\ pc[q] = "unused"
                                                    /\ pc'[q] \in {"begin", "resume"}
                 /\ \A q \in Runs : msg'[q] # msg[q] => pc[q] = "unused" /\ pc'[q] = "begin"
      BY <3>2
    <3> QED
      BY <1>1, <3>1, <3>2 DEF SendMessage, Resume
  <2>2. UNCHANGED <<paused, cancelled, inst, result, rowRunning, rowExists>>
    BY <1>1 DEF SendMessage, Resume
  <2>3. \A d \in Clients : cpc'[d] = cpc[d] \/ (cpc[d] = "ready" /\ cpc'[d] \in {"queue", "intervene"})
    BY <1>1 DEF SendMessage, Resume
  <2>4. ASSUME NEW q \in Runs, Marks(q) PROVE Marks(q)'
    BY <2>1, <2>2, <2>4 DEF Marks, IsResume
  <2>5. RowInv'
    BY <2>1, <2>2, <2>3
  <2> QED
    BY <2>2, <2>3, <2>4, <2>5
<1>2. CASE Cancel(c) \/ Pause(c)
  <2>1. /\ UNCHANGED <<pc, msg, inst, result, rowRunning, rowExists>>
        /\ \A d \in Clients : d # c => cpc'[d] = cpc[d]
        /\ cpc[c] \in {"ready", "cancel"}
        /\ \/ cpc'[c] \in {"cancelDb", "pauseDb"}
           \/ cpc'[c] = "ready" /\ UNCHANGED <<paused, cancelled>>
    BY <1>2 DEF Cancel, Pause, Issue
  <2>2. CASE UNCHANGED <<paused, cancelled>>
    BY <2>1, <2>2 DEF Marks, IsResume
  <2>3. CASE cpc'[c] \in {"cancelDb", "pauseDb"}
    BY <2>1, <2>3
  <2> QED
    BY <2>1, <2>2, <2>3
<1>3. CASE CancelDb(c) \/ PauseDb(c)
  <2>1. /\ rowRunning' = FALSE /\ UNCHANGED <<rowExists, pc, msg>>
        /\ \A d \in Clients : cpc'[d] \in {cpc[d], "ready"}
    BY <1>3 DEF CancelDb, PauseDb, SetRunning
  <2> QED
    BY <2>1
<1>4. CASE \/ QueueMessage(c) \/ InterveneCommand(c) \/ Intervene(c)
           \/ \E command \in {"cancel", "clear", "delete"} : ClearQueue(c, command)
  <2>1. /\ UNCHANGED <<pc, msg, inst, result, rowRunning, rowExists, paused, cancelled>>
        /\ \A d \in Clients : cpc'[d] = cpc[d] \/ ( /\ cpc[d] \in {"ready", "queue", "intervene"}
                                                    /\ cpc'[d] \in {"ready", "intervene", "cancel"})
    BY <1>4 DEF QueueMessage, InterveneCommand, Intervene, ClearQueue, Issue
  <2>2. ASSUME NEW q \in Runs, Marks(q) PROVE Marks(q)'
    BY <2>1, <2>2 DEF Marks, IsResume
  <2> QED
    BY <2>1, <2>2
<1> QED
  BY <1>1, <1>2, <1>3, <1>4 DEF ClientStep, CleanupAgent, DeleteRow

LEMMA MarkedRun ==
  ASSUME SInv, NEW r \in Runs, RunStep(r) \/ Timeout(r)
  PROVE  RowInv' /\ MarkedInv'
<1> USE DEF SInv, IInv, TypeInv, TypeOK, RowInv, MarkedInv
<1>0. UNCHANGED cpc
  <2>1. CASE LoopStep(r)
    <3> HIDE DEF TypeInv
    <3> QED
      BY <2>1, LoopFrame
  <2> QED
    BY <2>1 DEF RunStep, Timeout, Begin, Register, Lock, BeginResume, Restore, Relock,
       Clean, Settle, Pop, Mark
<1>1. CASE Begin(r)
  <2>1. UNCHANGED <<msg, inst, result, rowRunning, rowExists, paused, cancelled>>
        /\ pc[r] = "begin" /\ Goto(r, IF rowExists THEN "register" ELSE "done")
    BY <1>1 DEF Begin
  <2>2. ASSUME NEW q \in Runs, Marks(q), rowRunning PROVE Marks(q)'
    BY <2>1, <2>2 DEF Marks, IsResume
  <2> QED
    BY <1>0, <2>1, <2>2
<1>2. CASE Register(r)
  <2>1. PICK i \in Insts : /\ inst' = [inst EXCEPT ![r] = i]
                           /\ paused' = [paused EXCEPT ![i] = FALSE]
                           /\ cancelled' = [cancelled EXCEPT ![i] = FALSE]
    BY <1>2 DEF Register
  <2>2. Goto(r, "lock") /\ rowRunning' = rowExists /\ UNCHANGED <<rowExists, msg>>
    BY <1>2 DEF Register, SetRunning
  <2>3. Marks(r)'
    BY <2>1, <2>2 DEF Marks
  <2> QED
    BY <1>0, <2>2, <2>3
<1>3. CASE Lock(r) \/ Relock(r)
  <2>1. /\ UNCHANGED <<msg, inst, result, rowRunning, rowExists, cancelled>>
        /\ pc[r] \in {"lock", "relock"} /\ Goto(r, "top")
    BY <1>3 DEF Lock, Relock
  <2>2. /\ \A i \in Insts : paused[i] = FALSE => paused'[i] = FALSE
        /\ pc[r] = "relock" => paused'[inst[r]] = FALSE /\ msg[r] = NoMsg
    BY <1>3 DEF Lock, Relock, LocalsOK
  <2>3. ASSUME NEW q \in Runs, Marks(q), q # r PROVE Marks(q)'
    BY <2>1, <2>2, <2>3 DEF Marks, IsResume, LocalsOK
  <2>4. Marks(r) => Marks(r)'
    BY <2>1, <2>2 DEF Marks, IsResume, LocalsOK
  <2> QED
    BY <1>0, <2>1, <2>3, <2>4
<1>4. CASE BeginResume(r) \/ Restore(r)
  <2>1. /\ UNCHANGED <<msg, result, rowExists, paused, cancelled>>
        /\ \A q \in Runs : q # r => pc'[q] = pc[q] /\ inst'[q] = inst[q]
        /\ \/ pc[r] = "resume" /\ pc'[r] \in {"done", "restore"} /\ rowRunning' = rowRunning
           \/ pc[r] = "restore" /\ pc'[r] = "relock" /\ rowRunning' = rowExists
    BY <1>4 DEF BeginResume, Restore, SetRunning
  <2>2. ASSUME NEW q \in Runs, Marks(q) PROVE Marks(q)'
    BY <2>1, <2>2 DEF Marks, IsResume
  <2>3. pc'[r] = "relock" => Marks(r)'
    BY DEF Marks
  <2> QED
    BY <1>0, <2>1, <2>2, <2>3
<1>5. CASE LoopStep(r)
  <2>1. /\ InLoop(r) /\ inst[r] \in Insts
        /\ \A q \in Runs : pc'[q] # pc[q] => q = r
        /\ pc'[r] \in LoopPoints \cup {"clean"}
        /\ \A q \in Runs \ {r} : result'[q] = result[q]
        /\ pc'[r] = "clean" => /\ result'[r] = "paused" => paused[inst[r]]
                               /\ result'[r] = "cancelled" => cancelled[inst[r]]
        /\ UNCHANGED <<paused, cancelled, inst, msg, rowExists, rowRunning>>
    <3> HIDE DEF TypeInv
    <3> QED
      BY <1>5, LoopFrame
  <2>2. ASSUME NEW q \in Runs, Marks(q) PROVE Marks(q)'
    BY <2>1, <2>2 DEF Marks, IsResume, InLoop
  <2> QED
    BY <1>0, <2>1, <2>2
<1>6. CASE Clean(r) \/ Settle(r)
  <2>1. /\ UNCHANGED <<msg, inst, rowExists, rowRunning>>
        /\ \A q \in Runs : q # r => pc'[q] = pc[q] /\ result'[q] = result[q]
        /\ \A i \in Insts : /\ paused[i] = FALSE => paused'[i] = FALSE
                            /\ cancelled[i] = FALSE => cancelled'[i] = FALSE
        /\ pc[r] \in {"clean", "settle"} /\ pc'[r] \in {"settle", "mark", "pop", "done"}
    BY <1>6 DEF Clean, Settle
  <2>2. Marks(r) => Marks(r)'
    BY <1>6 DEF Clean, Settle, ExitsQuietly, Marks, IsResume
  <2>3. ASSUME NEW q \in Runs, Marks(q) PROVE Marks(q)'
    <3>1. CASE q = r
      BY <2>2, <2>3, <3>1
    <3>2. CASE q # r
      <4>1. pc[q] \in LoopPoints \cup {"lock"} => inst[q] \in Insts
        BY DEF LocalsOK
      <4> QED
        BY <2>1, <2>3, <3>2, <4>1 DEF Marks, IsResume
    <3> QED
      BY <3>1, <3>2
  <2> QED
    BY <1>0, <2>1, <2>3
<1>7. CASE Pop(r)
  <2>1. /\ UNCHANGED <<inst, result, rowExists, rowRunning, paused, cancelled>>
        /\ pc[r] = "pop"
        /\ \E q \in Runs : pc'[q] \in {"mark", "begin"}
        /\ \A q \in Runs : pc'[q] # pc[q] => pc'[q] \in {"mark", "begin", "done"}
        /\ \A q \in Runs : msg'[q] # msg[q] => pc'[q] = "begin"
    <3>1. CASE queue = <<>>
      BY <1>7, <3>1 DEF Pop
    <3>2. CASE queue # <<>>
      <4>1. PICK n \in Runs : /\ pc[n] = "unused"
                              /\ pc' = [pc EXCEPT ![r] = "done", ![n] = "begin"]
                              /\ msg' = [msg EXCEPT ![n] = Head(queue)]
        BY <1>7, <3>2 DEF Pop
      <4> QED
        BY <1>7, <4>1 DEF Pop
    <3> QED
      BY <3>1, <3>2
  <2>2. \E q \in Runs : Marks(q)'
    BY <2>1 DEF Marks
  <2> QED
    BY <1>0, <2>1, <2>2
<1>8. CASE Mark(r)
  BY <1>0, <1>8 DEF Mark, SetRunning
<1>9. CASE Timeout(r)
  BY <1>9 DEF Timeout, Marks, IsResume
<1> QED
  BY <1>1, <1>2, <1>3, <1>4, <1>5, <1>6, <1>7, <1>8, <1>9 DEF RunStep

LEMMA MarkedStep ==
  ASSUME Commands \cap {"clear", "delete"} = {}
  PROVE  SInv /\ [Next]_vars => SInv'
<1> SUFFICES ASSUME SInv, [Next]_vars PROVE RowInv' /\ MarkedInv'
  BY InvStep DEF SInv
<1>1. CASE Expire \/ CleanupIdle \/ UNCHANGED vars
  BY <1>1 DEF Expire, CleanupIdle, vars, SInv, RowInv, MarkedInv, Marks, IsResume
<1> QED
  BY <1>1, MarkedClient, MarkedRun DEF Next, Terminating

(* As long as nobody clears or deletes the session, its row does not say   *)
(* that the agent is running once every goroutine and handler is done,     *)
(* whatever cancels, pauses, resumes, interventions and double sends       *)
(* crossed each other, in every mode and for every number of them.         *)
THEOREM SettledCorrect ==
  ASSUME Commands \cap {"clear", "delete"} = {}
  PROVE  Spec => []SettledNotRunning
<1>1. SInv => SettledNotRunning
  BY DEF SInv, MarkedInv, SettledNotRunning, Quiescent, Live, Marks
<1> QED
  BY MarkedInit, MarkedStep, <1>1, PTL DEF Spec

-----------------------------------------------------------------------------
(* The session implements MessageDelivery.                                 *)

(* The four places where a message is carried.                             *)
Starting(r) == pc[r] \in {"begin", "register", "lock"}
Handed(m)   == \E c \in Clients : carry[c] = m
Queued(m)   == \E k \in DOMAIN queue : queue[k] = m
Begun(m)    == \E r \in Runs : msg[r] = m /\ Starting(r)
Slotted(m)  == \E i \in Insts : slot[i] = m
Pending     == {m \in Msgs : Carried(m)}

(* No message is in two places.                                            *)
OnceInv ==
  /\ \A c, d \in Clients : carry[c] = carry[d] /\ carry[c] # NoMsg => c = d
  /\ \A j, k \in DOMAIN queue : queue[j] = queue[k] => j = k
  /\ \A r, s \in Runs : Starting(r) /\ Starting(s) /\ msg[r] = msg[s] => r = s
  /\ \A i, j \in Insts : slot[i] = slot[j] /\ slot[i] # NoMsg => i = j
  /\ \A m \in Msgs : /\ Handed(m) => ~Queued(m) /\ ~Begun(m) /\ ~Slotted(m)
                     /\ Queued(m) => ~Begun(m) /\ ~Slotted(m)
                     /\ Begun(m) => ~Slotted(m)

HandsInv ==
  /\ \A c \in Clients : cpc[c] = "intervene" => automated \/ "intervene" \in Commands
  /\ \A c \in Clients : cpc[c] \notin {"queue", "intervene"} => carry[c] = NoMsg
  /\ \A r \in Runs : Starting(r) => msg[r] \in Msgs

(* What is carried was sent and is in no History yet.                      *)
FreshInv ==
  /\ \A m \in Msgs : Carried(m) => m \in sent /\ delivered[m] = 0
  /\ \A m \in Msgs : delivered[m] <= 1 /\ (m \notin sent => delivered[m] = 0)

CarryInv == OnceInv /\ HandsInv /\ FreshInv

LEMMA CarriedIs ==
  /\ \A m : Carried(m) <=> Handed(m) \/ Queued(m) \/ Begun(m) \/ Slotted(m)
  /\ \A m : Carried(m)' <=> Handed(m)' \/ Queued(m)' \/ Begun(m)' \/ Slotted(m)'
BY DEF Carried, Handed, Queued, Begun, Slotted, Starting

(* Steps that leave every message where it is.                             *)
LEMMA CarryFrame ==
  ASSUME CarryInv, UNCHANGED <<carry, queue, slot, msg, sent, delivered>>,
         \A r \in Runs : Starting(r)' <=> Starting(r),
         \A c \in Clients : cpc'[c] = cpc[c] \/ (carry[c] = NoMsg /\ cpc'[c] # "intervene")
  PROVE  CarryInv' /\ UNCHANGED <<sent, Pending, delivered>>
<1>1. \A m : /\ Handed(m)' <=> Handed(m)
             /\ Queued(m)' <=> Queued(m)
             /\ Begun(m)' <=> Begun(m)
             /\ Slotted(m)' <=> Slotted(m)
  BY DEF Handed, Queued, Begun, Slotted
<1>2. \A m : Carried(m)' <=> Carried(m)
  BY <1>1, CarriedIs
<1>3. OnceInv'
  BY <1>1 DEF CarryInv, OnceInv
<1>4. HandsInv'
  BY DEF CarryInv, HandsInv, automated
<1>5. FreshInv'
  BY <1>2 DEF CarryInv, FreshInv
<1>6. Pending' = Pending
  BY <1>2 DEF Pending
<1> QED
  BY <1>3, <1>4, <1>5, <1>6 DEF CarryInv

(* What a step may do to the messages.                                     *)
Sends(m)     == /\ m \in Msgs \ sent /\ sent' = sent \cup {m} /\ delivered' = delivered
                /\ Pending' = Pending \cup {m}
Delivers(m)  == /\ m \in Pending /\ sent' = sent
                /\ delivered' = [delivered EXCEPT ![m] = @ + 1] /\ Pending' = Pending \ {m}
GivesUpSome  == /\ GivesUp' /\ Pending' \subseteq Pending /\ UNCHANGED <<sent, delivered>>
DeliveryStep == \/ UNCHANGED <<sent, Pending, delivered>>
                \/ \E m \in Msgs : Sends(m) \/ Delivers(m)
                \/ GivesUpSome

LEMMA StepIs ==
  ASSUME DeliveryStep PROVE [Delivery!Next]_(Delivery!deliveryVars)
<1> USE DEF Pending
<1>1. CASE UNCHANGED <<sent, Pending, delivered>>
  BY <1>1 DEF Delivery!deliveryVars
<1>2. ASSUME NEW m \in Msgs, Sends(m) PROVE Delivery!Next
  <2>1. Delivery!Send(m)
    BY <1>2 DEF Delivery!Send, Sends
  <2> QED
    BY <2>1 DEF Delivery!Next
<1>3. ASSUME NEW m \in Msgs, Delivers(m) PROVE Delivery!Next
  <2>1. Delivery!Deliver(m)
    BY <1>3 DEF Delivery!Deliver, Delivers
  <2> QED
    BY <2>1 DEF Delivery!Next
<1>4. CASE GivesUpSome
  <2> DEFINE S == Pending \ Pending'
  <2>1. CASE S = {}
    <3>1. Pending' = Pending
      BY <1>4, <2>1 DEF GivesUpSome
    <3> QED
      BY <1>4, <3>1 DEF GivesUpSome, Delivery!deliveryVars
  <2>2. CASE S # {}
    <3>1. S \in SUBSET Msgs
      OBVIOUS
    <3>2. GivesUp' /\ S # {} /\ S \subseteq Pending /\ Pending' = Pending \ S
          /\ UNCHANGED <<sent, delivered>>
      BY <1>4, <2>2 DEF GivesUpSome
    <3>3. Delivery!Discard(S)
      BY <3>2 DEF Delivery!Discard
    <3> QED
      BY <3>1, <3>3 DEF Delivery!Next
  <2> QED
    BY <2>1, <2>2
<1> QED
  BY <1>1, <1>2, <1>3, <1>4 DEF DeliveryStep

(* A handler takes a new message in hand.                                  *)
LEMMA CarryHand ==
  ASSUME TypeInv, CarryInv, NEW c \in Clients, NEW m \in Msgs \ sent, carry[c] = NoMsg,
         cpc'[c] \in {"queue", "intervene"},
         cpc'[c] = "intervene" => automated \/ "intervene" \in Commands,
         \A d \in Clients \ {c} : cpc'[d] = cpc[d],
         carry' = [carry EXCEPT ![c] = m], sent' = sent \cup {m},
         UNCHANGED <<queue, slot, pc, msg, delivered>>
  PROVE  CarryInv' /\ Sends(m)
<1>0. carry \in [Clients -> Msgs \cup {NoMsg}] /\ NoMsg \notin Msgs /\ m # NoMsg
  BY NoMsgAssumption DEF TypeInv, TypeOK
<1>1. /\ \A x \in Msgs : Handed(x)' <=> Handed(x) \/ x = m
      /\ \A x \in Msgs : /\ Queued(x)' <=> Queued(x)
                         /\ Begun(x)' <=> Begun(x)
                         /\ Slotted(x)' <=> Slotted(x)
  BY <1>0 DEF Handed, Queued, Begun, Slotted, Starting
<1>2. ~Carried(m) /\ ~Handed(m) /\ ~Queued(m) /\ ~Begun(m) /\ ~Slotted(m)
  BY CarriedIs DEF CarryInv, FreshInv
<1>3. \A x \in Msgs : Carried(x)' <=> Carried(x) \/ x = m
  BY <1>1, CarriedIs
<1>4. OnceInv'
  <2>1. \A d \in Clients : carry'[d] = IF d = c THEN m ELSE carry[d]
    BY <1>0
  <2>2. \A d \in Clients : carry[d] # m
    BY <1>2 DEF Handed
  <2> QED
    BY <1>1, <1>2, <2>1, <2>2 DEF CarryInv, OnceInv, Starting
<1>5. HandsInv'
  BY <1>0 DEF CarryInv, HandsInv, Starting
<1>6. FreshInv'
  BY <1>3 DEF CarryInv, FreshInv
<1>7. Sends(m)
  BY <1>3 DEF Sends, Pending
<1> QED
  BY <1>4, <1>5, <1>6, <1>7 DEF CarryInv

(* A goroutine is started for a new message.                               *)
LEMMA CarryStart ==
  ASSUME TypeInv, CarryInv, NEW r \in Runs, NEW m \in Msgs \ sent, pc[r] = "unused",
         Goto(r, "begin"), msg' = [msg EXCEPT ![r] = m], sent' = sent \cup {m},
         UNCHANGED <<queue, slot, cpc, carry, delivered>>
  PROVE  CarryInv' /\ Sends(m)
<1>0. msg \in [Runs -> Msgs \cup {NoMsg}] /\ pc \in [Runs -> RunPoints]
  BY DEF TypeInv, TypeOK
<1>a. /\ Starting(r)' /\ msg'[r] = m /\ ~Starting(r)
      /\ \A q \in Runs \ {r} : (Starting(q)' <=> Starting(q)) /\ msg'[q] = msg[q]
  BY <1>0 DEF Starting
<1>1. /\ \A x \in Msgs : Begun(x)' <=> Begun(x) \/ x = m
      /\ \A x \in Msgs : /\ Queued(x)' <=> Queued(x)
                         /\ Handed(x)' <=> Handed(x)
                         /\ Slotted(x)' <=> Slotted(x)
  BY <1>a DEF Handed, Queued, Begun, Slotted
<1>2. ~Carried(m) /\ ~Handed(m) /\ ~Queued(m) /\ ~Begun(m) /\ ~Slotted(m)
  BY CarriedIs DEF CarryInv, FreshInv
<1>3. \A x \in Msgs : Carried(x)' <=> Carried(x) \/ x = m
  BY <1>1, CarriedIs
<1>4. OnceInv'
  <2>2. \A q \in Runs : Starting(q) => msg[q] # m
    BY <1>2 DEF Begun
  <2> QED
    BY <1>1, <1>2, <1>a, <2>2 DEF CarryInv, OnceInv
<1>5. HandsInv'
  BY <1>a DEF CarryInv, HandsInv
<1>6. FreshInv'
  BY <1>3 DEF CarryInv, FreshInv
<1>7. Sends(m)
  BY <1>3 DEF Sends, Pending
<1> QED
  BY <1>4, <1>5, <1>6, <1>7 DEF CarryInv

LEMMA CarryQueue ==
  ASSUME TypeInv, CarryInv, NEW c \in Clients, QueueMessage(c)
  PROVE  CarryInv' /\ DeliveryStep
<1> DEFINE m == carry[c]
<1>0. /\ carry \in [Clients -> Msgs \cup {NoMsg}] /\ NoMsg \notin Msgs /\ m \in Msgs
      /\ queue \in Seq(Msgs) /\ cpc \in [Clients -> ClientPoints]
  BY NoMsgAssumption DEF TypeInv, TypeOK, LocalsOK, QueueMessage
<1>1. /\ cpc' = [cpc EXCEPT ![c] = "ready"] /\ queue' = Append(queue, m)
      /\ carry' = [carry EXCEPT ![c] = NoMsg]
      /\ UNCHANGED <<slot, pc, msg, sent, delivered>>
  BY DEF QueueMessage
<1>2. /\ DOMAIN queue = 1..Len(queue) /\ DOMAIN queue' = 1..(Len(queue) + 1) /\ Len(queue) \in Nat
      /\ \A k \in 1..Len(queue) : queue'[k] = queue[k]
      /\ queue'[Len(queue) + 1] = m
  BY <1>0, <1>1
<1>3. \A d \in Clients : carry'[d] = IF d = c THEN NoMsg ELSE carry[d]
  BY <1>0, <1>1
<1>4. Handed(m) /\ ~Queued(m) /\ ~Begun(m) /\ ~Slotted(m)
  BY <1>0 DEF CarryInv, OnceInv, Handed
<1> HIDE DEF m
<1>5. \A x \in Msgs : /\ Handed(x)' <=> Handed(x) /\ x # m
                      /\ Queued(x)' <=> Queued(x) \/ x = m
                      /\ Begun(x)' <=> Begun(x)
                      /\ Slotted(x)' <=> Slotted(x)
  <2>1. \A x \in Msgs : Handed(x)' <=> Handed(x) /\ x # m
    <3>1. \A d \in Clients : carry[d] = m <=> d = c
      BY <1>0 DEF CarryInv, OnceInv, m
    <3> QED
      BY <1>0, <1>3, <3>1 DEF Handed
  <2>2. ASSUME NEW x \in Msgs PROVE Queued(x)' <=> Queued(x) \/ x = m
    <3> DEFINE n == Len(queue)
    <3>1. /\ n \in Nat /\ DOMAIN queue = 1..n /\ DOMAIN queue' = 1..(n + 1)
          /\ \A k \in 1..n : queue'[k] = queue[k]
          /\ queue'[n + 1] = m
      BY <1>2
    <3> HIDE DEF n
    <3>2. \A k \in 1..(n + 1) : k \in 1..n \/ k = n + 1
      BY <3>1
    <3>3. \A k \in 1..n : k \in 1..(n + 1)
      BY <3>1
    <3>4. n + 1 \in 1..(n + 1)
      BY <3>1
    <3> QED
      BY <3>1, <3>2, <3>3, <3>4 DEF Queued
  <2> QED
    BY <1>1, <2>1, <2>2 DEF Begun, Slotted, Starting
<1>6. \A x \in Msgs : Carried(x)' <=> Carried(x)
  BY <1>4, <1>5, CarriedIs
<1>7. OnceInv'
  <2>1. ASSUME NEW j \in DOMAIN queue', NEW k \in DOMAIN queue', queue'[j] = queue'[k] PROVE j = k
    <3> DEFINE n == Len(queue)
    <3>1. /\ n \in Nat /\ DOMAIN queue = 1..n /\ DOMAIN queue' = 1..(n + 1)
          /\ \A i \in 1..n : queue'[i] = queue[i]
          /\ queue'[n + 1] = m
      BY <1>2
    <3> HIDE DEF n
    <3>2. \A i \in 1..n : queue[i] # m
      BY <1>4, <3>1 DEF Queued
    <3>3. \A i \in 1..(n + 1) : i \in 1..n \/ i = n + 1
      BY <3>1
    <3> QED
      BY <2>1, <3>1, <3>2, <3>3 DEF CarryInv, OnceInv
  <2>2. \A d, e \in Clients : carry'[d] = carry'[e] /\ carry'[d] # NoMsg => d = e
    BY <1>3 DEF CarryInv, OnceInv
  <2>3. /\ \A r, s \in Runs : Starting(r)' /\ Starting(s)' /\ msg'[r] = msg'[s] => r = s
        /\ \A i, j \in Insts : slot'[i] = slot'[j] /\ slot'[i] # NoMsg => i = j
    BY <1>1 DEF CarryInv, OnceInv, Starting
  <2>4. \A x \in Msgs : /\ Handed(x)' => ~Queued(x)' /\ ~Begun(x)' /\ ~Slotted(x)'
                        /\ Queued(x)' => ~Begun(x)' /\ ~Slotted(x)'
                        /\ Begun(x)' => ~Slotted(x)'
    BY <1>4, <1>5 DEF CarryInv, OnceInv
  <2> QED
    BY <2>1, <2>2, <2>3, <2>4 DEF OnceInv
<1>8. HandsInv'
  BY <1>0, <1>1, <1>3 DEF CarryInv, HandsInv, Starting
<1>9. FreshInv'
  BY <1>1, <1>6 DEF CarryInv, FreshInv
<1>10. DeliveryStep
  BY <1>1, <1>6 DEF DeliveryStep, Pending
<1> QED
  BY <1>7, <1>8, <1>9, <1>10 DEF CarryInv

(* Without an instance the message goes nowhere, with one it replaces what *)
(* is in the slot.                                                         *)
LEMMA CarryIntervene ==
  ASSUME TypeInv, CarryInv, NEW c \in Clients, Intervene(c), automated \/ "intervene" \in Commands
  PROVE  CarryInv' /\ DeliveryStep
<1> DEFINE m == carry[c]
<1>0. /\ carry \in [Clients -> Msgs \cup {NoMsg}] /\ NoMsg \notin Msgs /\ m \in Msgs
      /\ slot \in [Insts -> Msgs \cup {NoMsg}] /\ cpc \in [Clients -> ClientPoints]
      /\ agents \in Insts \cup {NoRun}
  BY NoMsgAssumption DEF TypeInv, TypeOK, LocalsOK, Intervene
<1>1. /\ cpc' = [cpc EXCEPT ![c] = "ready"]
      /\ slot' = slot \/ (agents \in Insts /\ slot' = [slot EXCEPT ![agents] = m])
      /\ carry' = [carry EXCEPT ![c] = NoMsg]
      /\ UNCHANGED <<queue, pc, msg, sent, delivered>>
  BY <1>0 DEF Intervene
<1>3. \A d \in Clients : carry'[d] = IF d = c THEN NoMsg ELSE carry[d]
  BY <1>0, <1>1
<1>4. Handed(m) /\ ~Queued(m) /\ ~Begun(m) /\ ~Slotted(m)
  BY <1>0 DEF CarryInv, OnceInv, Handed
<1>a. \A d \in Clients : carry[d] = m <=> d = c
  BY <1>0 DEF CarryInv, OnceInv
<1> HIDE DEF m
<1>b. \A i \in Insts : slot'[i] = slot[i] \/ (i = agents /\ slot'[i] = m)
  BY <1>0, <1>1
<1>c. \A i \in Insts : slot[i] # m
  BY <1>4 DEF Slotted
<1>5. \A x \in Msgs : /\ Handed(x)' <=> Handed(x) /\ x # m
                      /\ Queued(x)' <=> Queued(x)
                      /\ Begun(x)' <=> Begun(x)
                      /\ Slotted(x)' => Slotted(x) \/ x = m
  BY <1>0, <1>1, <1>3, <1>a, <1>b DEF Handed, Queued, Begun, Slotted, Starting
<1>6. \A x \in Msgs : Carried(x)' => Carried(x)
  BY <1>4, <1>5, CarriedIs
<1>7. OnceInv'
  <2>1. \A d, e \in Clients : carry'[d] = carry'[e] /\ carry'[d] # NoMsg => d = e
    BY <1>3 DEF CarryInv, OnceInv
  <2>2. \A i, j \in Insts : slot'[i] = slot'[j] /\ slot'[i] # NoMsg => i = j
    BY <1>b, <1>c DEF CarryInv, OnceInv
  <2>3. \A r, s \in Runs : Starting(r)' /\ Starting(s)' /\ msg'[r] = msg'[s] => r = s
    BY <1>1 DEF CarryInv, OnceInv, Starting
  <2>4. \A x \in Msgs : /\ Handed(x)' => ~Queued(x)' /\ ~Begun(x)' /\ ~Slotted(x)'
                        /\ Queued(x)' => ~Begun(x)' /\ ~Slotted(x)'
                        /\ Begun(x)' => ~Slotted(x)'
    BY <1>4, <1>5 DEF CarryInv, OnceInv
  <2> QED
    BY <1>1, <2>1, <2>2, <2>3, <2>4 DEF OnceInv, CarryInv
<1>8. HandsInv'
  BY <1>0, <1>1, <1>3 DEF CarryInv, HandsInv, Starting
<1>9. FreshInv'
  BY <1>1, <1>6 DEF CarryInv, FreshInv
<1>10. DeliveryStep
  BY <1>1, <1>6 DEF DeliveryStep, GivesUpSome, GivesUp, Pending, automated
<1> QED
  BY <1>7, <1>8, <1>9, <1>10 DEF CarryInv

LEMMA CarryClear ==
  ASSUME TypeInv, CarryInv, NEW c \in Clients, NEW command \in {"cancel", "clear", "delete"},
         ClearQueue(c, command)
  PROVE  CarryInv' /\ DeliveryStep
<1>1. /\ cpc[c] = "ready" /\ cpc' = [cpc EXCEPT ![c] = command] /\ queue' = <<>>
      /\ UNCHANGED <<slot, pc, msg, carry, sent, delivered>> /\ cpc'[c] = command
  BY DEF ClearQueue, Issue, TypeInv, TypeOK
<1>2. \A x \in Msgs : /\ Handed(x)' <=> Handed(x)
                      /\ ~Queued(x)'
                      /\ Begun(x)' <=> Begun(x)
                      /\ Slotted(x)' <=> Slotted(x)
  BY <1>1 DEF Handed, Queued, Begun, Slotted, Starting
<1>3. \A x \in Msgs : Carried(x)' => Carried(x)
  BY <1>2, CarriedIs
<1>4. OnceInv'
  BY <1>1, <1>2 DEF CarryInv, OnceInv, Starting
<1>5. HandsInv'
  BY <1>1 DEF CarryInv, HandsInv, Starting
<1>6. FreshInv'
  BY <1>1, <1>3 DEF CarryInv, FreshInv
<1>7. DeliveryStep
  BY <1>1, <1>3 DEF DeliveryStep, GivesUpSome, GivesUp, Pending
<1> QED
  BY <1>4, <1>5, <1>6, <1>7 DEF CarryInv

LEMMA CarryClient ==
  ASSUME TypeInv, CarryInv, NEW c \in Clients, ClientStep(c)
  PROVE  CarryInv' /\ DeliveryStep
<1>0. cpc \in [Clients -> ClientPoints] /\ pc \in [Runs -> RunPoints]
  BY DEF TypeInv, TypeOK
<1>1. \A d \in Clients : cpc[d] \notin {"queue", "intervene"} => carry[d] = NoMsg
  BY DEF CarryInv, HandsInv
<1>2. CASE SendMessage(c)
  <2>1. PICK m \in Msgs \ sent : /\ m = NextMsg /\ cpc[c] = "ready" /\ sent' = sent \cup {m}
                                 /\ UNCHANGED <<queue, slot, delivered>>
                                 /\ \/ /\ \/ automated /\ Became(c, "intervene")
                                          \/ Became(c, "queue")
                                       /\ carry' = [carry EXCEPT ![c] = m]
                                       /\ UNCHANGED <<pc, msg>>
                                    \/ /\ \E r \in Runs : /\ pc[r] = "unused" /\ Goto(r, "begin")
                                                          /\ msg' = [msg EXCEPT ![r] = m]
                                       /\ UNCHANGED <<cpc, carry>>
    BY <1>2 DEF SendMessage
  <2>2. CASE /\ (automated /\ Became(c, "intervene")) \/ Became(c, "queue")
             /\ carry' = [carry EXCEPT ![c] = m]
             /\ UNCHANGED <<pc, msg>>
    BY <1>0, <1>1, <2>1, <2>2, CarryHand DEF DeliveryStep
  <2>3. CASE /\ \E r \in Runs : /\ pc[r] = "unused" /\ Goto(r, "begin")
                                /\ msg' = [msg EXCEPT ![r] = m]
             /\ UNCHANGED <<cpc, carry>>
    BY <2>1, <2>3, CarryStart DEF DeliveryStep
  <2> QED
    BY <2>1, <2>2, <2>3
<1>3. CASE InterveneCommand(c)
  <2>1. PICK m \in Msgs \ sent : /\ cpc[c] = "ready" /\ sent' = sent \cup {m}
                                 /\ Became(c, "intervene") /\ "intervene" \in Commands
                                 /\ carry' = [carry EXCEPT ![c] = m]
                                 /\ UNCHANGED <<queue, slot, pc, msg, delivered>>
    BY <1>3 DEF InterveneCommand, Issue
  <2> QED
    BY <1>0, <1>1, <2>1, CarryHand DEF DeliveryStep
<1>4. CASE /\ UNCHANGED <<carry, queue, slot, msg, pc, sent, delivered>>
           /\ \A d \in Clients : \/ cpc'[d] = cpc[d]
                                 \/ cpc[d] \notin {"queue", "intervene"} /\ cpc'[d] # "intervene"
  BY <1>1, <1>4, CarryFrame DEF DeliveryStep, Starting
<1>5. CASE Cancel(c) \/ CancelDb(c) \/ Pause(c) \/ PauseDb(c) \/ CleanupAgent(c) \/ DeleteRow(c)
  <2>1. /\ UNCHANGED <<carry, queue, slot, msg, pc, sent, delivered>>
        /\ cpc[c] \notin {"queue", "intervene"} /\ cpc'[c] # "intervene"
        /\ \A d \in Clients \ {c} : cpc'[d] = cpc[d]
    BY <1>0, <1>5 DEF Became, Cancel, CancelDb, Pause, PauseDb, CleanupAgent, DeleteRow, Issue
  <2> QED
    BY <1>4, <2>1
<1>6. CASE Resume(c)
  <2>1. /\ UNCHANGED <<cpc, carry, queue, slot, msg, sent, delivered>>
        /\ \A r \in Runs : Starting(r)' <=> Starting(r)
    BY <1>0, <1>6 DEF Resume, Starting
  <2> QED
    BY <2>1, CarryFrame DEF DeliveryStep
<1>7. CASE Intervene(c)
  <2>1. automated \/ "intervene" \in Commands
    BY <1>7 DEF CarryInv, HandsInv, Intervene
  <2> QED
    BY <1>7, <2>1, CarryIntervene
<1> QED
  BY <1>2, <1>3, <1>5, <1>6, <1>7, CarryQueue, CarryClear DEF ClientStep

(* A run appends the message it was started for.                           *)
LEMMA CarryLock ==
  ASSUME TypeInv, CarryInv, NEW r \in Runs, Lock(r)
  PROVE  CarryInv' /\ DeliveryStep
<1> DEFINE m == msg[r]
<1>0. /\ pc[r] = "lock" /\ Starting(r) /\ m \in Msgs
      /\ delivered' = [delivered EXCEPT ![m] = @ + 1]
      /\ Goto(r, "top") /\ UNCHANGED <<carry, queue, slot, msg, cpc, sent>>
      /\ pc \in [Runs -> RunPoints] /\ delivered \in [Msgs -> Nat]
  BY DEF Lock, Appended, Starting, CarryInv, HandsInv, TypeInv, TypeOK
<1>1. \A s \in Runs : Starting(s)' <=> Starting(s) /\ s # r
  BY <1>0 DEF Starting
<1>2. Begun(m) /\ ~Handed(m) /\ ~Queued(m) /\ ~Slotted(m) /\ Carried(m)
  BY <1>0, CarriedIs DEF CarryInv, OnceInv, Begun
<1>3. \A s \in Runs : Starting(s) /\ msg[s] = m <=> s = r
  BY <1>0 DEF CarryInv, OnceInv
<1>4. \A x \in Msgs : delivered'[x] = IF x = m THEN delivered[x] + 1 ELSE delivered[x]
  BY <1>0
<1> HIDE DEF m
<1>5. \A x \in Msgs : /\ Handed(x)' <=> Handed(x)
                      /\ Queued(x)' <=> Queued(x)
                      /\ Begun(x)' <=> (Begun(x) /\ x # m)
                      /\ Slotted(x)' <=> Slotted(x)
  BY <1>0, <1>1, <1>3 DEF Handed, Queued, Begun, Slotted
<1>6. \A x \in Msgs : Carried(x)' <=> (Carried(x) /\ x # m)
  BY <1>2, <1>5, CarriedIs
<1>7. OnceInv'
  <2>1. /\ \A d, e \in Clients : carry'[d] = carry'[e] /\ carry'[d] # NoMsg => d = e
        /\ \A j, k \in DOMAIN queue' : queue'[j] = queue'[k] => j = k
        /\ \A i, j \in Insts : slot'[i] = slot'[j] /\ slot'[i] # NoMsg => i = j
    BY <1>0 DEF CarryInv, OnceInv
  <2>2. \A s, t \in Runs : Starting(s)' /\ Starting(t)' /\ msg'[s] = msg'[t] => s = t
    BY <1>0, <1>1 DEF CarryInv, OnceInv
  <2>3. \A x \in Msgs : /\ Handed(x)' => ~Queued(x)' /\ ~Begun(x)' /\ ~Slotted(x)'
                        /\ Queued(x)' => ~Begun(x)' /\ ~Slotted(x)'
                        /\ Begun(x)' => ~Slotted(x)'
    BY <1>5 DEF CarryInv, OnceInv
  <2> QED
    BY <2>1, <2>2, <2>3 DEF OnceInv
<1>8. HandsInv'
  BY <1>0, <1>1 DEF CarryInv, HandsInv
<1>9. FreshInv'
  BY <1>0, <1>2, <1>4, <1>6 DEF CarryInv, FreshInv
<1>10. Delivers(m)
  BY <1>0, <1>2, <1>6 DEF Delivers, Pending
<1> QED
  BY <1>0, <1>7, <1>8, <1>9, <1>10 DEF CarryInv, DeliveryStep

(* The loop takes the intervention, if there is one.                       *)
LEMMA CarryTake ==
  ASSUME TypeInv, CarryInv, NEW i \in Insts, TakeIntervention(i),
         UNCHANGED <<carry, queue, msg, cpc, sent>>, \A s \in Runs : Starting(s)' <=> Starting(s)
  PROVE  CarryInv' /\ DeliveryStep
<1> DEFINE m == slot[i]
<1>0. /\ slot \in [Insts -> Msgs \cup {NoMsg}] /\ delivered \in [Msgs -> Nat]
      /\ slot' = [slot EXCEPT ![i] = NoMsg] /\ NoMsg \notin Msgs
      /\ delivered' = IF m = NoMsg THEN delivered ELSE [delivered EXCEPT ![m] = @ + 1]
  BY NoMsgAssumption DEF TakeIntervention, SlotCleared, TypeInv, TypeOK
<1>1. CASE m = NoMsg
  <2>1. slot' = slot /\ delivered' = delivered
    BY <1>0, <1>1
  <2> QED
    BY <2>1, CarryFrame DEF DeliveryStep
<1>2. CASE m # NoMsg
  <2>0. m \in Msgs
    BY <1>0, <1>2
  <2>1. Slotted(m) /\ ~Handed(m) /\ ~Queued(m) /\ ~Begun(m) /\ Carried(m)
    BY <2>0, CarriedIs DEF CarryInv, OnceInv, Slotted
  <2>2. \A j \in Insts : slot[j] = m <=> j = i
    BY <1>2 DEF CarryInv, OnceInv
  <2>3. \A j \in Insts : slot'[j] = IF j = i THEN NoMsg ELSE slot[j]
    BY <1>0
  <2>4. \A x \in Msgs : delivered'[x] = IF x = m THEN delivered[x] + 1 ELSE delivered[x]
    BY <1>0, <1>2, <2>0
  <2>a. delivered' = [delivered EXCEPT ![m] = @ + 1]
    BY <1>0, <1>2
  <2> HIDE DEF m
  <2>5. \A x \in Msgs : /\ Handed(x)' <=> Handed(x)
                        /\ Queued(x)' <=> Queued(x)
                        /\ Begun(x)' <=> Begun(x)
                        /\ Slotted(x)' <=> (Slotted(x) /\ x # m)
    BY <1>0, <2>2, <2>3 DEF Handed, Queued, Begun, Slotted
  <2>6. \A x \in Msgs : Carried(x)' <=> (Carried(x) /\ x # m)
    BY <2>1, <2>5, CarriedIs
  <2>7. OnceInv'
    <3>1. /\ \A d, e \in Clients : carry'[d] = carry'[e] /\ carry'[d] # NoMsg => d = e
          /\ \A j, k \in DOMAIN queue' : queue'[j] = queue'[k] => j = k
          /\ \A s, t \in Runs : Starting(s)' /\ Starting(t)' /\ msg'[s] = msg'[t] => s = t
      BY DEF CarryInv, OnceInv
    <3>2. \A j, k \in Insts : slot'[j] = slot'[k] /\ slot'[j] # NoMsg => j = k
      BY <2>3 DEF CarryInv, OnceInv
    <3>3. \A x \in Msgs : /\ Handed(x)' => ~Queued(x)' /\ ~Begun(x)' /\ ~Slotted(x)'
                          /\ Queued(x)' => ~Begun(x)' /\ ~Slotted(x)'
                          /\ Begun(x)' => ~Slotted(x)'
      BY <2>5 DEF CarryInv, OnceInv
    <3> QED
      BY <3>1, <3>2, <3>3 DEF OnceInv
  <2>8. HandsInv'
    BY DEF CarryInv, HandsInv
  <2>9. FreshInv'
    BY <1>0, <2>1, <2>4, <2>6 DEF CarryInv, FreshInv
  <2>10. Delivers(m)
    BY <2>0, <2>1, <2>6, <2>a DEF Delivers, Pending
  <2> QED
    BY <2>0, <2>7, <2>8, <2>9, <2>10 DEF CarryInv, DeliveryStep
<1> QED
  BY <1>1, <1>2

(* The head of the queue gets a goroutine of its own.                      *)
LEMMA CarryPop ==
  ASSUME TypeInv, CarryInv, NEW r \in Runs, Pop(r)
  PROVE  CarryInv' /\ DeliveryStep
<1>0. /\ pc \in [Runs -> RunPoints] /\ msg \in [Runs -> Msgs \cup {NoMsg}] /\ queue \in Seq(Msgs)
      /\ pc[r] = "pop" /\ UNCHANGED <<carry, slot, cpc, sent, delivered>>
  BY DEF Pop, TypeInv, TypeOK
<1>1. CASE queue = <<>>
  <2>1. Goto(r, "mark") /\ UNCHANGED <<queue, msg>>
    BY <1>1 DEF Pop
  <2>2. \A s \in Runs : Starting(s)' <=> Starting(s)
    BY <1>0, <2>1 DEF Starting
  <2> QED
    BY <1>0, <2>1, <2>2, CarryFrame DEF DeliveryStep
<1>2. CASE queue # <<>>
  <2>1. PICK n \in Runs : /\ pc[n] = "unused"
                          /\ pc' = [pc EXCEPT ![r] = "done", ![n] = "begin"]
                          /\ msg' = [msg EXCEPT ![n] = Head(queue)]
                          /\ queue' = Tail(queue)
    BY <1>2 DEF Pop, Popped
  <2> DEFINE m == Head(queue)
             l == Len(queue)
  <2>2. /\ l \in Nat \ {0} /\ m \in Msgs /\ DOMAIN queue = 1..l /\ DOMAIN queue' = 1..(l - 1)
        /\ m = queue[1] /\ \A k \in 1..(l - 1) : queue'[k] = queue[k + 1]
    BY <1>0, <1>2, <2>1
  <2>3. /\ \A s \in Runs : Starting(s)' <=> (Starting(s) \/ s = n)
        /\ ~Starting(n) /\ msg'[n] = m /\ \A s \in Runs \ {n} : msg'[s] = msg[s]
    BY <1>0, <2>1 DEF Starting
  <2> HIDE DEF m, l
  <2>4. Queued(m) /\ ~Handed(m) /\ ~Begun(m) /\ ~Slotted(m)
    <3>1. Queued(m)
      BY <2>2 DEF Queued
    <3> QED
      BY <2>2, <3>1 DEF CarryInv, OnceInv
  <2>5. \A j, k \in 1..l : queue[j] = queue[k] => j = k
    BY <2>2 DEF CarryInv, OnceInv
  <2>6. ASSUME NEW x \in Msgs PROVE Queued(x)' <=> (Queued(x) /\ x # m)
    <3>1. ASSUME NEW k \in 1..(l - 1), queue'[k] = x PROVE Queued(x) /\ x # m
      <4>1. k + 1 \in 1..l /\ 1 \in 1..l /\ k + 1 # 1
        BY <2>2
      <4> QED
        BY <2>2, <2>5, <3>1, <4>1 DEF Queued
    <3>2. ASSUME NEW k \in 1..l, queue[k] = x, x # m PROVE \E j \in 1..(l - 1) : queue'[j] = x
      <4>1. k - 1 \in 1..(l - 1) /\ k - 1 + 1 = k
        BY <2>2, <3>2
      <4> QED
        BY <2>2, <3>2, <4>1
    <3> QED
      BY <2>2, <3>1, <3>2 DEF Queued
  <2>7. \A x \in Msgs : /\ Handed(x)' <=> Handed(x)
                        /\ Queued(x)' <=> (Queued(x) /\ x # m)
                        /\ Begun(x)' <=> (Begun(x) \/ x = m)
                        /\ Slotted(x)' <=> Slotted(x)
    BY <1>0, <2>3, <2>6 DEF Handed, Begun, Slotted
  <2>8. \A x \in Msgs : Carried(x)' <=> Carried(x)
    BY <2>4, <2>7, CarriedIs
  <2>9. OnceInv'
    <3>1. /\ \A d, e \in Clients : carry'[d] = carry'[e] /\ carry'[d] # NoMsg => d = e
          /\ \A i, j \in Insts : slot'[i] = slot'[j] /\ slot'[i] # NoMsg => i = j
      BY <1>0 DEF CarryInv, OnceInv
    <3>2. \A j, k \in DOMAIN queue' : queue'[j] = queue'[k] => j = k
      <4>1. \A k \in 1..(l - 1) : k + 1 \in 1..l
        BY <2>2
      <4> QED
        BY <2>2, <2>5, <4>1
    <3>3. \A s \in Runs : Starting(s) => msg[s] # m
      BY <2>4 DEF Begun
    <3>4. \A s, t \in Runs : Starting(s)' /\ Starting(t)' /\ msg'[s] = msg'[t] => s = t
      BY <2>3, <3>3 DEF CarryInv, OnceInv
    <3>5. \A x \in Msgs : /\ Handed(x)' => ~Queued(x)' /\ ~Begun(x)' /\ ~Slotted(x)'
                          /\ Queued(x)' => ~Begun(x)' /\ ~Slotted(x)'
                          /\ Begun(x)' => ~Slotted(x)'
      BY <2>4, <2>7 DEF CarryInv, OnceInv
    <3> QED
      BY <3>1, <3>2, <3>4, <3>5 DEF OnceInv
  <2>10. HandsInv'
    BY <1>0, <2>2, <2>3 DEF CarryInv, HandsInv
  <2>11. FreshInv'
    BY <1>0, <2>8 DEF CarryInv, FreshInv
  <2>12. DeliveryStep
    BY <1>0, <2>8 DEF DeliveryStep, Pending
  <2> QED
    BY <2>9, <2>10, <2>11, <2>12 DEF CarryInv
<1> QED
  BY <1>1, <1>2

(* A run whose row is gone returns, and its message with it.               *)
LEMMA CarryBegin ==
  ASSUME TypeInv, CarryInv, NEW r \in Runs, Begin(r)
  PROVE  CarryInv' /\ DeliveryStep
<1>0. /\ pc \in [Runs -> RunPoints] /\ pc[r] = "begin" /\ rowExists' = rowExists
      /\ Goto(r, IF rowExists THEN "register" ELSE "done")
      /\ UNCHANGED <<carry, queue, slot, msg, cpc, sent, delivered>>
  BY DEF Begin, TypeInv, TypeOK
<1>1. CASE rowExists
  <2>1. \A s \in Runs : Starting(s)' <=> Starting(s)
    BY <1>0, <1>1 DEF Starting
  <2> QED
    BY <1>0, <2>1, CarryFrame DEF DeliveryStep
<1>2. CASE ~rowExists
  <2>1. \A s \in Runs : Starting(s)' => Starting(s)
    BY <1>0, <1>2 DEF Starting
  <2>2. \A x \in Msgs : /\ Handed(x)' <=> Handed(x)
                        /\ Queued(x)' <=> Queued(x)
                        /\ Begun(x)' => Begun(x)
                        /\ Slotted(x)' <=> Slotted(x)
    BY <1>0, <2>1 DEF Handed, Queued, Begun, Slotted
  <2>3. \A x \in Msgs : Carried(x)' => Carried(x)
    BY <2>2, CarriedIs
  <2>4. OnceInv'
    BY <1>0, <2>1, <2>2 DEF CarryInv, OnceInv
  <2>5. HandsInv' /\ FreshInv'
    BY <1>0, <2>1, <2>3 DEF CarryInv, HandsInv, FreshInv
  <2>6. DeliveryStep
    BY <1>0, <1>2, <2>3 DEF DeliveryStep, GivesUpSome, GivesUp, Pending
  <2> QED
    BY <2>4, <2>5, <2>6 DEF CarryInv
<1> QED
  BY <1>1, <1>2

LEMMA CarryRun ==
  ASSUME TypeInv, CarryInv, NEW r \in Runs, RunStep(r) \/ Timeout(r)
  PROVE  CarryInv' /\ DeliveryStep
<1>0. pc \in [Runs -> RunPoints]
  BY DEF TypeInv, TypeOK
<1>1. CASE UNCHANGED <<carry, queue, slot, msg, cpc, sent, delivered>>
           /\ \A s \in Runs : Starting(s)' <=> Starting(s)
  BY <1>1, CarryFrame DEF DeliveryStep
<1>2. CASE Register(r) \/ BeginResume(r) \/ Restore(r) \/ Relock(r) \/ Clean(r) \/ Settle(r) \/ Mark(r)
  <2>1. /\ UNCHANGED <<carry, queue, slot, msg, cpc, sent, delivered>>
        /\ \/ pc[r] = "register" /\ Goto(r, "lock")
           \/ /\ ~Starting(r)
              /\ \E to \in {"done", "restore", "relock", "top", "settle", "mark", "pop"} : Goto(r, to)
    BY <1>2 DEF Register, BeginResume, Restore, Relock, Clean, Settle, Mark, Starting
  <2> QED
    BY <1>0, <1>1, <2>1 DEF Starting
<1>3. CASE Timeout(r)
  BY <1>1, <1>3 DEF Timeout, Starting
<1>4. CASE LoopStep(r)
  <2>1. /\ InLoop(r) /\ inst[r] \in Insts /\ UNCHANGED <<msg, cpc>>
        /\ \A q \in Runs : pc'[q] # pc[q] => q = r
        /\ pc'[r] \in LoopPoints \cup {"clean"}
    BY <1>4, LoopFrame
  <2>2. \A s \in Runs : Starting(s)' <=> Starting(s)
    BY <2>1 DEF Starting, InLoop
  <2>3. UNCHANGED <<carry, queue, sent>>
    BY <1>4 DEF LoopStep, LoopTop, LlmFails, LlmAnswers, LlmRepeats, LlmCallsTools, ToolCheck,
                ToolRan, NextIteration, inLoopUnchanged
  <2>4. UNCHANGED <<slot, delivered>> \/ TakeIntervention(inst[r])
    BY <1>4 DEF LoopStep, LoopTop, LlmFails, LlmAnswers, LlmRepeats, LlmCallsTools, ToolCheck,
                ToolRan, NextIteration
  <2> QED
    BY <1>1, <2>1, <2>2, <2>3, <2>4, CarryTake
<1> QED
  BY <1>2, <1>3, <1>4, CarryBegin, CarryLock, CarryPop DEF RunStep

LEMMA CarryInit == Init => CarryInv /\ Delivery!Init
<1> SUFFICES ASSUME Init PROVE CarryInv /\ Delivery!Init
  OBVIOUS
<1>1. \A m \in Msgs : ~Handed(m) /\ ~Queued(m) /\ ~Begun(m) /\ ~Slotted(m)
  BY NoMsgAssumption DEF Init, Handed, Queued, Begun, Slotted, Starting
<1>2. \A m \in Msgs : ~Carried(m)
  BY <1>1, CarriedIs
<1>3. OnceInv
  BY <1>1 DEF Init, OnceInv, Starting
<1>4. HandsInv /\ FreshInv
  BY <1>2 DEF Init, HandsInv, FreshInv, Starting
<1>5. Delivery!Init
  BY <1>2 DEF Init, Delivery!Init
<1> QED
  BY <1>3, <1>4, <1>5 DEF CarryInv

LEMMA CarryStep ==
  ASSUME TypeInv, CarryInv, [Next]_vars PROVE CarryInv' /\ DeliveryStep
<1>1. ASSUME NEW c \in Clients, ClientStep(c) PROVE CarryInv' /\ DeliveryStep
  BY <1>1, CarryClient
<1>2. ASSUME NEW r \in Runs, RunStep(r) \/ Timeout(r) PROVE CarryInv' /\ DeliveryStep
  BY <1>2, CarryRun
<1>3. CASE Expire \/ CleanupIdle \/ Terminating \/ UNCHANGED vars
  <2>1. UNCHANGED <<carry, queue, slot, msg, pc, cpc, sent, delivered>>
    BY <1>3 DEF Expire, CleanupIdle, Terminating, vars, runVars, client, history
  <2> QED
    BY <2>1, CarryFrame DEF DeliveryStep, Starting
<1> QED
  BY <1>1, <1>2, <1>3 DEF Next

(* However sends, queueing, interventions, cancels, clears, deletes and the *)
(* goroutines of one session interleave, what happens to the messages is    *)
(* what MessageDelivery allows.                                             *)
THEOREM DeliveryImplemented == Spec => DeliverySpec
<1>1. Init => TypeInv /\ CarryInv /\ Delivery!Init
  BY TypeInit, CarryInit
<1>2. TypeInv /\ CarryInv /\ [Next]_vars =>
        TypeInv' /\ CarryInv' /\ [Delivery!Next]_(Delivery!deliveryVars)
  BY TypeStep, CarryStep, StepIs
<1> QED
  BY <1>1, <1>2, PTL DEF Spec, DeliverySpec, Delivery!Spec

(* No message of a user is appended twice to the conversation of the agent, *)
(* and none that is still on its way is in it already.                      *)
THEOREM AtMostOnceCorrect == Spec => []Delivery!AtMostOnce
<1>1. Init => TypeInv /\ CarryInv
  BY TypeInit, CarryInit
<1>2. TypeInv /\ CarryInv /\ [Next]_vars => TypeInv' /\ CarryInv'
  BY TypeStep, CarryStep
<1>3. CarryInv => Delivery!AtMostOnce
  BY DEF CarryInv, FreshInv, Delivery!AtMostOnce
<1> QED
  BY <1>1, <1>2, <1>3, PTL DEF Spec
=============================================================================
