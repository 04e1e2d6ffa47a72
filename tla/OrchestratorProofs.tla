------------------------- MODULE OrchestratorProofs -------------------------
(***************************************************************************)
(* Proofs about Orchestrator, for any number of runs, tasks, LLM slots and *)
(* commands: the variables keep their types, the slots in use are those of *)
(* the calls that the LLM works on, a run asks for its summary only with   *)
(* the results of all its children, a stop reaches the children, and rows  *)
(* and maps are cleared of them but where a stop was overtaken.            *)
(*                                                                         *)
(* PhaseInv adds what the order of a run guarantees: its children do not   *)
(* exist before the plan is made, and one that has ended has a result.     *)
(*                                                                         *)
(* That a cancel and a clear reach all children rests on ReachInv: while   *)
(* the run has the cancel entry of the session, every child at work is     *)
(* tracked and in the map, and once it is stopped, every one that can      *)
(* still come to a tool is marked or on the list of the handler.           *)
(*                                                                         *)
(* What is left when all is quiet rests on LeftInv: a child whose row says *)
(* running, and one in the maps, is known to somebody who will mark it or  *)
(* take it out, as long as nobody has come between.                        *)
(***************************************************************************)
EXTENDS Orchestrator, FiniteSetTheorems, TLAPS

ChildrenOf(r) == {c \in Children : c[1] = r}

Unborn   == \A r \in Runs : pc[r] \in {"unused", "lock", "decompose", "planning"} =>
                              \A c \in ChildrenOf(r) : pc[c] = "unused"
Reported == \A c \in Children : pc[c] = "ended" => result[c] # "none"
Planned  == \A r \in Runs : {r} \X (1..tasks[r]) \subseteq ChildrenOf(r)

PhaseInv == Unborn /\ Reported /\ Planned

SlotInv == SlotsReturned /\ IsFiniteSet(InCall)

Inv == TypeOK /\ PhaseInv /\ SlotInv

-----------------------------------------------------------------------------
(* Types.                                                                  *)

LEMMA Names ==
  /\ Runs \subseteq Workers /\ Children \subseteq Workers /\ Runs \cap Children = {}
  /\ NoRun \notin Workers
  /\ \A r \in Runs, n \in Nat : n <= MaxTasks[r] => {r} \X (1..n) \subseteq ChildrenOf(r)
  /\ \A c \in Children : RunOf(c) = c[1] /\ c[1] \in Runs
<1>1. \A r \in Runs, n \in Nat : n <= MaxTasks[r] => {r} \X (1..n) \subseteq ChildrenOf(r)
  <2> SUFFICES ASSUME NEW r \in Runs, NEW n \in Nat, n <= MaxTasks[r], NEW c \in {r} \X (1..n)
               PROVE  c \in Children /\ c[1] = r
    BY DEF ChildrenOf
  <2>1. MaxTasks[r] \in Nat
    BY BoundsAssumption
  <2>2. c \in {r} \X (1..MaxTasks[r])
    BY <2>1
  <2> QED
    BY <2>2 DEF Children
<1>2. \A c \in Children : c[1] \in Runs
  BY DEF Children
<1> QED
  BY <1>1, <1>2, NamesAssumption DEF Workers, RunOf

LEMMA InitInv == Init => Inv
<1> SUFFICES ASSUME Init PROVE Inv
  OBVIOUS
<1>1. MapTypes /\ RunTypes /\ HandlerTypes
  BY BoundsAssumption DEF Init, MapTypes, RunTypes, HandlerTypes
<1>2. WorkerTypes
  BY BoundsAssumption DEF Init, WorkerTypes, Points, Results
<1>3. PhaseInv
  <2>1. Unborn /\ Reported
    BY Names DEF Init, Unborn, Reported, ChildrenOf
  <2>2. Planned
    BY DEF Init, Planned
  <2> QED
    BY <2>1, <2>2 DEF PhaseInv
<1>4. SlotInv
  <2>1. InCall = {}
    BY DEF Init, InCall
  <2> QED
    BY <2>1, FS_EmptySet DEF Init, SlotInv, SlotsReturned
<1> QED
  BY <1>1, <1>2, <1>3, <1>4 DEF Inv, TypeOK

LEMMA MapTypesNext == TypeOK /\ [Next]_vars => MapTypes'
<1> SUFFICES ASSUME TypeOK, [Next]_vars PROVE MapTypes'
  OBVIOUS
<1>0. MapTypes
  BY DEF TypeOK
<1> USE DEF maps, flags, handler, ghosts, runUnchanged, childUnchanged, handlerUnchanged, Goto
<1>1. ASSUME NEW r \in Runs, Send(r) PROVE MapTypes'
  BY <1>0, <1>1 DEF Send, MapTypes
<1>2. ASSUME NEW r \in Runs, Lock(r) \/ SlotOr(r, "decompose", "planning", "error") \/ Plan(r) \/ Collect(r) \/ SlotOr(r, "synthesize", "summing", "error") \/ Summarize(r) \/ Settle(r) PROVE MapTypes'
  BY <1>0, <1>2 DEF Lock, SlotOr, Plan, Collect, Summarize, Settle, MapTypes
<1>3. ASSUME NEW r \in Runs, Clean(r) PROVE MapTypes'
  BY <1>0, <1>3 DEF Clean, MapTypes
<1>4. ASSUME NEW r \in Runs, Deadline(r) PROVE MapTypes'
  BY <1>0, <1>4 DEF Deadline, MapTypes
<1>5. ASSUME NEW r \in Runs, Resume(r) PROVE MapTypes'
  BY <1>0, <1>5 DEF Resume, MapTypes
<1>6. ASSUME NEW c \in Children, Spawn(c) PROVE MapTypes'
  BY <1>0, <1>6 DEF Spawn, MapTypes
<1>7. ASSUME NEW c \in Children, Track(c) \/ Count(c) \/ Enter(c) PROVE MapTypes'
  BY <1>0, <1>7 DEF Track, Count, Enter, MapTypes
<1>8. ASSUME NEW c \in Children, CancelChild(c) PROVE MapTypes'
  BY <1>0, <1>8 DEF CancelChild, MapTypes
<1>9. ASSUME NEW w \in Workers, Top(w) \/ SlotOr(w, "wait", "llm", StopResult(w)) \/ Answer(w) \/ BeforeCall(w) \/ ToolReturns(w) PROVE MapTypes'
  BY <1>0, <1>9 DEF Top, SlotOr, Answer, BeforeCall, ToolReturns, MapTypes
<1>10. CASE Cancel
  BY <1>0, <1>10 DEF Cancel, MapTypes
<1>11. CASE Clear
  BY <1>0, <1>11 DEF Clear, MapTypes
<1>12. CASE Pause
  BY <1>0, <1>12 DEF Pause, MapTypes
<1>13. CASE Untrack \/ CancelRows \/ ClearRows
  BY <1>0, <1>13 DEF Untrack, CancelRows, ClearRows, MapTypes
<1>14. CASE UNCHANGED vars
  BY <1>0, <1>14 DEF vars, MapTypes
<1> QED
  BY <1>1, <1>2, <1>3, <1>4, <1>5, <1>6, <1>7, <1>8, <1>9, <1>10, <1>11, <1>12, <1>13, <1>14
     DEF Next, RunStep, ChildStep, LoopStep, HandlerStep

LEMMA HandlerTypesNext == TypeOK /\ [Next]_vars => HandlerTypes'
<1> SUFFICES ASSUME TypeOK, [Next]_vars PROVE HandlerTypes'
  OBVIOUS
<1>0. MapTypes /\ HandlerTypes
  BY DEF TypeOK
<1> USE DEF maps, flags, handler, ghosts, runUnchanged, childUnchanged, handlerUnchanged, Goto
<1>1. ASSUME NEW r \in Runs, Send(r) PROVE HandlerTypes'
  BY <1>0, <1>1 DEF Send, HandlerTypes, MapTypes
<1>2. ASSUME NEW r \in Runs, Lock(r) \/ SlotOr(r, "decompose", "planning", "error") \/ Plan(r) \/ Collect(r) \/ SlotOr(r, "synthesize", "summing", "error") \/ Summarize(r) \/ Settle(r) PROVE HandlerTypes'
  BY <1>0, <1>2 DEF Lock, SlotOr, Plan, Collect, Summarize, Settle, HandlerTypes, MapTypes
<1>3. ASSUME NEW r \in Runs, Clean(r) PROVE HandlerTypes'
  BY <1>0, <1>3 DEF Clean, Forgotten, HandlerTypes, MapTypes
<1>4. ASSUME NEW r \in Runs, Deadline(r) PROVE HandlerTypes'
  BY <1>0, <1>4 DEF Deadline, HandlerTypes, MapTypes
<1>5. ASSUME NEW r \in Runs, Resume(r) PROVE HandlerTypes'
  BY <1>0, <1>5, BoundsAssumption DEF Resume, Given, HandlerTypes, MapTypes
<1>6. ASSUME NEW c \in Children, Spawn(c) PROVE HandlerTypes'
  BY <1>0, <1>6 DEF Spawn, HandlerTypes, MapTypes
<1>7. ASSUME NEW c \in Children, Track(c) \/ Count(c) \/ Enter(c) PROVE HandlerTypes'
  BY <1>0, <1>7 DEF Track, Count, Enter, Late, Astray, HandlerTypes
<1>8. ASSUME NEW c \in Children, CancelChild(c) PROVE HandlerTypes'
  BY <1>0, <1>8 DEF CancelChild, HandlerTypes, MapTypes
<1>9. ASSUME NEW w \in Workers, Top(w) \/ SlotOr(w, "wait", "llm", StopResult(w)) \/ Answer(w) \/ BeforeCall(w) \/ ToolReturns(w) PROVE HandlerTypes'
  BY <1>0, <1>9 DEF Top, SlotOr, Answer, BeforeCall, ToolReturns, HandlerTypes, MapTypes
<1>10. CASE Cancel
  BY <1>0, <1>10, BoundsAssumption DEF Cancel, Command, Given, HandlerTypes, MapTypes
<1>11. CASE Clear
  BY <1>0, <1>11, BoundsAssumption DEF Clear, Command, Given, HandlerTypes, MapTypes
<1>12. CASE Pause
  BY <1>0, <1>12, BoundsAssumption DEF Pause, Command, Given, HandlerTypes, MapTypes
<1>13. CASE Untrack \/ CancelRows \/ ClearRows
  BY <1>0, <1>13 DEF Untrack, CancelRows, ClearRows, HandlerTypes, MapTypes
<1>14. CASE UNCHANGED vars
  BY <1>0, <1>14 DEF vars, HandlerTypes, MapTypes
<1> QED
  BY <1>1, <1>2, <1>3, <1>4, <1>5, <1>6, <1>7, <1>8, <1>9, <1>10, <1>11, <1>12, <1>13, <1>14
     DEF Next, RunStep, ChildStep, LoopStep, HandlerStep

LEMMA RunTypesNext == TypeOK /\ [Next]_vars => RunTypes'
<1> SUFFICES ASSUME TypeOK, [Next]_vars PROVE RunTypes'
  OBVIOUS
<1>0. RunTypes /\ MapTypes
  BY DEF TypeOK
<1> USE DEF maps, flags, handler, ghosts, runUnchanged, childUnchanged, handlerUnchanged, Goto
<1>1. ASSUME NEW r \in Runs, Send(r) PROVE RunTypes'
  BY <1>0, <1>1 DEF Send, RunTypes, MapTypes
<1>2. ASSUME NEW r \in Runs, Lock(r) PROVE RunTypes'
  BY <1>0, <1>2 DEF Lock, RunTypes
<1>3. ASSUME NEW r \in Runs, SlotOr(r, "decompose", "planning", "error") \/ SlotOr(r, "synthesize", "summing", "error") PROVE RunTypes'
  BY <1>0, <1>3 DEF SlotOr, Returns, RunTypes
<1>4. ASSUME NEW r \in Runs, Plan(r) PROVE RunTypes'
  BY <1>0, <1>4, BoundsAssumption DEF Plan, Returns, RunTypes
<1>5. ASSUME NEW r \in Runs, Summarize(r) \/ Collect(r) \/ Settle(r) PROVE RunTypes'
  BY <1>0, <1>5 DEF Summarize, Returns, Settle, Collect, RunTypes
<1>6. ASSUME NEW r \in Runs, Clean(r) PROVE RunTypes'
  BY <1>0, <1>6 DEF Clean, RunTypes
<1>7. ASSUME NEW r \in Runs, Deadline(r) PROVE RunTypes'
  BY <1>0, <1>7 DEF Deadline, RunTypes
<1>8. ASSUME NEW r \in Runs, Resume(r) PROVE RunTypes'
  BY <1>0, <1>8 DEF Resume, Given, StopWith, RunTypes, MapTypes
<1>9. ASSUME NEW c \in Children, Spawn(c) \/ Track(c) \/ Count(c) \/ Enter(c) PROVE RunTypes'
  BY <1>0, <1>9 DEF Spawn, Track, Count, Enter, RunTypes
<1>10. ASSUME NEW c \in Children, CancelChild(c) PROVE RunTypes'
  BY <1>0, <1>10 DEF CancelChild, RunTypes
<1>11. ASSUME NEW w \in Workers, Top(w) \/ SlotOr(w, "wait", "llm", StopResult(w)) \/ Answer(w) \/ BeforeCall(w) \/ ToolReturns(w) PROVE RunTypes'
  BY <1>0, <1>11 DEF Top, SlotOr, Answer, BeforeCall, ToolReturns, Returns, RunTypes
<1>12. CASE Cancel
  BY <1>0, <1>12 DEF Cancel, Command, Given, StopWith, StopInstance, RunTypes
<1>13. CASE Clear
  BY <1>0, <1>13 DEF Clear, Command, Given, StopWith, StopInstance, RunTypes
<1>14. CASE Pause
  BY <1>0, <1>14 DEF Pause, Command, Given, StopWith, RunTypes
<1>15. CASE Untrack \/ CancelRows \/ ClearRows
  BY <1>0, <1>15 DEF Untrack, CancelRows, ClearRows, RunTypes
<1>16. CASE UNCHANGED vars
  BY <1>0, <1>16 DEF vars, RunTypes
<1> QED
  BY <1>1, <1>2, <1>3, <1>4, <1>5, <1>6, <1>7, <1>8, <1>9, <1>10, <1>11, <1>12, <1>13,
     <1>14, <1>15, <1>16 DEF Next, RunStep, ChildStep, LoopStep, HandlerStep

(* Who waits for an answer holds a slot.                                   *)
LEMMA SlotTaken ==
  ASSUME Inv, NEW w \in Workers, pc[w] \in {"planning", "llm", "summing"}
  PROVE  slots - 1 \in 0..Slots
<1>1. w \in InCall /\ IsFiniteSet(InCall) /\ slots = Cardinality(InCall)
  BY DEF InCall, Inv, SlotInv, SlotsReturned
<1>2. Cardinality(InCall) # 0 /\ Cardinality(InCall) \in Nat
  BY <1>1, FS_EmptySet, FS_CardinalityType
<1>3. slots \in 0..Slots /\ Slots \in Nat
  BY BoundsAssumption DEF Inv, TypeOK, WorkerTypes
<1> QED
  BY <1>1, <1>2, <1>3

LEMMA WorkerTypesNext == Inv /\ [Next]_vars => WorkerTypes'
<1> SUFFICES ASSUME Inv, [Next]_vars PROVE WorkerTypes'
  OBVIOUS
<1>0. WorkerTypes
  BY DEF Inv, TypeOK
<1> USE Names DEF maps, flags, handler, ghosts, runUnchanged, childUnchanged, handlerUnchanged, Goto
<1>1. ASSUME NEW r \in Runs, Send(r) PROVE WorkerTypes'
  BY <1>0, <1>1 DEF Send, WorkerTypes, Points, Results
<1>2. ASSUME NEW r \in Runs, Lock(r) \/ Collect(r) \/ Clean(r) PROVE WorkerTypes'
  BY <1>0, <1>2 DEF Lock, Collect, Clean, WorkerTypes, Points, Results
<1>3. ASSUME NEW r \in Runs, Settle(r) PROVE WorkerTypes'
  BY <1>0, <1>3 DEF Settle, WorkerTypes, Points, Results
<1>4. ASSUME NEW r \in Runs, SlotOr(r, "decompose", "planning", "error") \/ SlotOr(r, "synthesize", "summing", "error") PROVE WorkerTypes'
  BY <1>0, <1>4, BoundsAssumption DEF SlotOr, Returns, WorkerTypes, Points, Results
<1>5. ASSUME NEW r \in Runs, Plan(r) PROVE WorkerTypes'
  <2>1. slots - 1 \in 0..Slots
    BY <1>5, SlotTaken DEF Plan
  <2> QED
    BY <1>0, <1>5, <2>1 DEF Plan, Returns, Released, StopResult, WorkerTypes, Points, Results
<1>6. ASSUME NEW r \in Runs, Summarize(r) PROVE WorkerTypes'
  <2>1. slots - 1 \in 0..Slots
    BY <1>6, SlotTaken DEF Summarize
  <2> QED
    BY <1>0, <1>6, <2>1 DEF Summarize, Returns, Released, StopResult, WorkerTypes, Points, Results
<1>7. ASSUME NEW r \in Runs, Deadline(r) PROVE WorkerTypes'
  BY <1>0, <1>7 DEF Deadline, WorkerTypes, Points, Results
<1>8. ASSUME NEW r \in Runs, Resume(r) PROVE WorkerTypes'
  BY <1>0, <1>8 DEF Resume, Given, WorkerTypes, Points
<1>9. ASSUME NEW c \in Children, Spawn(c) PROVE WorkerTypes'
  BY <1>0, <1>9 DEF Spawn, WorkerTypes, Points, Results
<1>10. ASSUME NEW c \in Children, Track(c) \/ Count(c) \/ Enter(c) PROVE WorkerTypes'
  BY <1>0, <1>10 DEF Track, Count, Enter, WorkerTypes, Points, Results
<1>11. ASSUME NEW c \in Children, CancelChild(c) PROVE WorkerTypes'
  BY <1>0, <1>11 DEF CancelChild, ToolsStopped, WorkerTypes
<1>12. ASSUME NEW w \in Workers, Top(w) PROVE WorkerTypes'
  BY <1>0, <1>12, BoundsAssumption DEF Top, Returns, StopResult, WorkerTypes, Points, Results
<1>13. ASSUME NEW w \in Workers, SlotOr(w, "wait", "llm", StopResult(w)) PROVE WorkerTypes'
  BY <1>0, <1>13, BoundsAssumption DEF SlotOr, Returns, StopResult, WorkerTypes, Points, Results
<1>14. ASSUME NEW w \in Workers, Answer(w) PROVE WorkerTypes'
  <2>1. slots - 1 \in 0..Slots
    BY <1>14, SlotTaken DEF Answer
  <2> QED
    BY <1>0, <1>14, <2>1 DEF Answer, Returns, Released, StopResult, WorkerTypes, Points, Results
<1>15. ASSUME NEW w \in Workers, BeforeCall(w) PROVE WorkerTypes'
  BY <1>0, <1>15 DEF BeforeCall, Returns, StopResult, WorkerTypes, Points, Results
<1>16. ASSUME NEW w \in Workers, ToolReturns(w) PROVE WorkerTypes'
  BY <1>0, <1>16 DEF ToolReturns, Returns, StopResult, WorkerTypes, Points, Results
<1>17. CASE Cancel
  BY <1>0, <1>17 DEF Cancel, Command, Given, StopInstance, WorkerTypes
<1>18. CASE Clear
  BY <1>0, <1>18 DEF Clear, Command, Given, StopInstance, WorkerTypes
<1>19. CASE Pause
  BY <1>0, <1>19 DEF Pause, Command, Given, WorkerTypes
<1>20. CASE Untrack \/ CancelRows \/ ClearRows
  BY <1>0, <1>20 DEF Untrack, CancelRows, ClearRows, Marked, WorkerTypes
<1>21. CASE UNCHANGED vars
  BY <1>0, <1>21 DEF vars, WorkerTypes, Points, Results
<1> QED
  BY <1>1, <1>2, <1>3, <1>4, <1>5, <1>6, <1>7, <1>8, <1>9, <1>10, <1>11, <1>12, <1>13,
     <1>14, <1>15, <1>16, <1>17, <1>18, <1>19, <1>20, <1>21 DEF Next, RunStep, ChildStep,
     LoopStep, HandlerStep

LEMMA TypeNext == Inv /\ [Next]_vars => TypeOK'
BY MapTypesNext, RunTypesNext, HandlerTypesNext, WorkerTypesNext DEF Inv, TypeOK

-----------------------------------------------------------------------------
(* The phases of a run.                                                    *)

LEMMA ReportedNext == Inv /\ [Next]_vars => Reported'
<1> SUFFICES ASSUME Inv, [Next]_vars PROVE Reported'
  OBVIOUS
<1>0. /\ Reported /\ pc \in [Workers -> Points]
      /\ result \in [Workers -> Results]
  BY DEF Inv, PhaseInv, TypeOK, WorkerTypes
<1> USE Names DEF maps, flags, handler, ghosts, runUnchanged, childUnchanged, handlerUnchanged, Goto
<1>1. ASSUME NEW r \in Runs, Send(r) \/ Lock(r) \/ Collect(r) \/ Clean(r) \/ Settle(r) PROVE
      Reported'
  BY <1>0, <1>1 DEF Send, Lock, Collect, Clean, Settle, Reported
<1>2. ASSUME NEW r \in Runs, SlotOr(r, "decompose", "planning", "error") \/ SlotOr(r,
      "synthesize", "summing", "error") PROVE Reported'
  BY <1>0, <1>2 DEF SlotOr, Returns, Reported
<1>3. ASSUME NEW r \in Runs, Plan(r) PROVE Reported'
  BY <1>0, <1>3 DEF Plan, Returns, Reported
<1>4. ASSUME NEW r \in Runs, Summarize(r) PROVE Reported'
  BY <1>0, <1>4 DEF Summarize, Returns, Reported
<1>5. ASSUME NEW r \in Runs, Deadline(r) PROVE Reported'
  BY <1>0, <1>5 DEF Deadline, Reported
<1>6. ASSUME NEW r \in Runs, Resume(r) PROVE Reported'
  BY <1>0, <1>6 DEF Resume, Given, Reported
<1>7. ASSUME NEW c \in Children, Spawn(c) PROVE Reported'
  BY <1>0, <1>7 DEF Spawn, Reported
<1>8. ASSUME NEW c \in Children, Track(c) \/ Count(c) \/ Enter(c) PROVE Reported'
  BY <1>0, <1>8 DEF Track, Count, Enter, Reported
<1>9. ASSUME NEW c \in Children, CancelChild(c) PROVE Reported'
  BY <1>0, <1>9 DEF CancelChild, Reported
<1>10. ASSUME NEW w \in Workers, Top(w) PROVE Reported'
  BY <1>0, <1>10 DEF Top, Returns, StopResult, Reported
<1>11. ASSUME NEW w \in Workers, SlotOr(w, "wait", "llm", StopResult(w)) PROVE Reported'
  BY <1>0, <1>11 DEF SlotOr, Returns, StopResult, Reported
<1>12. ASSUME NEW w \in Workers, Answer(w) PROVE Reported'
  BY <1>0, <1>12 DEF Answer, Returns, StopResult, Reported
<1>13. ASSUME NEW w \in Workers, BeforeCall(w) PROVE Reported'
  BY <1>0, <1>13 DEF BeforeCall, Returns, StopResult, Reported
<1>14. ASSUME NEW w \in Workers, ToolReturns(w) PROVE Reported'
  BY <1>0, <1>14 DEF ToolReturns, Returns, StopResult, Reported
<1>15. CASE Cancel \/ Clear \/ Pause
  BY <1>0, <1>15 DEF Cancel, Command, Given, Clear, Pause, Reported
<1>16. CASE Untrack \/ CancelRows \/ ClearRows
  BY <1>0, <1>16 DEF Untrack, CancelRows, ClearRows, Reported
<1>17. CASE UNCHANGED vars
  BY <1>0, <1>17 DEF vars, Reported
<1> QED
  BY <1>1, <1>2, <1>3, <1>4, <1>5, <1>6, <1>7, <1>8, <1>9, <1>10, <1>11, <1>12, <1>13,
     <1>14, <1>15, <1>16, <1>17 DEF Next, RunStep, ChildStep, LoopStep, HandlerStep

LEMMA UnbornNext == Inv /\ [Next]_vars => Unborn'
<1> SUFFICES ASSUME Inv, [Next]_vars PROVE Unborn'
  OBVIOUS
<1>0. Unborn /\ pc \in [Workers -> Points]
  BY DEF Inv, PhaseInv, TypeOK, WorkerTypes
<1> USE Names DEF maps, flags, handler, ghosts, runUnchanged, childUnchanged, handlerUnchanged, Goto
<1>1. ASSUME NEW r \in Runs, Send(r) \/ Lock(r) \/ Collect(r) \/ Clean(r) \/ Settle(r) PROVE
      Unborn'
  BY <1>0, <1>1 DEF Send, Lock, Collect, Clean, Settle, Unborn, ChildrenOf
<1>2. ASSUME NEW r \in Runs, SlotOr(r, "decompose", "planning", "error") \/ SlotOr(r,
      "synthesize", "summing", "error") PROVE Unborn'
  BY <1>0, <1>2 DEF SlotOr, Returns, Unborn, ChildrenOf
<1>3. ASSUME NEW r \in Runs, Plan(r) PROVE Unborn'
  BY <1>0, <1>3 DEF Plan, Returns, Unborn, ChildrenOf
<1>4. ASSUME NEW r \in Runs, Summarize(r) PROVE Unborn'
  BY <1>0, <1>4 DEF Summarize, Returns, Unborn, ChildrenOf
<1>5. ASSUME NEW r \in Runs, Deadline(r) PROVE Unborn'
  BY <1>0, <1>5 DEF Deadline, Unborn, ChildrenOf
<1>6. ASSUME NEW r \in Runs, Resume(r) PROVE Unborn'
  BY <1>0, <1>6 DEF Resume, Given, Unborn, ChildrenOf
<1>7. ASSUME NEW c \in Children, Spawn(c) PROVE Unborn'
  BY <1>0, <1>7 DEF Spawn, Unborn, ChildrenOf
<1>8. ASSUME NEW c \in Children, Track(c) \/ Count(c) \/ Enter(c) PROVE Unborn'
  BY <1>0, <1>8 DEF Track, Count, Enter, Unborn, ChildrenOf
<1>9. ASSUME NEW c \in Children, CancelChild(c) PROVE Unborn'
  BY <1>0, <1>9 DEF CancelChild, Unborn, ChildrenOf
<1>10. ASSUME NEW w \in Workers, Top(w) PROVE Unborn'
  BY <1>0, <1>10 DEF Top, Returns, StopResult, Unborn, ChildrenOf
<1>11. ASSUME NEW w \in Workers, SlotOr(w, "wait", "llm", StopResult(w)) PROVE Unborn'
  BY <1>0, <1>11 DEF SlotOr, Returns, StopResult, Unborn, ChildrenOf
<1>12. ASSUME NEW w \in Workers, Answer(w) PROVE Unborn'
  BY <1>0, <1>12 DEF Answer, Returns, StopResult, Unborn, ChildrenOf
<1>13. ASSUME NEW w \in Workers, BeforeCall(w) PROVE Unborn'
  BY <1>0, <1>13 DEF BeforeCall, Returns, StopResult, Unborn, ChildrenOf
<1>14. ASSUME NEW w \in Workers, ToolReturns(w) PROVE Unborn'
  BY <1>0, <1>14 DEF ToolReturns, Returns, StopResult, Unborn, ChildrenOf
<1>15. CASE Cancel \/ Clear \/ Pause
  BY <1>0, <1>15 DEF Cancel, Command, Given, Clear, Pause, Unborn, ChildrenOf
<1>16. CASE Untrack \/ CancelRows \/ ClearRows
  BY <1>0, <1>16 DEF Untrack, CancelRows, ClearRows, Unborn, ChildrenOf
<1>17. CASE UNCHANGED vars
  BY <1>0, <1>17 DEF vars, Unborn, ChildrenOf
<1> QED
  BY <1>1, <1>2, <1>3, <1>4, <1>5, <1>6, <1>7, <1>8, <1>9, <1>10, <1>11, <1>12, <1>13,
     <1>14, <1>15, <1>16, <1>17 DEF Next, RunStep, ChildStep, LoopStep, HandlerStep

LEMMA PlannedNext == Inv /\ [Next]_vars => Planned'
<1> SUFFICES ASSUME Inv, [Next]_vars PROVE Planned'
  OBVIOUS
<1>0. Planned /\ tasks \in [Runs -> Nat]
  BY DEF Inv, PhaseInv, TypeOK, RunTypes
<1>1. ASSUME NEW r \in Runs, Plan(r) PROVE Planned'
  <2>1. \/ UNCHANGED tasks
        \/ \E n \in 1..MaxTasks[r] : tasks' = [tasks EXCEPT ![r] = n]
    BY <1>1 DEF Plan
  <2>2. ASSUME NEW n \in 1..MaxTasks[r], tasks' = [tasks EXCEPT ![r] = n] PROVE Planned'
    <3>1. n \in Nat /\ n <= MaxTasks[r]
      BY BoundsAssumption
    <3>2. {r} \X (1..n) \subseteq ChildrenOf(r)
      BY <3>1, Names
    <3>3. \A q \in Runs : tasks'[q] = IF q = r THEN n ELSE tasks[q]
      BY <1>0, <2>2
    <3> QED
      BY <1>0, <3>2, <3>3 DEF Planned, ChildrenOf
  <2> QED
    BY <1>0, <2>1, <2>2 DEF Planned, ChildrenOf
<1>2. CASE UNCHANGED tasks
  BY <1>0, <1>2 DEF Planned, ChildrenOf
<1>3. UNCHANGED tasks \/ \E r \in Runs : Plan(r)
  BY DEF Next, RunStep, ChildStep, LoopStep, HandlerStep, Send, Lock, SlotOr, Collect, Summarize,
         Deadline, Clean, Settle, Spawn, Track, Count, Enter, Top, Answer, BeforeCall, ToolReturns,
         Command, Given, Cancel, Clear, Pause, Resume, CancelChild, Untrack, CancelRows, ClearRows,
         runUnchanged, childUnchanged, handlerUnchanged, vars
<1> QED
  BY <1>1, <1>2, <1>3

-----------------------------------------------------------------------------
(* The slots.                                                              *)

LEMMA SlotTakes ==
  ASSUME SlotInv, NEW w, w \notin InCall, InCall' = InCall \cup {w}, slots' = slots + 1
  PROVE  SlotInv'
BY FS_AddElement DEF SlotInv, SlotsReturned

LEMMA SlotGives ==
  ASSUME SlotInv, NEW w, w \in InCall, InCall' = InCall \ {w}, slots' = slots - 1
  PROVE  SlotInv'
BY FS_RemoveElement DEF SlotInv, SlotsReturned

LEMMA SlotStays ==
  ASSUME SlotInv, InCall' = InCall, slots' = slots
  PROVE  SlotInv'
BY DEF SlotInv, SlotsReturned

LEMMA SlotNext == Inv /\ [Next]_vars => SlotInv'
<1> SUFFICES ASSUME Inv, [Next]_vars PROVE SlotInv'
  OBVIOUS
<1>0. SlotInv /\ Unborn /\ pc \in [Workers -> Points]
  BY DEF Inv, PhaseInv, TypeOK, WorkerTypes
<1> USE Names DEF maps, flags, handler, ghosts, runUnchanged, childUnchanged, handlerUnchanged, Goto
<1>1. ASSUME NEW r \in Runs, Send(r) \/ Lock(r) \/ Collect(r) \/ Clean(r) \/ Settle(r) \/
      Deadline(r) PROVE SlotInv'
  <2>1. InCall' = InCall /\ slots' = slots
    BY <1>0, <1>1 DEF Send, Lock, Collect, Clean, Settle, Deadline, InCall
  <2> QED
    BY <1>0, <2>1, SlotStays
<1>2. ASSUME NEW r \in Runs, SlotOr(r, "decompose", "planning", "error") PROVE SlotInv'
  <2>1. CASE slots' = slots + 1 /\ pc' = [pc EXCEPT ![r] = "planning"]
    <3>1. r \notin InCall /\ InCall' = InCall \cup {r}
      BY <1>0, <1>2, <2>1 DEF SlotOr, InCall
    <3> QED
      BY <1>0, <2>1, <3>1, SlotTakes
  <2>2. CASE Returns(r, "error") /\ UNCHANGED slots
    <3>1. InCall' = InCall
      BY <1>0, <1>2, <2>2 DEF SlotOr, Returns, InCall
    <3> QED
      BY <1>0, <2>2, <3>1, SlotStays
  <2> QED
    BY <1>2, <2>1, <2>2 DEF SlotOr
<1>3. ASSUME NEW r \in Runs, SlotOr(r, "synthesize", "summing", "error") PROVE SlotInv'
  <2>1. CASE slots' = slots + 1 /\ pc' = [pc EXCEPT ![r] = "summing"]
    <3>1. r \notin InCall /\ InCall' = InCall \cup {r}
      BY <1>0, <1>3, <2>1 DEF SlotOr, InCall
    <3> QED
      BY <1>0, <2>1, <3>1, SlotTakes
  <2>2. CASE Returns(r, "error") /\ UNCHANGED slots
    <3>1. InCall' = InCall
      BY <1>0, <1>3, <2>2 DEF SlotOr, Returns, InCall
    <3> QED
      BY <1>0, <2>2, <3>1, SlotStays
  <2> QED
    BY <1>3, <2>1, <2>2 DEF SlotOr
<1>4. ASSUME NEW r \in Runs, Plan(r) PROVE SlotInv'
  <2>1. r \in InCall /\ slots' = slots - 1
    BY <1>0, <1>4 DEF Plan, Released, InCall
  <2>2. InCall' = InCall \ {r}
    <3>1. CASE \E n \in 1..MaxTasks[r] :
                 pc' = [w \in Workers |-> IF w = r THEN "children"
                                          ELSE IF w \in {r} \X (1..n) THEN "spawn" ELSE pc[w]]
      <4>1. PICK n \in 1..MaxTasks[r] :
              pc' = [w \in Workers |-> IF w = r THEN "children"
                                       ELSE IF w \in {r} \X (1..n) THEN "spawn" ELSE pc[w]]
        BY <3>1
      <4>2. {r} \X (1..n) \subseteq ChildrenOf(r)
        BY BoundsAssumption
      <4>3. \A c \in {r} \X (1..n) : pc[c] = "unused"
        BY <1>0, <1>4, <4>2 DEF Plan, Unborn
      <4> QED
        BY <4>1, <4>3 DEF InCall
    <3>2. CASE \E to \in {"clean", "ended", "top"} : pc' = [pc EXCEPT ![r] = to]
      BY <1>0, <3>2 DEF InCall
    <3> QED
      BY <1>4, <3>1, <3>2 DEF Plan, Returns
  <2> QED
    BY <1>0, <2>1, <2>2, SlotGives
<1>5. ASSUME NEW r \in Runs, Summarize(r) PROVE SlotInv'
  <2>1. r \in InCall /\ slots' = slots - 1
    BY <1>0, <1>5 DEF Summarize, Released, InCall
  <2>2. InCall' = InCall \ {r}
    BY <1>0, <1>5 DEF Summarize, Returns, InCall
  <2> QED
    BY <1>0, <2>1, <2>2, SlotGives
<1>6. ASSUME NEW r \in Runs, Resume(r) PROVE SlotInv'
  <2>1. InCall' = InCall /\ slots' = slots
    BY <1>0, <1>6 DEF Resume, Given, InCall
  <2> QED
    BY <1>0, <2>1, SlotStays
<1>7. ASSUME NEW c \in Children, Spawn(c) \/ Track(c) \/ Count(c) \/ Enter(c) PROVE SlotInv'
  <2>1. InCall' = InCall /\ slots' = slots
    BY <1>0, <1>7 DEF Spawn, Track, Count, Enter, InCall
  <2> QED
    BY <1>0, <2>1, SlotStays
<1>8. ASSUME NEW c \in Children, CancelChild(c) PROVE SlotInv'
  <2>1. InCall' = InCall /\ slots' = slots
    BY <1>0, <1>8 DEF CancelChild, InCall
  <2> QED
    BY <1>0, <2>1, SlotStays
<1>9. ASSUME NEW w \in Workers, Top(w) \/ BeforeCall(w) \/ ToolReturns(w) PROVE SlotInv'
  <2>1. InCall' = InCall /\ slots' = slots
    BY <1>0, <1>9 DEF Top, BeforeCall, ToolReturns, Returns, InCall
  <2> QED
    BY <1>0, <2>1, SlotStays
<1>10. ASSUME NEW w \in Workers, SlotOr(w, "wait", "llm", StopResult(w)) PROVE SlotInv'
  <2>1. CASE slots' = slots + 1 /\ pc' = [pc EXCEPT ![w] = "llm"]
    <3>1. w \notin InCall /\ InCall' = InCall \cup {w}
      BY <1>0, <1>10, <2>1 DEF SlotOr, InCall
    <3> QED
      BY <1>0, <2>1, <3>1, SlotTakes
  <2>2. CASE Returns(w, StopResult(w)) /\ UNCHANGED slots
    <3>1. InCall' = InCall
      BY <1>0, <1>10, <2>2 DEF SlotOr, Returns, InCall
    <3> QED
      BY <1>0, <2>2, <3>1, SlotStays
  <2> QED
    BY <1>10, <2>1, <2>2 DEF SlotOr
<1>11. ASSUME NEW w \in Workers, Answer(w) PROVE SlotInv'
  <2>1. w \in InCall /\ slots' = slots - 1
    BY <1>0, <1>11 DEF Answer, Released, InCall
  <2>2. InCall' = InCall \ {w}
    BY <1>0, <1>11 DEF Answer, Returns, InCall
  <2> QED
    BY <1>0, <2>1, <2>2, SlotGives
<1>12. CASE Cancel \/ Clear \/ Pause \/ Untrack \/ CancelRows \/ ClearRows
  <2>1. InCall' = InCall /\ slots' = slots
    BY <1>0, <1>12 DEF Cancel, Clear, Pause, Untrack, CancelRows, ClearRows, Command, Given, InCall
  <2> QED
    BY <1>0, <2>1, SlotStays
<1>13. CASE UNCHANGED vars
  BY <1>0, <1>13, SlotStays DEF vars, InCall
<1> QED
  BY <1>1, <1>2, <1>3, <1>4, <1>5, <1>6, <1>7, <1>8, <1>9, <1>10, <1>11, <1>12, <1>13 DEF
     Next, RunStep, ChildStep, LoopStep, HandlerStep

-----------------------------------------------------------------------------
(* The summary.                                                            *)

LEMMA SummaryNext == Inv /\ SummaryOfAll /\ [Next]_vars => SummaryOfAll'
<1> SUFFICES ASSUME Inv, SummaryOfAll, [Next]_vars PROVE SummaryOfAll'
  OBVIOUS
<1>0. /\ SummaryOfAll /\ Reported /\ Planned
      /\ pc \in [Workers -> Points] /\ result \in [Workers -> Results]
      /\ tasks \in [Runs -> Nat]
  BY DEF Inv, PhaseInv, TypeOK, WorkerTypes, RunTypes
<1> USE Names DEF maps, flags, handler, ghosts, runUnchanged, childUnchanged, handlerUnchanged, Goto
<1>1. ASSUME NEW r \in Runs, Send(r) \/ Lock(r) \/ Clean(r) \/ Settle(r) \/ Deadline(r)
      PROVE SummaryOfAll'
  BY <1>0, <1>1 DEF Send, Lock, Clean, Settle, Deadline, SummaryOfAll, Planned, ChildrenOf
<1>2. ASSUME NEW r \in Runs, Collect(r) PROVE SummaryOfAll'
  BY <1>0, <1>2 DEF Collect, AllEnded, Reported, SummaryOfAll, Planned, ChildrenOf
<1>3. ASSUME NEW r \in Runs, SlotOr(r, "decompose", "planning", "error") \/ SlotOr(r,
      "synthesize", "summing", "error") PROVE SummaryOfAll'
  BY <1>0, <1>3 DEF SlotOr, Returns, SummaryOfAll, Planned, ChildrenOf
<1>4. ASSUME NEW r \in Runs, Plan(r) PROVE SummaryOfAll'
  <2>1. ASSUME NEW q \in Runs, pc'[q] \in {"synthesize", "summing"}
        PROVE  \A c \in {q} \X (1..tasks'[q]) : pc'[c] = "ended" /\ result'[c] # "none"
    <3>1. q # r /\ pc[q] = pc'[q] /\ tasks'[q] = tasks[q]
      BY <1>0, <1>4, <2>1 DEF Plan, Returns
    <3>2. \A c \in {q} \X (1..tasks[q]) : pc[c] = "ended" /\ result[c] # "none"
      BY <1>0, <2>1, <3>1 DEF SummaryOfAll
    <3>3. \A c \in {q} \X (1..tasks[q]) : pc'[c] = pc[c] /\ result'[c] = result[c]
      BY <1>0, <1>4, <3>1 DEF Plan, Returns, Planned, ChildrenOf
    <3> QED
      BY <3>1, <3>2, <3>3
  <2> QED
    BY <2>1 DEF SummaryOfAll
<1>5. ASSUME NEW r \in Runs, Summarize(r) PROVE SummaryOfAll'
  BY <1>0, <1>5 DEF Summarize, Returns, SummaryOfAll, Planned, ChildrenOf
<1>6. ASSUME NEW r \in Runs, Resume(r) PROVE SummaryOfAll'
  BY <1>0, <1>6 DEF Resume, Given, SummaryOfAll, Planned, ChildrenOf
<1>7. ASSUME NEW c \in Children, Spawn(c) PROVE SummaryOfAll'
  BY <1>0, <1>7 DEF Spawn, SummaryOfAll, Planned, ChildrenOf
<1>8. ASSUME NEW c \in Children, Track(c) \/ Count(c) \/ Enter(c) PROVE SummaryOfAll'
  BY <1>0, <1>8 DEF Track, Count, Enter, SummaryOfAll, Planned, ChildrenOf
<1>9. ASSUME NEW c \in Children, CancelChild(c) PROVE SummaryOfAll'
  BY <1>0, <1>9 DEF CancelChild, SummaryOfAll, Planned, ChildrenOf
<1>10. ASSUME NEW w \in Workers, Top(w) PROVE SummaryOfAll'
  BY <1>0, <1>10 DEF Top, Returns, StopResult, SummaryOfAll, Planned, ChildrenOf
<1>11. ASSUME NEW w \in Workers, SlotOr(w, "wait", "llm", StopResult(w)) PROVE SummaryOfAll'
  BY <1>0, <1>11 DEF SlotOr, Returns, StopResult, SummaryOfAll, Planned, ChildrenOf
<1>12. ASSUME NEW w \in Workers, Answer(w) PROVE SummaryOfAll'
  BY <1>0, <1>12 DEF Answer, Returns, StopResult, SummaryOfAll, Planned, ChildrenOf
<1>13. ASSUME NEW w \in Workers, BeforeCall(w) PROVE SummaryOfAll'
  BY <1>0, <1>13 DEF BeforeCall, Returns, StopResult, SummaryOfAll, Planned, ChildrenOf
<1>14. ASSUME NEW w \in Workers, ToolReturns(w) PROVE SummaryOfAll'
  BY <1>0, <1>14 DEF ToolReturns, Returns, StopResult, SummaryOfAll, Planned, ChildrenOf
<1>15. CASE Cancel \/ Clear \/ Pause
  BY <1>0, <1>15 DEF Cancel, Command, Given, Clear, Pause, SummaryOfAll, Planned, ChildrenOf
<1>16. CASE Untrack \/ CancelRows \/ ClearRows
  BY <1>0, <1>16 DEF Untrack, CancelRows, ClearRows, SummaryOfAll, Planned, ChildrenOf
<1>17. CASE UNCHANGED vars
  BY <1>0, <1>17 DEF vars, SummaryOfAll, Planned, ChildrenOf
<1> QED
  BY <1>1, <1>2, <1>3, <1>4, <1>5, <1>6, <1>7, <1>8, <1>9, <1>10, <1>11, <1>12, <1>13,
     <1>14, <1>15, <1>16, <1>17 DEF Next, RunStep, ChildStep, LoopStep, HandlerStep

-----------------------------------------------------------------------------
(* The theorems.                                                           *)

LEMMA InvNext == Inv /\ [Next]_vars => Inv'
BY TypeNext, ReportedNext, UnbornNext, PlannedNext, SlotNext DEF Inv, PhaseInv

(* The variables of the orchestrator, its children and the handlers stay   *)
(* in their types; never more slots are taken than there are.              *)
THEOREM TypeCorrect == Spec => []TypeOK
<1>1. Spec => []Inv
  BY InitInv, InvNext, PTL DEF Spec
<1> QED
  BY <1>1, PTL DEF Inv

(* An LLM slot is held exactly as long as the LLM works on the call: the   *)
(* run that waits for its children keeps none, and no error loses one.     *)
THEOREM SlotsReturnedCorrect == Spec => []SlotsReturned
<1>1. Spec => []Inv
  BY InitInv, InvNext, PTL DEF Spec
<1> QED
  BY <1>1, PTL DEF Inv, SlotInv

(* A run summarizes only when each child it has planned has ended and left *)
(* its result, be it an error.                                             *)
THEOREM SummaryOfAllCorrect == Spec => []SummaryOfAll
<1>1. Init => SummaryOfAll
  BY DEF Init, SummaryOfAll, Workers
<1>2. Spec => [](Inv /\ SummaryOfAll)
  BY <1>1, InitInv, InvNext, SummaryNext, PTL DEF Spec
<1> QED
  BY <1>2, PTL

-----------------------------------------------------------------------------
(* A stop reaches the children.                                            *)

Alive(c) == pc[c] \in {"top", "wait", "llm", "call", "tool"}

ToolInv == \A c \in Children : toolLive[c] => pc[c] = "tool" /\ ~cancelled[c]

LifeInv ==
  \A c \in Children : /\ pc[c] # "unused" => c \in {c[1]} \X (1..tasks[c[1]])
                      /\ pc[c] \notin {"unused", "ended"} => pc[c[1]] = "children"

EntryInv ==
  /\ entry # NoRun => cpc = "ready"
  /\ \A c \in Children :
       entry = c[1] => /\ pc[c] \in {"count", "enter"} \/ Alive(c) => c \in tracked
                       /\ Alive(c) => c \in inMap

StopInv ==
  \A c \in Children :
    stop[c[1]] \in {"cancel", "clear"} /\ pc[c] \in {"wait", "llm", "call", "tool"} =>
      \/ c \in robbed \/ cancelled[c]
      \/ cpc \in {"cancel", "clear"} /\ c \in todo \cap inMap

ReachInv == ToolInv /\ LifeInv /\ EntryInv /\ StopInv

LEMMA ToolNext == Inv /\ ReachInv /\ [Next]_vars => ToolInv'
<1> SUFFICES ASSUME Inv, ReachInv, [Next]_vars PROVE ToolInv'
  OBVIOUS
<1>0. /\ ToolInv
      /\ pc \in [Workers -> Points] /\ inst \in [Runs -> Runs \cup {NoRun}]
      /\ agents \in Runs \cup {NoRun} /\ entry \in Runs \cup {NoRun}
      /\ cancelled \in [Workers -> BOOLEAN] /\ toolLive \in [Workers -> BOOLEAN]
      /\ stop \in [Runs -> {"no", "cancel", "clear", "pause", "resume", "deadline"}]
      /\ tasks \in [Runs -> Nat] /\ Unborn
  BY DEF ReachInv, Inv, PhaseInv, TypeOK, WorkerTypes, RunTypes, MapTypes
<1> USE Names DEF maps, flags, handler, ghosts, runUnchanged, childUnchanged, handlerUnchanged, Goto
<1>1. ASSUME NEW r \in Runs, Send(r) PROVE ToolInv'
  BY <1>0, <1>1 DEF Send, ToolInv
<1>2. ASSUME NEW r \in Runs, Lock(r) \/ Collect(r) \/ Clean(r) PROVE ToolInv'
  BY <1>0, <1>2 DEF Lock, Collect, Clean, Forgotten, ToolInv
<1>3. ASSUME NEW r \in Runs, Settle(r) PROVE ToolInv'
  BY <1>0, <1>3 DEF Settle, ToolInv
<1>4. ASSUME NEW r \in Runs, SlotOr(r, "decompose", "planning", "error") \/ SlotOr(r,
      "synthesize", "summing", "error") PROVE ToolInv'
  BY <1>0, <1>4 DEF SlotOr, Returns, ToolInv
<1>5. ASSUME NEW r \in Runs, Plan(r) PROVE ToolInv'
  <2>1. \A c \in Children : pc[c] = "tool" => c[1] # r
    BY <1>0, <1>5 DEF Plan, Unborn, ChildrenOf
  <2>2. \A c \in Children : c[1] # r => pc'[c] = pc[c]
    BY <1>0, <1>5 DEF Plan, Returns
  <2> QED
    BY <1>0, <1>5, <2>1, <2>2 DEF Plan, ToolInv
<1>6. ASSUME NEW r \in Runs, Summarize(r) PROVE ToolInv'
  BY <1>0, <1>6 DEF Summarize, Returns, ToolInv
<1>7. ASSUME NEW r \in Runs, Deadline(r) PROVE ToolInv'
  BY <1>0, <1>7 DEF Deadline, ToolInv
<1>8. ASSUME NEW r \in Runs, Resume(r) PROVE ToolInv'
  BY <1>0, <1>8 DEF Resume, Given, StopInstance, StopWith, ToolInv
<1>9. ASSUME NEW c \in Children, Spawn(c) PROVE ToolInv'
  BY <1>0, <1>9 DEF Spawn, ToolInv
<1>10. ASSUME NEW c \in Children, Track(c) \/ Count(c) \/ Enter(c) PROVE ToolInv'
  BY <1>0, <1>10 DEF Track, Count, Enter, ToolInv
<1>11. ASSUME NEW c \in Children, CancelChild(c) PROVE ToolInv'
  BY <1>0, <1>11 DEF CancelChild, ToolsStopped, ToolInv
<1>12. ASSUME NEW w \in Workers, Top(w) PROVE ToolInv'
  BY <1>0, <1>12 DEF Top, Returns, StopResult, Flagged, Stopped, ToolInv
<1>13. ASSUME NEW w \in Workers, SlotOr(w, "wait", "llm", StopResult(w)) PROVE ToolInv'
  BY <1>0, <1>13 DEF SlotOr, Returns, StopResult, Flagged, Stopped, ToolInv
<1>14. ASSUME NEW w \in Workers, Answer(w) PROVE ToolInv'
  BY <1>0, <1>14 DEF Answer, Returns, StopResult, ToolInv
<1>15. ASSUME NEW w \in Workers, BeforeCall(w) PROVE ToolInv'
  BY <1>0, <1>15 DEF BeforeCall, Returns, StopResult, Flagged, Stopped, ToolInv
<1>16. ASSUME NEW w \in Workers, ToolReturns(w) PROVE ToolInv'
  BY <1>0, <1>16 DEF ToolReturns, Returns, StopResult, Flagged, Stopped, ToolInv
<1>17. CASE Cancel \/ Clear
  BY <1>0, <1>17 DEF Cancel, Command, Given, StopInstance, StopWith, Clear, ToolInv
<1>18. CASE Pause
  BY <1>0, <1>18 DEF Pause, Command, Given, StopInstance, StopWith, ToolInv
<1>19. CASE Untrack \/ CancelRows \/ ClearRows
  BY <1>0, <1>19 DEF Untrack, CancelRows, ClearRows, ToolInv
<1>20. CASE UNCHANGED vars
  BY <1>0, <1>20 DEF vars, ToolInv
<1> QED
  BY <1>1, <1>2, <1>3, <1>4, <1>5, <1>6, <1>7, <1>8, <1>9, <1>10, <1>11, <1>12, <1>13,
     <1>14, <1>15, <1>16, <1>17, <1>18, <1>19, <1>20 DEF Next, RunStep, ChildStep, LoopStep,
     HandlerStep

LEMMA LifeNext == Inv /\ ReachInv /\ [Next]_vars => LifeInv'
<1> SUFFICES ASSUME Inv, ReachInv, [Next]_vars PROVE LifeInv'
  OBVIOUS
<1>0. /\ LifeInv
      /\ pc \in [Workers -> Points] /\ inst \in [Runs -> Runs \cup {NoRun}]
      /\ agents \in Runs \cup {NoRun} /\ entry \in Runs \cup {NoRun}
      /\ cancelled \in [Workers -> BOOLEAN] /\ toolLive \in [Workers -> BOOLEAN]
      /\ stop \in [Runs -> {"no", "cancel", "clear", "pause", "resume", "deadline"}]
      /\ tasks \in [Runs -> Nat] /\ Unborn
  BY DEF ReachInv, Inv, PhaseInv, TypeOK, WorkerTypes, RunTypes, MapTypes
<1> USE Names DEF maps, flags, handler, ghosts, runUnchanged, childUnchanged, handlerUnchanged, Goto
<1>1. ASSUME NEW r \in Runs, Send(r) \/ Lock(r) \/ Settle(r) PROVE LifeInv'
  BY <1>0, <1>1 DEF Send, Lock, Settle, LifeInv
<1>2. ASSUME NEW r \in Runs, Collect(r) PROVE LifeInv'
  BY <1>0, <1>2 DEF Collect, AllEnded, LifeInv
<1>3. ASSUME NEW r \in Runs, Clean(r) PROVE LifeInv'
  BY <1>0, <1>3 DEF Clean, Forgotten, LifeInv
<1>4. ASSUME NEW r \in Runs, SlotOr(r, "decompose", "planning", "error") PROVE LifeInv'
  BY <1>0, <1>4 DEF SlotOr, Returns, LifeInv
<1>5. ASSUME NEW r \in Runs, SlotOr(r, "synthesize", "summing", "error") PROVE LifeInv'
  BY <1>0, <1>5 DEF SlotOr, Returns, LifeInv
<1>6. ASSUME NEW r \in Runs, Plan(r) PROVE LifeInv'
  <2>1. /\ \A c \in ChildrenOf(r) : pc[c] = "unused"
        /\ pc[r] = "planning"
    BY <1>0, <1>6 DEF Plan, Unborn
  <2>2. CASE \E n \in 1..MaxTasks[r] :
               /\ tasks' = [tasks EXCEPT ![r] = n]
               /\ pc' = [w \in Workers |-> IF w = r THEN "children"
                                           ELSE IF w \in {r} \X (1..n) THEN "spawn" ELSE pc[w]]
    <3>1. PICK n \in 1..MaxTasks[r] :
               /\ tasks' = [tasks EXCEPT ![r] = n]
               /\ pc' = [w \in Workers |-> IF w = r THEN "children"
                                           ELSE IF w \in {r} \X (1..n) THEN "spawn" ELSE pc[w]]
      BY <2>2
    <3>2. n \in Nat
      BY BoundsAssumption
    <3>3. ASSUME NEW c \in Children, c[1] = r
          PROVE  /\ pc'[c] # "unused" => c \in {c[1]} \X (1..tasks'[c[1]])
                 /\ pc'[c] \notin {"unused", "ended"} => pc'[c[1]] = "children"
      BY <1>0, <2>1, <3>1, <3>2, <3>3 DEF ChildrenOf
    <3>4. ASSUME NEW c \in Children, c[1] # r
          PROVE  /\ pc'[c] # "unused" => c \in {c[1]} \X (1..tasks'[c[1]])
                 /\ pc'[c] \notin {"unused", "ended"} => pc'[c[1]] = "children"
      <4>1. c \notin {r} \X (1..n) /\ c # r /\ c[1] \notin {r} \X (1..n)
        BY <3>1, <3>2, <3>4 DEF ChildrenOf
      <4>2. pc'[c] = pc[c] /\ pc'[c[1]] = pc[c[1]] /\ tasks'[c[1]] = tasks[c[1]]
        BY <1>0, <3>1, <3>4, <4>1
      <4> QED
        BY <1>0, <4>2 DEF LifeInv
    <3> QED
      BY <3>3, <3>4 DEF LifeInv
  <2>3. CASE UNCHANGED tasks /\ \E to \in {"clean", "ended", "top"} : pc' = [pc EXCEPT ![r] = to]
    BY <1>0, <2>1, <2>3 DEF LifeInv, ChildrenOf
  <2> QED
    BY <1>6, <2>2, <2>3 DEF Plan, Returns
<1>7. ASSUME NEW r \in Runs, Summarize(r) PROVE LifeInv'
  BY <1>0, <1>7 DEF Summarize, Returns, LifeInv
<1>8. ASSUME NEW r \in Runs, Deadline(r) PROVE LifeInv'
  BY <1>0, <1>8 DEF Deadline, LifeInv
<1>9. ASSUME NEW r \in Runs, Resume(r) PROVE LifeInv'
  BY <1>0, <1>9 DEF Resume, Given, StopInstance, StopWith, LifeInv
<1>10. ASSUME NEW c \in Children, Spawn(c) PROVE LifeInv'
  BY <1>0, <1>10 DEF Spawn, LifeInv
<1>11. ASSUME NEW c \in Children, Track(c) \/ Count(c) \/ Enter(c) PROVE LifeInv'
  BY <1>0, <1>11 DEF Track, Count, Enter, LifeInv
<1>12. ASSUME NEW c \in Children, CancelChild(c) PROVE LifeInv'
  BY <1>0, <1>12 DEF CancelChild, ToolsStopped, LifeInv
<1>13. ASSUME NEW w \in Workers, Top(w) PROVE LifeInv'
  BY <1>0, <1>13 DEF Top, Returns, StopResult, Flagged, Stopped, LifeInv
<1>14. ASSUME NEW w \in Workers, SlotOr(w, "wait", "llm", StopResult(w)) PROVE LifeInv'
  BY <1>0, <1>14 DEF SlotOr, Returns, StopResult, Flagged, Stopped, LifeInv
<1>15. ASSUME NEW w \in Workers, Answer(w) PROVE LifeInv'
  BY <1>0, <1>15 DEF Answer, Returns, StopResult, LifeInv
<1>16. ASSUME NEW w \in Workers, BeforeCall(w) PROVE LifeInv'
  BY <1>0, <1>16 DEF BeforeCall, Returns, StopResult, Flagged, Stopped, LifeInv
<1>17. ASSUME NEW w \in Workers, ToolReturns(w) PROVE LifeInv'
  BY <1>0, <1>17 DEF ToolReturns, Returns, StopResult, Flagged, Stopped, LifeInv
<1>18. CASE Cancel \/ Clear
  BY <1>0, <1>18 DEF Cancel, Command, Given, StopInstance, StopWith, Clear, LifeInv
<1>19. CASE Pause
  BY <1>0, <1>19 DEF Pause, Command, Given, StopInstance, StopWith, LifeInv
<1>20. CASE Untrack \/ CancelRows \/ ClearRows
  BY <1>0, <1>20 DEF Untrack, CancelRows, ClearRows, LifeInv
<1>21. CASE UNCHANGED vars
  BY <1>0, <1>21 DEF vars, LifeInv
<1> QED
  BY <1>1, <1>2, <1>3, <1>4, <1>5, <1>6, <1>7, <1>8, <1>9, <1>10, <1>11, <1>12, <1>13,
     <1>14, <1>15, <1>16, <1>17, <1>18, <1>19, <1>20, <1>21 DEF Next, RunStep, ChildStep,
     LoopStep, HandlerStep

LEMMA EntryNext == Inv /\ ReachInv /\ [Next]_vars => EntryInv'
<1> SUFFICES ASSUME Inv, ReachInv, [Next]_vars PROVE EntryInv'
  OBVIOUS
<1>0. /\ EntryInv
      /\ pc \in [Workers -> Points] /\ inst \in [Runs -> Runs \cup {NoRun}]
      /\ agents \in Runs \cup {NoRun} /\ entry \in Runs \cup {NoRun}
      /\ cancelled \in [Workers -> BOOLEAN] /\ toolLive \in [Workers -> BOOLEAN]
      /\ stop \in [Runs -> {"no", "cancel", "clear", "pause", "resume", "deadline"}]
      /\ tasks \in [Runs -> Nat] /\ Unborn
  BY DEF ReachInv, Inv, PhaseInv, TypeOK, WorkerTypes, RunTypes, MapTypes
<1> USE Names DEF maps, flags, handler, ghosts, runUnchanged, childUnchanged, handlerUnchanged, Goto
<1>1. ASSUME NEW r \in Runs, Send(r) PROVE EntryInv'
  BY <1>0, <1>1 DEF Send, Unborn, EntryInv, Alive, ChildrenOf
<1>2. ASSUME NEW r \in Runs, Lock(r) \/ Settle(r) PROVE EntryInv'
  BY <1>0, <1>2 DEF Lock, Settle, EntryInv, Alive, ChildrenOf
<1>3. ASSUME NEW r \in Runs, Collect(r) \/ Clean(r) PROVE EntryInv'
  BY <1>0, <1>3 DEF Collect, Clean, Forgotten, EntryInv, Alive, ChildrenOf
<1>4. ASSUME NEW r \in Runs, SlotOr(r, "decompose", "planning", "error") PROVE EntryInv'
  BY <1>0, <1>4 DEF SlotOr, Returns, EntryInv, Alive, ChildrenOf
<1>5. ASSUME NEW r \in Runs, SlotOr(r, "synthesize", "summing", "error") PROVE EntryInv'
  BY <1>0, <1>5 DEF SlotOr, Returns, EntryInv, Alive, ChildrenOf
<1>6. ASSUME NEW r \in Runs, Plan(r) PROVE EntryInv'
  BY <1>0, <1>6 DEF Plan, Returns, EntryInv, Alive, ChildrenOf
<1>7. ASSUME NEW r \in Runs, Summarize(r) PROVE EntryInv'
  BY <1>0, <1>7 DEF Summarize, Returns, EntryInv, Alive, ChildrenOf
<1>8. ASSUME NEW r \in Runs, Deadline(r) PROVE EntryInv'
  BY <1>0, <1>8 DEF Deadline, EntryInv, Alive, ChildrenOf
<1>9. ASSUME NEW r \in Runs, Resume(r) PROVE EntryInv'
  BY <1>0, <1>9 DEF Resume, Given, Unborn, EntryInv, Alive, ChildrenOf
<1>10. ASSUME NEW c \in Children, Spawn(c) PROVE EntryInv'
  BY <1>0, <1>10 DEF Spawn, EntryInv, Alive, ChildrenOf
<1>11. ASSUME NEW c \in Children, Track(c) \/ Count(c) \/ Enter(c) PROVE EntryInv'
  BY <1>0, <1>11 DEF Track, Count, Enter, EntryInv, Alive, ChildrenOf
<1>12. ASSUME NEW c \in Children, CancelChild(c) PROVE EntryInv'
  BY <1>0, <1>12 DEF CancelChild, ToolsStopped, EntryInv, Alive, ChildrenOf
<1>13. ASSUME NEW w \in Workers, Top(w) PROVE EntryInv'
  BY <1>0, <1>13 DEF Top, Returns, StopResult, Flagged, Stopped, EntryInv, Alive, ChildrenOf
<1>14. ASSUME NEW w \in Workers, SlotOr(w, "wait", "llm", StopResult(w)) PROVE EntryInv'
  BY <1>0, <1>14 DEF SlotOr, Returns, StopResult, Flagged, Stopped, EntryInv, Alive,
     ChildrenOf
<1>15. ASSUME NEW w \in Workers, Answer(w) PROVE EntryInv'
  BY <1>0, <1>15 DEF Answer, Returns, StopResult, EntryInv, Alive, ChildrenOf
<1>16. ASSUME NEW w \in Workers, BeforeCall(w) PROVE EntryInv'
  BY <1>0, <1>16 DEF BeforeCall, Returns, StopResult, Flagged, Stopped, EntryInv, Alive,
     ChildrenOf
<1>17. ASSUME NEW w \in Workers, ToolReturns(w) PROVE EntryInv'
  BY <1>0, <1>17 DEF ToolReturns, Returns, StopResult, Flagged, Stopped, EntryInv, Alive,
     ChildrenOf
<1>18. CASE Cancel \/ Clear
  BY <1>0, <1>18 DEF Cancel, Command, Given, StopInstance, StopWith, Clear, EntryInv, Alive,
     ChildrenOf
<1>19. CASE Pause
  BY <1>0, <1>19 DEF Pause, Command, Given, StopInstance, StopWith, EntryInv, Alive, ChildrenOf
<1>20. CASE Untrack \/ CancelRows \/ ClearRows
  BY <1>0, <1>20 DEF Untrack, CancelRows, ClearRows, EntryInv, Alive, ChildrenOf
<1>21. CASE UNCHANGED vars
  BY <1>0, <1>21 DEF vars, EntryInv, Alive, ChildrenOf
<1> QED
  BY <1>1, <1>2, <1>3, <1>4, <1>5, <1>6, <1>7, <1>8, <1>9, <1>10, <1>11, <1>12, <1>13,
     <1>14, <1>15, <1>16, <1>17, <1>18, <1>19, <1>20, <1>21 DEF Next, RunStep, ChildStep,
     LoopStep, HandlerStep

LEMMA StopNext == Inv /\ ReachInv /\ [Next]_vars => StopInv'
<1> SUFFICES ASSUME Inv, ReachInv, [Next]_vars PROVE StopInv'
  OBVIOUS
<1>0. /\ StopInv /\ LifeInv /\ EntryInv
      /\ pc \in [Workers -> Points] /\ inst \in [Runs -> Runs \cup {NoRun}]
      /\ agents \in Runs \cup {NoRun} /\ entry \in Runs \cup {NoRun}
      /\ cancelled \in [Workers -> BOOLEAN] /\ toolLive \in [Workers -> BOOLEAN]
      /\ stop \in [Runs -> {"no", "cancel", "clear", "pause", "resume", "deadline"}]
      /\ tasks \in [Runs -> Nat] /\ Unborn
  BY DEF ReachInv, Inv, PhaseInv, TypeOK, WorkerTypes, RunTypes, MapTypes
<1> USE Names DEF maps, flags, handler, ghosts, runUnchanged, childUnchanged, handlerUnchanged, Goto
<1>1. ASSUME NEW r \in Runs, Send(r) PROVE StopInv'
  BY <1>0, <1>1 DEF Send, StopInv
<1>2. ASSUME NEW r \in Runs, Lock(r) \/ Settle(r) \/ Collect(r) PROVE StopInv'
  BY <1>0, <1>2 DEF Lock, Settle, Collect, StopInv
<1>3. ASSUME NEW r \in Runs, Clean(r) PROVE StopInv'
  BY <1>0, <1>3 DEF Clean, Forgotten, LifeInv, StopInv
<1>4. ASSUME NEW r \in Runs, SlotOr(r, "decompose", "planning", "error") PROVE StopInv'
  BY <1>0, <1>4 DEF SlotOr, Returns, StopInv
<1>5. ASSUME NEW r \in Runs, SlotOr(r, "synthesize", "summing", "error") PROVE StopInv'
  BY <1>0, <1>5 DEF SlotOr, Returns, StopInv
<1>6. ASSUME NEW r \in Runs, Plan(r) PROVE StopInv'
  BY <1>0, <1>6 DEF Plan, Returns, StopInv
<1>7. ASSUME NEW r \in Runs, Summarize(r) PROVE StopInv'
  BY <1>0, <1>7 DEF Summarize, Returns, StopInv
<1>8. ASSUME NEW r \in Runs, Deadline(r) PROVE StopInv'
  BY <1>0, <1>8 DEF Deadline, StopInv
<1>9. ASSUME NEW r \in Runs, Resume(r) PROVE StopInv'
  BY <1>0, <1>9 DEF Resume, Given, StopInstance, StopWith, StopInv
<1>10. ASSUME NEW c \in Children, Spawn(c) PROVE StopInv'
  BY <1>0, <1>10 DEF Spawn, StopInv
<1>11. ASSUME NEW c \in Children, Track(c) \/ Count(c) \/ Enter(c) PROVE StopInv'
  BY <1>0, <1>11 DEF Track, Count, Enter, StopInv
<1>12. ASSUME NEW c \in Children, CancelChild(c) PROVE StopInv'
  BY <1>0, <1>12 DEF CancelChild, ToolsStopped, StopInv
<1>13. ASSUME NEW w \in Workers, Top(w) PROVE StopInv'
  BY <1>0, <1>13 DEF Top, Returns, Stopped, StopInv
<1>14. ASSUME NEW w \in Workers, SlotOr(w, "wait", "llm", StopResult(w)) PROVE StopInv'
  BY <1>0, <1>14 DEF SlotOr, Returns, StopResult, Flagged, Stopped, StopInv
<1>15. ASSUME NEW w \in Workers, Answer(w) PROVE StopInv'
  BY <1>0, <1>15 DEF Answer, Returns, StopResult, StopInv
<1>16. ASSUME NEW w \in Workers, BeforeCall(w) PROVE StopInv'
  BY <1>0, <1>16 DEF BeforeCall, Returns, StopResult, Flagged, Stopped, StopInv
<1>17. ASSUME NEW w \in Workers, ToolReturns(w) PROVE StopInv'
  BY <1>0, <1>17 DEF ToolReturns, Returns, StopResult, Flagged, Stopped, StopInv
<1>18. CASE Cancel \/ Clear
  BY <1>0, <1>18 DEF Cancel, Clear, Command, Given, StopWith, StopInstance, EntryInv, Alive, StopInv
<1>19. CASE Pause
  BY <1>0, <1>19 DEF Pause, Command, Given, StopInstance, StopWith, StopInv
<1>20. CASE Untrack \/ CancelRows \/ ClearRows
  BY <1>0, <1>20 DEF Untrack, CancelRows, ClearRows, StopInv
<1>21. CASE UNCHANGED vars
  BY <1>0, <1>21 DEF vars, StopInv
<1> QED
  BY <1>1, <1>2, <1>3, <1>4, <1>5, <1>6, <1>7, <1>8, <1>9, <1>10, <1>11, <1>12, <1>13,
     <1>14, <1>15, <1>16, <1>17, <1>18, <1>19, <1>20, <1>21 DEF Next, RunStep, ChildStep,
     LoopStep, HandlerStep

(* When a cancel or a clear is over, no child of the run it stopped is in  *)
(* a tool with a live context, whatever it did while the handler looked;   *)
(* but for a child that the end of an earlier run took out of the maps.    *)
THEOREM StopReachesChildrenCorrect == Spec => []StopReachesChildren
<1>1. Init => ReachInv
  BY Names DEF Init, ReachInv, ToolInv, LifeInv, EntryInv, StopInv, Alive
<1>2. Inv /\ ReachInv /\ [Next]_vars => ReachInv'
  BY ToolNext, LifeNext, EntryNext, StopNext DEF ReachInv
<1>3. ReachInv => StopReachesChildren
  BY DEF ReachInv, ToolInv, StopInv, StopReachesChildren
<1> QED
  BY <1>1, <1>2, <1>3, InitInv, InvNext, PTL DEF Spec

-----------------------------------------------------------------------------
(* What is left when all is quiet.                                         *)

MarkInv ==
  \A c \in Children :
    /\ row[c] = "running" =>
         /\ pc[c] \notin {"unused", "spawn"}
         /\ \/ c \in late \cup robbed
            \/ pc[c] = "track"
            \/ stop[c[1]] # "cancel" /\ (entry = c[1] => c \in tracked)
            \/ cpc \in {"cancel", "cancelRows"} /\ c \in copied

KindInv == \A r \in Runs : pc[r] = "unused" <=> kind[r] = "none"

TrackedInv ==
  \A c \in tracked :
    kind[c[1]] = "resume" \/ pc[c[1]] \in {"children", "synthesize", "summing", "clean"}

MapInv ==
  \A c \in inMap \cup counted :
    \/ c \in late \cup robbed
    \/ c \in tracked /\ cpc # "cancel"
    \/ c \in todo /\ cpc \in {"cancel", "clear"}

LeftInv == MarkInv /\ KindInv /\ TrackedInv /\ MapInv

LEMMA LeftInit == Init => LeftInv
BY Names DEF Init, LeftInv, MarkInv, KindInv, TrackedInv, MapInv

(* The steps of runs and workers that touch neither maps nor rows.         *)
Inward ==
  \/ \E r \in Runs : \/ Lock(r) \/ SlotOr(r, "decompose", "planning", "error") \/ Plan(r) \/ Collect(r)
                     \/ SlotOr(r, "synthesize", "summing", "error") \/ Summarize(r) \/ Settle(r)
  \/ \E w \in Workers : LoopStep(w)

Reporting(r) == pc[r] \in {"children", "synthesize", "summing", "clean"}

LEMMA InwardStep ==
  ASSUME Inv, Inward
  PROVE  /\ UNCHANGED <<entry, tracked, inMap, counted, row, kind, stop, cpc, copied, todo, late, robbed>>
         /\ \A c \in Children : /\ pc'[c] \in {"unused", "spawn"} => pc[c] \in {"unused", "spawn"}
                                /\ pc[c] = "track" => pc'[c] = "track"
         /\ \A r \in Runs : /\ pc'[r] = "unused" <=> pc[r] = "unused"
                            /\ Reporting(r) => Reporting(r)'
<1>0. /\ pc \in [Workers -> Points] /\ inst \in [Runs -> Runs \cup {NoRun}] /\ Unborn
  BY DEF Inv, PhaseInv, TypeOK, WorkerTypes, RunTypes
<1>1. UNCHANGED <<entry, tracked, inMap, counted, row, kind, stop, cpc, copied, todo, late, robbed>>
  BY DEF Inward, LoopStep, Lock, SlotOr, Plan, Collect, Summarize, Settle, Top, Answer, BeforeCall,
     ToolReturns, runUnchanged, handler, ghosts
<1>2. CASE \E r \in Runs : Plan(r)
  <2>1. PICK r \in Runs : Plan(r)
    BY <1>2
  <2>2. /\ pc[r] = "planning" /\ \A c \in ChildrenOf(r) : pc[c] = "unused"
    BY <1>0, <2>1 DEF Plan, Unborn
  <2>3. CASE \E n \in 1..MaxTasks[r] :
               pc' = [w \in Workers |-> IF w = r THEN "children"
                                        ELSE IF w \in {r} \X (1..n) THEN "spawn" ELSE pc[w]]
    <3>1. PICK n \in 1..MaxTasks[r] :
               pc' = [w \in Workers |-> IF w = r THEN "children"
                                        ELSE IF w \in {r} \X (1..n) THEN "spawn" ELSE pc[w]]
      BY <2>3
    <3>2. {r} \X (1..n) \subseteq ChildrenOf(r) /\ ChildrenOf(r) \subseteq Children
      BY Names, BoundsAssumption DEF ChildrenOf
    <3>3. \A w \in Workers : w # r /\ w \notin {r} \X (1..n) => pc'[w] = pc[w]
      BY <3>1
    <3>4. pc'[r] = "children" /\ \A c \in {r} \X (1..n) : pc[c] = "unused"
      BY <2>2, <3>1, <3>2, Names
    <3>5. \A q \in Runs : q # r => pc'[q] = pc[q]
      BY <3>2, <3>3, Names
    <3>6. ASSUME NEW c \in Children
          PROVE  /\ pc'[c] \in {"unused", "spawn"} => pc[c] \in {"unused", "spawn"}
                 /\ pc[c] = "track" => pc'[c] = "track"
      BY <3>3, <3>4, Names
    <3> QED
      BY <1>1, <2>2, <3>4, <3>5, <3>6 DEF Reporting
  <2>4. CASE \E to \in {"clean", "ended", "top"} : pc' = [pc EXCEPT ![r] = to]
    BY <1>0, <1>1, <2>2, <2>4, Names DEF Reporting
  <2> QED
    BY <2>1, <2>3, <2>4 DEF Plan, Returns, Goto
<1>3. CASE \E r \in Runs : \/ Lock(r) \/ SlotOr(r, "decompose", "planning", "error") \/ Collect(r)
                           \/ SlotOr(r, "synthesize", "summing", "error") \/ Summarize(r) \/ Settle(r)
  <2>1. PICK r \in Runs :
          /\ \E to \in {"decompose", "planning", "synthesize", "summing", "clean", "done"} :
               /\ pc' = [pc EXCEPT ![r] = to]
               /\ \/ ~Reporting(r) /\ pc[r] # "unused"
                  \/ to \in {"synthesize", "summing", "clean"} /\ Reporting(r)
    BY <1>3 DEF Lock, SlotOr, Collect, Summarize, Settle, Returns, Goto, Reporting
  <2> QED
    BY <1>0, <1>1, <2>1, Names DEF Reporting
<1>4. CASE \E w \in Workers : LoopStep(w)
  <2>1. PICK w \in Workers :
          /\ pc[w] \in {"top", "wait", "llm", "call", "tool"}
          /\ \E to \in {"top", "wait", "llm", "call", "tool", "clean", "ended"} : pc' = [pc EXCEPT ![w] = to]
    BY <1>4 DEF LoopStep, Top, SlotOr, Answer, BeforeCall, ToolReturns, Returns, Goto
  <2> QED
    BY <1>0, <1>1, <2>1, Names DEF Reporting
<1> QED
  BY <1>2, <1>3, <1>4 DEF Inward

LEMMA MarkNext == Inv /\ ReachInv /\ LeftInv /\ [Next]_vars => MarkInv'
<1> SUFFICES ASSUME Inv, ReachInv, LeftInv, [Next]_vars PROVE MarkInv'
  OBVIOUS
<1>0. /\ MarkInv /\ EntryInv /\ Unborn
      /\ pc \in [Workers -> Points] /\ entry \in Runs \cup {NoRun}
      /\ stop \in [Runs -> {"no", "cancel", "clear", "pause", "resume", "deadline"}]
      /\ row \in [Children -> {"none", "running", "failed", "deleted"}]
  BY DEF LeftInv, ReachInv, Inv, PhaseInv, TypeOK, WorkerTypes, RunTypes, MapTypes
<1> USE Names DEF maps, flags, handler, ghosts, runUnchanged, childUnchanged, handlerUnchanged, Goto
<1>1. CASE Inward
  BY <1>0, <1>1, InwardStep DEF MarkInv
<1>2. ASSUME NEW r \in Runs, Send(r) \/ Resume(r) PROVE MarkInv'
  <2>1. pc[r] = "unused" /\ \A c \in ChildrenOf(r) : row[c] # "running"
    BY <1>0, <1>2 DEF Send, Resume, Unborn, MarkInv, ChildrenOf
  <2>2. /\ UNCHANGED <<row, tracked, late, robbed>> /\ entry' = r /\ pc' = [pc EXCEPT ![r] = "lock"]
        /\ UNCHANGED <<cpc, copied>> /\ \A q \in Runs : stop'[q] = "cancel" => stop[q] = "cancel"
    BY <1>0, <1>2 DEF Send, Resume, Given, StopWith
  <2> QED
    BY <1>0, <2>1, <2>2 DEF MarkInv, ChildrenOf
<1>3. ASSUME NEW r \in Runs, Clean(r) PROVE MarkInv'
  BY <1>0, <1>3 DEF Clean, Forgotten, MarkInv
<1>4. ASSUME NEW r \in Runs, Deadline(r) PROVE MarkInv'
  BY <1>0, <1>4 DEF Deadline, MarkInv
<1>5. ASSUME NEW c \in Children, Spawn(c) PROVE MarkInv'
  BY <1>0, <1>5 DEF Spawn, MarkInv
<1>6. ASSUME NEW c \in Children, Track(c) PROVE MarkInv'
  BY <1>0, <1>6 DEF Track, Late, Stopped, MarkInv
<1>7. ASSUME NEW c \in Children, Count(c) \/ Enter(c) PROVE MarkInv'
  BY <1>0, <1>7 DEF Count, Enter, Astray, MarkInv
<1>8. CASE Cancel
  BY <1>0, <1>8 DEF Cancel, Command, Given, StopWith, MarkInv
<1>9. CASE Clear
  BY <1>0, <1>9 DEF Clear, Command, Given, StopWith, MarkInv
<1>10. CASE Pause
  BY <1>0, <1>10 DEF Pause, Command, Given, StopWith, MarkInv
<1>11. ASSUME NEW c \in Children, CancelChild(c) PROVE MarkInv'
  BY <1>0, <1>11 DEF CancelChild, MarkInv
<1>12. CASE Untrack
  BY <1>0, <1>12 DEF Untrack, EntryInv, MarkInv
<1>13. CASE CancelRows
  BY <1>0, <1>13 DEF CancelRows, Marked, MarkInv
<1>14. CASE ClearRows
  BY <1>0, <1>14 DEF ClearRows, MarkInv
<1>15. CASE UNCHANGED vars
  BY <1>0, <1>15 DEF vars, MarkInv
<1> QED
  BY <1>1, <1>2, <1>3, <1>4, <1>5, <1>6, <1>7, <1>8, <1>9, <1>10, <1>11, <1>12, <1>13, <1>14, <1>15
     DEF Next, RunStep, ChildStep, HandlerStep, Inward

LEMMA MapNext == Inv /\ ReachInv /\ LeftInv /\ [Next]_vars => KindInv' /\ TrackedInv' /\ MapInv'
<1> SUFFICES ASSUME Inv, ReachInv, LeftInv, [Next]_vars PROVE KindInv' /\ TrackedInv' /\ MapInv'
  OBVIOUS
<1>0. /\ KindInv /\ TrackedInv /\ MapInv /\ LifeInv
      /\ pc \in [Workers -> Points] /\ kind \in [Runs -> {"none", "send", "resume"}]
      /\ tracked \subseteq Children /\ inMap \subseteq Children /\ counted \subseteq Children
  BY DEF LeftInv, ReachInv, Inv, TypeOK, WorkerTypes, RunTypes, MapTypes
<1> USE Names DEF maps, flags, handler, ghosts, runUnchanged, childUnchanged, handlerUnchanged, Goto
<1>1. CASE Inward
  <2>1. KindInv' /\ MapInv'
    BY <1>0, <1>1, InwardStep DEF KindInv, MapInv
  <2>2. TrackedInv'
    BY <1>0, <1>1, InwardStep DEF TrackedInv, Reporting
  <2> QED
    BY <2>1, <2>2
<1>2. ASSUME NEW r \in Runs, Send(r) \/ Resume(r) PROVE KindInv' /\ TrackedInv' /\ MapInv'
  <2>1. /\ UNCHANGED <<tracked, inMap, counted, late, robbed, cpc, todo>> /\ pc[r] = "unused"
        /\ pc' = [pc EXCEPT ![r] = "lock"]
        /\ \E k \in {"send", "resume"} : kind' = [kind EXCEPT ![r] = k]
    BY <1>2 DEF Send, Resume, Given
  <2>2. \A c \in tracked : c[1] = r => kind[r] = "resume"
    BY <1>0, <2>1 DEF TrackedInv
  <2>3. \A c \in tracked : c[1] # r
    BY <1>0, <2>1, <2>2 DEF TrackedInv, KindInv
  <2> QED
    BY <1>0, <2>1, <2>3 DEF KindInv, TrackedInv, MapInv
<1>3. ASSUME NEW r \in Runs, Clean(r) PROVE KindInv' /\ TrackedInv' /\ MapInv'
  <2>1. kind[r] \in {"send", "resume"}
    BY <1>0, <1>3 DEF Clean, KindInv
  <2>2. CASE kind[r] = "send"
    BY <1>0, <1>3, <2>2 DEF Clean, Forgotten, KindInv, TrackedInv, MapInv
  <2>3. CASE kind[r] = "resume"
    BY <1>0, <1>3, <2>3 DEF Clean, Forgotten, KindInv, TrackedInv, MapInv
  <2> QED
    BY <2>1, <2>2, <2>3
<1>4. ASSUME NEW r \in Runs, Deadline(r) PROVE KindInv' /\ TrackedInv' /\ MapInv'
  BY <1>0, <1>4 DEF Deadline, KindInv, TrackedInv, MapInv
<1>5. ASSUME NEW c \in Children, Spawn(c) PROVE KindInv' /\ TrackedInv' /\ MapInv'
  BY <1>0, <1>5 DEF Spawn, KindInv, TrackedInv, MapInv
<1>6. ASSUME NEW c \in Children, Track(c) PROVE KindInv' /\ TrackedInv' /\ MapInv'
  <2>1. pc[c[1]] = "children"
    BY <1>0, <1>6 DEF Track, LifeInv
  <2> QED
    BY <1>0, <1>6, <2>1 DEF Track, Late, KindInv, TrackedInv, MapInv
<1>7. ASSUME NEW c \in Children, Count(c) \/ Enter(c) PROVE KindInv' /\ TrackedInv' /\ MapInv'
  BY <1>0, <1>7 DEF Count, Enter, Astray, KindInv, TrackedInv, MapInv
<1>8. CASE Cancel \/ Clear \/ Pause
  BY <1>0, <1>8 DEF Cancel, Clear, Pause, Command, Given, KindInv, TrackedInv, MapInv
<1>9. ASSUME NEW c \in Children, CancelChild(c) PROVE KindInv' /\ TrackedInv' /\ MapInv'
  BY <1>0, <1>9 DEF CancelChild, KindInv, TrackedInv, MapInv
<1>10. CASE Untrack \/ CancelRows \/ ClearRows
  BY <1>0, <1>10 DEF Untrack, CancelRows, ClearRows, KindInv, TrackedInv, MapInv
<1>11. CASE UNCHANGED vars
  BY <1>0, <1>11 DEF vars, KindInv, TrackedInv, MapInv
<1> QED
  BY <1>1, <1>2, <1>3, <1>4, <1>5, <1>6, <1>7, <1>8, <1>9, <1>10, <1>11
     DEF Next, RunStep, ChildStep, HandlerStep, Inward

LEMMA LeftAlways == Spec => [](Inv /\ LeftInv)
<1>1. Init => ReachInv
  BY Names DEF Init, ReachInv, ToolInv, LifeInv, EntryInv, StopInv, Alive
<1>2. Inv /\ ReachInv /\ [Next]_vars => ReachInv'
  BY ToolNext, LifeNext, EntryNext, StopNext DEF ReachInv
<1>3. Inv /\ ReachInv /\ LeftInv /\ [Next]_vars => LeftInv'
  BY MarkNext, MapNext DEF LeftInv
<1> QED
  BY <1>1, <1>2, <1>3, LeftInit, InitInv, InvNext, PTL DEF Spec

(* When all is quiet, a child of a cancelled run whose row says running    *)
(* was spawned across the cancel, or taken out by the end of another run.  *)
THEOREM CancelMarksChildrenCorrect == Spec => []CancelMarksChildren
<1>1. LeftInv => CancelMarksChildren
  BY Names DEF LeftInv, MarkInv, CancelMarksChildren, Done
<1> QED
  BY <1>1, LeftAlways, PTL

(* When all is quiet, nothing is left in the maps of the hub but children  *)
(* of resumed runs and those that a stop or the end of another run has     *)
(* overtaken, however many runs and commands there were.                   *)
THEOREM MapsEmptiedCorrect == Spec => []MapsEmptied
<1>1. Inv /\ LeftInv => MapsEmptied
  <2> SUFFICES ASSUME Inv, LeftInv, Done, NEW c \in inMap \cup counted \cup tracked
               PROVE  c \in late \cup robbed \/ kind[c[1]] = "resume"
    BY DEF MapsEmptied
  <2>1. CASE c \in tracked
    <3>1. c[1] \in Workers
      BY <2>1, Names DEF Inv, TypeOK, MapTypes
    <3> QED
      BY <2>1, <3>1 DEF LeftInv, TrackedInv, Done
  <2>2. CASE c \notin tracked
    BY <2>2 DEF LeftInv, MapInv, Done
  <2> QED
    BY <2>1, <2>2
<1> QED
  BY <1>1, LeftAlways, PTL
=============================================================================
