------------------------------ MODULE AgentLoop ------------------------------
(***************************************************************************)
(* What one agent instance says to the LLM and hears from it: the History  *)
(* of agent/agent.go, the stream of llm/client.go that an answer arrives   *)
(* in, and the tool calls of the answer, against a cancel or a pause that  *)
(* the hub (api/ws.go) carries out at the same time.                       *)
(*                                                                         *)
(* A message keeps its role, the calls it makes and the call it answers.   *)
(* A text is empty, the one text an LLM would repeat, or another one.      *)
(***************************************************************************)
EXTENDS Integers, Sequences

CONSTANTS
  MaxHistory,   \* maxHistoryMessages (100)
  Threshold,    \* compressionThreshold (50)
  KeepRecent,   \* compressionKeepRecent (20)
  MaxRepeats,   \* maxToolRepeats (3)
  MaxIter,      \* iterations of runLoopWithMaxIterations (25)
  MaxCalls,     \* bound on the tool calls of one answer
  MaxChunks,    \* bound on the chunks of one stream
  MaxRuns,      \* bound on the messages and resumes
  MaxEvents     \* bound on the stops, interventions and second messages

ASSUME HistoryAssumption == /\ KeepRecent \in Nat \ {0}
                            /\ Threshold \in Nat /\ MaxHistory \in Nat
                            /\ KeepRecent + 1 < Threshold
                            /\ Threshold < MaxHistory
ASSUME BoundsAssumption  == /\ MaxRepeats \in Nat \ {0} /\ MaxIter \in Nat \ {0}
                            /\ MaxCalls \in Nat \ {0} /\ MaxChunks \in Nat \ {0}
                            /\ MaxRuns \in Nat \ {0} /\ MaxEvents \in Nat

VARIABLES
  history,    \* Agent.History
  answers,    \* how many streams were begun: it tells their call IDs apart
  chunks,     \* chunks received of the current stream
  text,       \* contentBuilder, streamAccum
  calls,      \* toolCalls
  at,         \* tcIdx: the call in hand
  final,      \* breakLoop
  last,       \* lastResponse
  sig,        \* lastToolSig
  repeats,    \* toolRepeatCount
  iter,       \* i
  pc,         \* where the run is
  outcome,    \* what Run or Continue returned
  resumed,    \* the run is one of handleResume
  runs,       \* runs started
  events,     \* stops, interventions and second messages so far
  slot,       \* a message is in Agent.intervention
  paused,     \* Agent.paused
  cancelled,  \* Agent.cancelled
  ctx,        \* the context of the run
  toolCtx,    \* toolCtx
  registered, \* Agent.toolCancel belongs to toolCtx
  entry,      \* whose cancel function is in the map: this run's, another's
  ctl         \* what a cancel or a pause has yet to do under agentMu

stream   == <<chunks, text, calls>>
detector == <<last, sig, repeats>>
tooling  == <<at, final, toolCtx, registered>>
flags    == <<paused, cancelled>>
control  == <<entry, ctl>>
runInfo  == <<resumed, runs>>
common   == <<resumed, runs, events>>
vars == <<history, answers, chunks, text, calls, at, final, last, sig, repeats,
          iter, pc, outcome, resumed, runs, events, slot, paused, cancelled, ctx,
          toolCtx, registered, entry, ctl>>

Tools == {"work", "response"}      \* names the registry knows
Names == Tools \cup {"empty"}           \* and the name of a call never described
NoId  == <<0, 0>>
Texts == {"empty", "same", "other"}

IdsOf(s)         == [k \in 1..Len(s) |-> s[k].id]
Said(role)      == [role |-> role, calls |-> <<>>, id |-> NoId]
Asked(someCalls) == [role |-> "assistant", calls |-> IdsOf(someCalls), id |-> NoId]
Answered(call)  == [role |-> "tool", calls |-> <<>>, id |-> call.id]
FirstMessage    == Said("first")

(* The results filled in for the calls from the n-th on.  Mutant: without  *)
(* the n-th.                                                               *)
FilledAfter(n) == [k \in 1..(Len(calls) - n) |-> Answered(calls[n + k])]
Filled(n)      == [k \in 1..(Len(calls) - n + 1) |-> Answered(calls[n + k - 1])]

UserMessage == IF history = <<>> THEN FirstMessage ELSE Said("user")

Init ==
  /\ history = <<>> /\ answers = 0 /\ chunks = 0 /\ text = "empty" /\ calls = <<>>
  /\ at = 0 /\ final = FALSE /\ last = "empty" /\ sig = <<>> /\ repeats = 0
  /\ iter = 0 /\ pc = "idle" /\ outcome = "none" /\ resumed = FALSE /\ runs = 0 /\ events = 0
  /\ slot = FALSE /\ paused = FALSE /\ cancelled = FALSE
  /\ ctx = "live" /\ toolCtx = "none" /\ registered = FALSE
  /\ entry = "none" /\ ctl = <<>>

(* The answer is dealt with.                                               *)
Forget == chunks' = 0 /\ text' = "empty" /\ calls' = <<>>

-----------------------------------------------------------------------------
(* The hub.                                                                *)

Enter ==
  /\ pc = "idle" /\ ctl = <<>>
  /\ runs < MaxRuns /\ runs' = runs + 1
  /\ entry' = "this" /\ ctx' = "live" /\ pc' = "top"
  /\ outcome' = "none"
  /\ UNCHANGED <<answers, stream, detector, tooling, iter, slot, events, ctl>>

(* handleSendMessage: both flags are reset, then Agent.Run.                *)
Run ==
  /\ Enter
  /\ paused' = FALSE /\ cancelled' = FALSE
  /\ history' = Append(history, UserMessage)
  /\ resumed' = FALSE

(* handleResume: only if paused, then Agent.Continue.                      *)
Continue ==
  /\ Enter
  /\ paused /\ paused' = FALSE
  /\ resumed' = TRUE
  /\ UNCHANGED <<history, cancelled>>

Event == events < MaxEvents /\ events' = events + 1

(* A message for a stopped run that has not returned resets the flags and  *)
(* puts its own cancel function in the map before it waits for a.mu.       *)
SecondMessage ==
  /\ Event /\ pc # "idle" /\ ctl = <<>> /\ entry = "none"
  /\ paused' = FALSE /\ cancelled' = FALSE /\ entry' = "other"
  /\ UNCHANGED <<history, answers, stream, detector, tooling, iter, pc, outcome,
                 runInfo, slot, ctx, ctl>>

Intervene ==
  /\ Event /\ pc # "idle" /\ ~slot /\ slot' = TRUE
  /\ UNCHANGED <<history, answers, stream, detector, tooling, iter, pc, outcome,
                 runInfo, flags, ctx, control>>

(* What a cancel does, in this order.  Mutant: the tools before the flag.  *)
ToolsFirst  == <<"tools", "flag", "context">>
CancelSteps == <<"flag", "tools", "context">>

(* What a pause does.  Mutant: the context before the flag.                *)
ContextFirst == <<"context", "pause">>
PauseSteps   == <<"pause", "context">>

StopUnchanged == UNCHANGED <<history, answers, stream, detector, at, final,
                             registered, iter, pc, outcome, runInfo, slot>>

(* handleCancel, handlePause: nothing without an entry in the map.         *)
Stop ==
  /\ Event /\ entry # "none" /\ ctl = <<>>
  /\ ctl' \in {CancelSteps, PauseSteps}
  /\ UNCHANGED <<flags, ctx, toolCtx, entry>> /\ StopUnchanged

StopStep ==
  /\ ctl # <<>> /\ ctl' = Tail(ctl) /\ UNCHANGED events
  /\ cancelled' = (cancelled \/ Head(ctl) = "flag")
  /\ paused' = (paused \/ Head(ctl) = "pause")
  /\ toolCtx' = IF Head(ctl) = "tools" /\ registered /\ toolCtx = "live"
                THEN "done" ELSE toolCtx
  /\ ctx' = IF Head(ctl) = "context" /\ entry = "this" /\ ctx = "live"
            THEN "stopped" ELSE ctx
  /\ entry' = IF Head(ctl) = "context" THEN "none" ELSE entry
  /\ StopUnchanged

(* The deadline of the run, where the loop looks at the context.           *)
Deadline ==
  /\ pc \in {"top", "wait"} /\ ctx = "live" /\ ctx' = "expired"
  /\ UNCHANGED <<flags, toolCtx, control, events>> /\ StopUnchanged

(* What the two handlers do when Run or Continue has returned.  The locals  *)
(* of the loop are gone.                                                    *)
Return ==
  LET quiet == outcome = "cancelled" /\ ~resumed IN
  /\ pc = "return" /\ ctl = <<>> /\ pc' = "idle" /\ entry' = "none"
  /\ paused' = (paused /\ (outcome = "paused" \/ quiet))
  /\ cancelled' = (cancelled /\ ~quiet)
  /\ iter' = 0 /\ last' = "empty" /\ sig' = <<>> /\ repeats' = 0
  /\ at' = 0 /\ final' = FALSE /\ toolCtx' = "none" /\ registered' = FALSE
  /\ Forget
  /\ UNCHANGED <<history, answers, outcome, common, slot, ctx, ctl>>

-----------------------------------------------------------------------------
(* runLoopWithMaxIterations, up to the LLM.                                *)

loopUnchanged == UNCHANGED <<common, flags, ctx, control>>

Leave(why) == pc' = "return" /\ outcome' = why
StopResult == IF cancelled THEN "cancelled" ELSE IF paused THEN "paused" ELSE "error"

NextIteration ==
  /\ iter' = iter + 1
  /\ IF iter + 1 < MaxIter THEN pc' = "top" /\ UNCHANGED outcome ELSE Leave("error")

(* checkIntervention: the message is taken out of the slot.                *)
WithIntervention(h) == IF slot THEN Append(h, Said("user")) ELSE h

Top ==
  /\ pc = "top"
  /\ IF ctx # "live"
     THEN Leave(StopResult) /\ UNCHANGED <<history, slot>>
     ELSE /\ history' = WithIntervention(history) /\ slot' = FALSE
          /\ pc' = "compress" /\ UNCHANGED outcome
  /\ UNCHANGED <<answers, stream, tooling, detector, iter>> /\ loopUnchanged

LastOf(h, n) == SubSeq(h, Len(h) - n + 1, Len(h))

(* pruneHistory keeps the first message.  Mutant: the limit is passed by   *)
(* one.                                                                    *)
PrunedLate(h) == IF Len(h) <= MaxHistory + 1 THEN h
                 ELSE <<h[1]>> \o LastOf(h, MaxHistory - 1)
Pruned(h)     == IF Len(h) <= MaxHistory THEN h
                 ELSE <<h[1]>> \o LastOf(h, MaxHistory - 1)

(* ChatCompletion: an error or a text, which is empty when the answer has  *)
(* no choices or its content is not a string.                              *)
Completions == {"error", "empty", "text"}

(* compressHistory: a summary, or, when the LLM has none, pruneHistory.    *)
Compressed(h) ==
  IF Len(h) <= Threshold THEN {h}
  ELSE {IF c = "text" THEN <<h[1], Said("user")>> \o LastOf(h, KeepRecent)
                      ELSE Pruned(h) : c \in Completions}

Compress ==
  /\ pc = "compress" /\ pc' = "wait"
  /\ \E h \in Compressed(history) : history' = Pruned(h)
  /\ UNCHANGED <<answers, stream, tooling, detector, iter, outcome, slot>>
  /\ loopUnchanged

(* The semaphore, or the end of the context: with both, either.            *)
Wait ==
  /\ pc = "wait"
  /\ \/ /\ pc' = "llm" /\ answers' = answers + 1
        /\ chunks' = 0 /\ text' = "empty" /\ calls' = <<>>
        /\ UNCHANGED outcome
     \/ /\ ctx # "live" /\ Leave(StopResult)
        /\ UNCHANGED <<answers, stream>>
  /\ UNCHANGED <<history, tooling, detector, iter, slot>> /\ loopUnchanged

-----------------------------------------------------------------------------
(* ChatCompletionStream.                                                   *)

(* A delta for call n: what comes before it and was not described is an    *)
(* empty ToolCall.  Without an ID it goes on with the arguments.           *)
Described(n, name) ==
  [k \in 1..(IF n > Len(calls) THEN n ELSE Len(calls)) |->
     IF k = n /\ name # "empty" THEN [id |-> <<answers, n>>, name |-> name]
     ELSE IF k <= Len(calls) THEN calls[k] ELSE [id |-> NoId, name |-> "empty"]]

Chunk ==
  /\ pc = "llm" /\ chunks < MaxChunks /\ chunks' = chunks + 1
  /\ \/ text' \in (IF text = "empty" THEN {"same", "other"} ELSE {"other"}) /\ UNCHANGED calls
     \/ \E n \in 1..MaxCalls, name \in Names : calls' = Described(n, name) /\ UNCHANGED text
  /\ UNCHANGED <<history, answers, pc, iter, outcome, slot, tooling, detector>>
  /\ loopUnchanged

(* [DONE], or the end of the body.                                         *)
StreamEnds ==
  /\ pc = "llm" /\ pc' = "answered"
  /\ UNCHANGED <<history, answers, stream, iter, outcome, slot, tooling, detector>>
  /\ loopUnchanged

(* No answer or a broken one, at any moment: the server, the network, the  *)
(* context.  A pause keeps what was received of the text.                  *)
StreamFails ==
  /\ pc = "llm" /\ Leave(StopResult)
  /\ history' = IF StopResult = "paused" /\ text # "empty"
                THEN history \o <<Asked(<<>>), Said("user")>> ELSE history
  /\ Forget /\ UNCHANGED <<answers, iter, slot, tooling, detector>> /\ loopUnchanged

-----------------------------------------------------------------------------
(* The answer.                                                             *)

Repeated   == text = "same" /\ last = "same"
Signature  == [k \in 1..Len(calls) |-> calls[k].name]

(* The same text as before: a warning instead of the answer.               *)
WarnOfText ==
  /\ pc = "answered" /\ Repeated
  /\ history' = Append(history, Said("user"))
  /\ last' = "empty" /\ UNCHANGED <<sig, repeats>>
  /\ NextIteration
  /\ Forget /\ UNCHANGED <<answers, slot, tooling>> /\ loopUnchanged

(* Arguments are not modelled: the same tools may have other ones.         *)
Looping(same) == same /\ sig = Signature

(* The same calls once too often: answered without running them.           *)
WarnOfCalls ==
  /\ pc = "answered" /\ ~Repeated /\ calls # <<>>
  /\ Looping(TRUE) /\ repeats + 1 >= MaxRepeats
  /\ history' = Append(history, Asked(calls)) \o Filled(1)
  /\ last' = text /\ sig' = <<>> /\ repeats' = 0
  /\ NextIteration
  /\ Forget /\ UNCHANGED <<answers, slot, tooling>> /\ loopUnchanged

CallTools ==
  /\ pc = "answered" /\ ~Repeated /\ calls # <<>>
  /\ \E same \in BOOLEAN :
       /\ Looping(same) => repeats + 1 < MaxRepeats
       /\ repeats' = IF Looping(same) THEN repeats + 1 ELSE 0
  /\ last' = text /\ sig' = Signature
  /\ history' = Append(history, Asked(calls))
  /\ at' = 1 /\ final' = FALSE /\ toolCtx' = "live" /\ registered' = FALSE
  /\ pc' = "register" /\ chunks' = 0 /\ text' = "empty"
  /\ UNCHANGED <<answers, calls, iter, outcome, slot>> /\ loopUnchanged

(* No calls: the text is the response, an empty one is asked for again.    *)
Respond ==
  /\ pc = "answered" /\ ~Repeated /\ calls = <<>>
  /\ last' = text /\ UNCHANGED <<sig, repeats>>
  /\ history' = Append(history, Asked(<<>>))
  /\ IF text # "empty" THEN Leave("response") /\ UNCHANGED iter ELSE NextIteration
  /\ Forget /\ UNCHANGED <<answers, slot, tooling>> /\ loopUnchanged

-----------------------------------------------------------------------------
(* The tool calls.                                                         *)

toolUnchanged == UNCHANGED <<answers, stream, detector>> /\ loopUnchanged

Register ==
  /\ pc = "register" /\ pc' = "call" /\ registered' = TRUE
  /\ UNCHANGED <<history, at, final, toolCtx, iter, outcome, slot>> /\ toolUnchanged

(* A stop seen here or in a failed tool: every call left gets a result.    *)
GiveUp(why) ==
  /\ Leave(why) /\ history' = history \o Filled(at) /\ toolCtx' = "none"
  /\ UNCHANGED <<at, final, registered, iter, slot>>

BeforeCall ==
  /\ pc = "call" /\ at <= Len(calls)
  /\ \/ (cancelled \/ paused) /\ GiveUp(StopResult)
     \/ /\ ~cancelled /\ ~paused
        /\ slot' = FALSE
        /\ IF calls[at].name \in Tools
           THEN pc' = "tool" /\ history' = WithIntervention(history) /\ UNCHANGED at
           ELSE /\ history' = Append(WithIntervention(history), Answered(calls[at]))
                /\ at' = at + 1 /\ UNCHANGED pc
        /\ UNCHANGED <<final, toolCtx, registered, iter, outcome>>
  /\ toolUnchanged

(* Execute returned a result or an error.  (The response tool breaks the   *)
(* loop unless it returned an error.)                                      *)
ToolReturns ==
  /\ pc = "tool"
  /\ \E failed \in BOOLEAN :
       \/ failed /\ cancelled /\ GiveUp("cancelled")
       \/ /\ ~(failed /\ cancelled)
          /\ history' = Append(history, Answered(calls[at]))
          /\ final' = (final \/ (~failed /\ calls[at].name = "response"))
          /\ at' = at + 1 /\ pc' = "call"
          /\ UNCHANGED <<toolCtx, registered, iter, outcome, slot>>
  /\ toolUnchanged

(* The five minutes of toolCtx.                                            *)
ToolTimeout ==
  /\ pc = "tool" /\ toolCtx = "live" /\ toolCtx' = "done"
  /\ UNCHANGED <<history, at, final, registered, pc, iter, outcome, slot>>
  /\ toolUnchanged

AfterCalls ==
  /\ pc = "call" /\ at > Len(calls)
  /\ toolCtx' = "none" /\ registered' = FALSE
  /\ IF paused THEN Leave("paused") /\ UNCHANGED iter
     ELSE IF final THEN Leave("response") /\ UNCHANGED iter
     ELSE NextIteration
  /\ UNCHANGED <<history, at, final, slot>> /\ toolUnchanged

HubStep  == Run \/ Continue \/ SecondMessage \/ Intervene \/ Stop \/ StopStep \/ Return
LoopStep ==
  \/ Top \/ Compress \/ Wait \/ Chunk \/ StreamEnds \/ StreamFails
  \/ WarnOfText \/ WarnOfCalls \/ CallTools \/ Respond
  \/ Register \/ BeforeCall \/ ToolReturns \/ AfterCalls

Next == HubStep \/ LoopStep \/ Deadline \/ ToolTimeout

Spec == Init /\ [][Next]_vars

-----------------------------------------------------------------------------
(* Properties.                                                             *)

Points == {"idle", "top", "compress", "wait", "llm", "answered", "register",
           "call", "tool", "return"}
Ids      == {NoId} \cup (Nat \X (1..MaxCalls))
Calls    == [id : Ids, name : Names]
Messages == [role : {"first", "user", "assistant", "tool"}, calls : Seq(Ids), id : Ids]

AnswerTypes ==
  /\ answers \in Nat /\ chunks \in 0..MaxChunks /\ text \in Texts /\ calls \in Seq(Calls)
  /\ at \in Nat /\ final \in BOOLEAN /\ last \in Texts /\ sig \in Seq(Names)
  /\ repeats \in Nat /\ iter \in Nat

RunTypes ==
  /\ pc \in Points /\ outcome \in {"none", "response", "cancelled", "paused", "error"}
  /\ resumed \in BOOLEAN /\ runs \in 0..MaxRuns /\ events \in 0..MaxEvents
  /\ slot \in BOOLEAN /\ paused \in BOOLEAN /\ cancelled \in BOOLEAN
  /\ ctx \in {"live", "stopped", "expired"} /\ toolCtx \in {"none", "live", "done"}
  /\ registered \in BOOLEAN /\ entry \in {"none", "this", "other"}
  /\ ctl \in Seq({"flag", "pause", "tools", "context"})

(* Every variable stays in its type.                                       *)
TypeOK == history \in Seq(Messages) /\ AnswerTypes /\ RunTypes

(* Where the results for the calls of the assistant message at p are: the  *)
(* tool messages between it and the next assistant message.                *)
Results(h, p) ==
  {q \in (p + 1)..Len(h) : /\ h[q].role = "tool"
                           /\ \A r \in (p + 1)..q : h[r].role # "assistant"}

(* They are results for its first n calls, one for each, in their order.   *)
AnsweredTo(h, p, n) ==
  \E f \in [1..n -> Results(h, p)] :
    /\ \A q \in Results(h, p) : \E k \in 1..n : f[k] = q
    /\ \A j, k \in 1..n : j < k => f[j] < f[k]
    /\ \A k \in 1..n : h[f[k]].id = h[p].calls[k]

(* What the LLM is shown, and what a stopped run leaves for a resume, has  *)
(* one result for every tool call, in the order of the calls, whatever     *)
(* stopped, failed, was unknown, repeated, interrupted or cut away.        *)
CallsAnswered ==
  pc \notin {"register", "call", "tool"} =>
    \A p \in 1..Len(history) :
      history[p].role = "assistant" => AnsweredTo(history, p, Len(history[p].calls))

(* The message a conversation began with survives every compression and    *)
(* every pruning.                                                          *)
HeadKept == history # <<>> => history[1] = FirstMessage

(* The LLM is never sent more than maxHistoryMessages messages, although   *)
(* an iteration adds any number of them.                                   *)
PromptBounded == pc = "llm" => Len(history) <= MaxHistory

(* When a cancel has been through CancelTools and its flag is still set, a *)
(* tool that runs has a cancelled context: there is no moment between the  *)
(* last look at the flag and the call at which the cancel misses the tool. *)
CancelReachesTool ==
  pc = "tool" /\ cancelled /\ "tools" \notin {ctl[k] : k \in 1..Len(ctl)}
    => toolCtx # "live"

(* A run whose context a cancel or a pause has ended returns ErrCancelled   *)
(* or ErrPaused, and no raw error, at every point where the loop notices    *)
(* the end, unless a second message has reset the flags or the iterations   *)
(* ran out.                                                                 *)
StopIsNamed ==
  [][pc' = "return" /\ pc # "return" /\ outcome' = "error" /\ iter' < MaxIter
       => ctx # "stopped" \/ entry = "other"]_vars
=============================================================================
