--------------------------- MODULE AgentLoopProofs ---------------------------
(***************************************************************************)
(* Proofs about AgentLoop, for every limit of the loop: the variables keep *)
(* their types, the first message survives, the prompt is bounded, a       *)
(* cancel reaches the tool that runs, a stopped run says why it ended, and *)
(* every tool call has its result.                                         *)
(*                                                                         *)
(* Started: a History is empty only before the first run.  InTool: a tool  *)
(* runs for a call of the answer, and its context is registered.           *)
(* ToolInv: from the flag on, the cancel still has the tools before it or  *)
(* has cancelled their context.  StopInv: while the context is stopped, a  *)
(* flag says why, unless a second message has reset both.  AnswerInv: in   *)
(* the tool calls the last answer has the results of the calls before the  *)
(* one in hand, and every other answer has all of its results.             *)
(***************************************************************************)
EXTENDS AgentLoop, SequenceTheorems, TLAPS

Started == history = <<>> => pc = "idle" /\ entry = "none" /\ ctl = <<>> /\ ~paused

InTool ==
  /\ pc \in {"register", "call", "tool"} => at >= 1
  /\ pc \in {"call", "tool"} => registered
  /\ pc = "tool" => at <= Len(calls)

Controls == {<<>>, <<"flag", "tools", "context">>, <<"tools", "context">>, <<"context">>,
             <<"pause", "context">>}

Inv == TypeOK /\ Started /\ InTool /\ ctl \in Controls

ToolInv ==
  pc = "tool" /\ cancelled => toolCtx # "live" \/ ctl = <<"tools", "context">>

StopInv ==
  /\ ctl \in {<<"tools", "context">>, <<"context">>} => cancelled \/ paused
  /\ ctx = "stopped" /\ pc \notin {"idle", "return"} => cancelled \/ paused \/ entry = "other"

-----------------------------------------------------------------------------
(* Sequences.                                                              *)

LEMMA Appended ==
  ASSUME NEW S, NEW h \in Seq(S), NEW m \in S
  PROVE  /\ Append(h, m) \in Seq(S) /\ Append(h, m) # <<>>
         /\ h # <<>> => Append(h, m)[1] = h[1]
         /\ h = <<>> => Append(h, m)[1] = m
BY AppendProperties, EmptySeq, LenProperties

LEMMA Concatenated ==
  ASSUME NEW S, NEW h \in Seq(S), NEW t \in Seq(S)
  PROVE  /\ h \o t \in Seq(S) /\ Len(h \o t) = Len(h) + Len(t)
         /\ h # <<>> => h \o t # <<>> /\ (h \o t)[1] = h[1]
<1>1. h \o t \in Seq(S) /\ Len(h \o t) = Len(h) + Len(t)
  OBVIOUS
<1>2. ASSUME h # <<>> PROVE h \o t # <<>> /\ (h \o t)[1] = h[1]
  <2>1. Len(h) \in Nat \ {0} /\ Len(t) \in Nat
    BY <1>2, EmptySeq, LenProperties
  <2>2. h \o t # <<>>
    BY <1>1, <2>1, EmptySeq
  <2>3. (h \o t)[1] = h[1]
    BY <2>1
  <2> QED
    BY <2>2, <2>3
<1> QED
  BY <1>1, <1>2

LEMMA LastOfSeq ==
  ASSUME NEW S, NEW h \in Seq(S), NEW n \in Nat, n <= Len(h)
  PROVE  LastOf(h, n) \in Seq(S) /\ Len(LastOf(h, n)) = n
<1>1. Len(h) \in Nat
  BY LenProperties
<1>2. \A i \in (Len(h) - n + 1)..Len(h) : h[i] \in S
  BY <1>1, ElementOfSeq
<1>3. Len(h) - n + 1 \in Int /\ Len(h) \in Int
  BY <1>1
<1> QED
  BY <1>1, <1>2, <1>3, SubSeqProperties DEF LastOf

(* Pruning keeps the head and leaves no more than MaxHistory messages.     *)
LEMMA PrunedSeq ==
  ASSUME NEW S, NEW h \in Seq(S), h # <<>>
  PROVE  /\ Pruned(h) \in Seq(S) /\ Pruned(h) # <<>> /\ Pruned(h)[1] = h[1]
         /\ Len(Pruned(h)) <= MaxHistory
<1>1. Len(h) \in Nat \ {0} /\ MaxHistory \in Nat \ {0} /\ h[1] \in S
  BY EmptySeq, ElementOfSeq, HistoryAssumption
<1>2. CASE Len(h) <= MaxHistory
  BY <1>2 DEF Pruned
<1>3. CASE ~(Len(h) <= MaxHistory)
  <2>1. MaxHistory - 1 \in Nat /\ MaxHistory - 1 <= Len(h)
    BY <1>1, <1>3
  <2>2. LastOf(h, MaxHistory - 1) \in Seq(S) /\ Len(LastOf(h, MaxHistory - 1)) = MaxHistory - 1
    BY <2>1, LastOfSeq
  <2>3. <<h[1]>> \in Seq(S) /\ Len(<<h[1]>>) = 1 /\ <<h[1]>> # <<>> /\ <<h[1]>>[1] = h[1]
    BY <1>1
  <2> DEFINE t == LastOf(h, MaxHistory - 1)
             f == <<h[1]>>
  <2> HIDE DEF t, f
  <2>4. /\ f \o t \in Seq(S) /\ Len(f \o t) = Len(f) + Len(t)
        /\ f \o t # <<>> /\ (f \o t)[1] = f[1]
    BY <2>2, <2>3, Concatenated DEF t, f
  <2>5. Pruned(h) = f \o t
    BY <1>3 DEF Pruned, t, f
  <2> QED
    BY <1>1, <2>2, <2>3, <2>4, <2>5 DEF t, f
<1> QED
  BY <1>2, <1>3

LEMMA CompressedSeq ==
  ASSUME NEW h \in Seq(Messages), h # <<>>, NEW c \in Compressed(h)
  PROVE  c \in Seq(Messages) /\ c # <<>> /\ c[1] = h[1]
<1>1. Len(h) \in Nat \ {0} /\ h[1] \in Messages
  BY EmptySeq, ElementOfSeq
<1>2. CASE Len(h) <= Threshold
  BY <1>2 DEF Compressed
<1>3. CASE ~(Len(h) <= Threshold) /\ c = Pruned(h)
  BY <1>3, PrunedSeq
<1>4. CASE ~(Len(h) <= Threshold) /\ c = <<h[1], Said("user")>> \o LastOf(h, KeepRecent)
  <2>1. KeepRecent \in Nat /\ KeepRecent <= Len(h)
    BY <1>1, <1>4, HistoryAssumption
  <2>2. LastOf(h, KeepRecent) \in Seq(Messages)
    BY <2>1, LastOfSeq
  <2>3. Said("user") \in Messages
    BY DEF Said, Messages, Ids, NoId
  <2> DEFINE f == <<h[1], Said("user")>>
             t == LastOf(h, KeepRecent)
  <2>4. f \in Seq(Messages) /\ f # <<>> /\ f[1] = h[1]
    BY <1>1, <2>3
  <2> HIDE DEF t, f
  <2> QED
    BY <1>4, <2>2, <2>4, Concatenated DEF t, f
<1> QED
  BY <1>2, <1>3, <1>4 DEF Compressed

-----------------------------------------------------------------------------
(* Messages.                                                               *)

LEMMA SaidIs ==
  ASSUME NEW role \in {"first", "user", "assistant", "tool"}
  PROVE  Said(role) \in Messages
BY DEF Said, Messages, Ids, NoId

LEMMA AskedIs ==
  ASSUME NEW some \in Seq(Calls)
  PROVE  Asked(some) \in Messages
<1>1. \A k \in 1..Len(some) : some[k].id \in Ids
  <2>1. \A k \in 1..Len(some) : some[k] \in Calls
    BY ElementOfSeq
  <2> QED
    BY <2>1 DEF Calls
<1>2. Len(some) \in Nat
  BY LenProperties
<1>3. IdsOf(some) \in Seq(Ids)
  BY <1>1, <1>2 DEF IdsOf
<1> QED
  BY <1>3 DEF Asked, Messages, Ids, NoId

LEMMA AnsweredIs ==
  ASSUME NEW some \in Seq(Calls), NEW n \in 1..Len(some)
  PROVE  Answered(some[n]) \in Messages
<1>1. some[n] \in Calls
  BY ElementOfSeq
<1> QED
  BY <1>1 DEF Answered, Messages, Calls

LEMMA FilledIs ==
  ASSUME calls \in Seq(Calls), NEW n \in Nat \ {0}, n <= Len(calls) + 1
  PROVE  Filled(n) \in Seq(Messages)
<1>1. Len(calls) \in Nat
  BY LenProperties
<1>2. \A k \in 1..(Len(calls) - n + 1) : Answered(calls[n + k - 1]) \in Messages
  BY <1>1, AnsweredIs
<1>3. Len(calls) - n + 1 \in Nat
  BY <1>1
<1> QED
  BY <1>2, <1>3 DEF Filled

-----------------------------------------------------------------------------
(* Every step keeps the head of the History.                               *)

Keeps(h) == history # <<>> /\ h \in Seq(Messages) /\ h # <<>> /\ h[1] = history[1]

LEMMA AppendKeeps ==
  ASSUME history \in Seq(Messages), history # <<>>, NEW m \in Messages
  PROVE  Keeps(Append(history, m))
BY Appended DEF Keeps

LEMMA ConcatKeeps ==
  ASSUME NEW h, Keeps(h), NEW t \in Seq(Messages)
  PROVE  Keeps(h \o t)
BY Concatenated DEF Keeps

LEMMA InterventionKeeps ==
  ASSUME history \in Seq(Messages), history # <<>>
  PROVE  Keeps(WithIntervention(history))
BY SaidIs, Appended DEF Keeps, WithIntervention

LEMMA KeepsNext ==
  ASSUME Inv, [Next]_vars
  PROVE  \/ history' = history \/ Keeps(history')
         \/ Run /\ history = <<>>
<1> DEFINE Goal == history' = history \/ Keeps(history') \/ (Run /\ history = <<>>)
<1> SUFFICES Goal
  OBVIOUS
<1>0. /\ history \in Seq(Messages) /\ calls \in Seq(Calls) /\ at \in Nat
      /\ pc # "idle" => history # <<>>
  BY DEF Inv, TypeOK, AnswerTypes, Started
<1>1. \A role \in {"first", "user", "assistant", "tool"} : Said(role) \in Messages
  BY SaidIs
<1>2. Asked(calls) \in Messages /\ Asked(<<>>) \in Messages
  BY <1>0, AskedIs, EmptySeq
<1>3. CASE Run
  BY <1>0, <1>1, <1>3, AppendKeeps DEF Run, UserMessage
<1>4. CASE Continue \/ SecondMessage \/ Intervene \/ Stop \/ StopStep \/ Return
  BY <1>4 DEF Continue, SecondMessage, Intervene, Stop, StopStep, StopUnchanged, Return
<1>5. CASE Top
  BY <1>0, <1>5, InterventionKeeps DEF Top
<1>6. CASE Compress
  <2>1. PICK h \in Compressed(history) : history' = Pruned(h)
    BY <1>6 DEF Compress
  <2>2. history # <<>>
    BY <1>0, <1>6 DEF Compress
  <2>3. h \in Seq(Messages) /\ h # <<>> /\ h[1] = history[1]
    BY <1>0, <2>1, <2>2, CompressedSeq
  <2> QED
    BY <2>1, <2>2, <2>3, PrunedSeq DEF Keeps
<1>7. CASE Wait \/ Chunk \/ StreamEnds \/ Register \/ AfterCalls \/ Deadline \/ ToolTimeout
  BY <1>7 DEF Wait, Chunk, StreamEnds, Register, AfterCalls, Deadline, ToolTimeout,
              StopUnchanged, toolUnchanged, loopUnchanged
<1>8. CASE StreamFails
  <2>1. history # <<>>
    BY <1>0, <1>8 DEF StreamFails
  <2>2. <<Asked(<<>>), Said("user")>> \in Seq(Messages)
    BY <1>1, <1>2
  <2>3. Keeps(history)
    BY <1>0, <2>1 DEF Keeps
  <2> DEFINE t == <<Asked(<<>>), Said("user")>>
  <2> HIDE DEF t
  <2>4. Keeps(history \o t)
    BY <2>2, <2>3, ConcatKeeps DEF t
  <2> QED
    BY <1>8, <2>4 DEF StreamFails, t
<1>9. CASE WarnOfText \/ CallTools \/ Respond
  BY <1>0, <1>1, <1>2, <1>9, AppendKeeps DEF WarnOfText, CallTools, Respond
<1>10. CASE WarnOfCalls
  <2>1. Keeps(Append(history, Asked(calls)))
    BY <1>0, <1>2, <1>10, AppendKeeps DEF WarnOfCalls
  <2>2. Filled(1) \in Seq(Messages)
    BY <1>0, FilledIs, LenProperties
  <2> QED
    BY <1>10, <2>1, <2>2, ConcatKeeps DEF WarnOfCalls
<1>11. CASE BeforeCall
  <2>1. at \in 1..Len(calls) /\ history # <<>>
    BY <1>0, <1>11, LenProperties DEF BeforeCall, Inv, InTool
  <2>2. Filled(at) \in Seq(Messages) /\ Answered(calls[at]) \in Messages
    BY <1>0, <2>1, FilledIs, AnsweredIs, LenProperties
  <2>3. Keeps(history) /\ Keeps(WithIntervention(history))
    BY <1>0, <2>1, InterventionKeeps DEF Keeps
  <2>4. Keeps(history \o Filled(at)) /\ Keeps(Append(WithIntervention(history), Answered(calls[at])))
    BY <2>2, <2>3, ConcatKeeps, Appended DEF Keeps
  <2> QED
    BY <1>11, <2>3, <2>4 DEF BeforeCall, GiveUp
<1>12. CASE ToolReturns
  <2>1. at \in 1..Len(calls) /\ history # <<>>
    BY <1>0, <1>12, LenProperties DEF ToolReturns, Inv, InTool
  <2>2. Filled(at) \in Seq(Messages) /\ Answered(calls[at]) \in Messages
    BY <1>0, <2>1, FilledIs, AnsweredIs, LenProperties
  <2>3. Keeps(history)
    BY <1>0, <2>1 DEF Keeps
  <2>4. Keeps(history \o Filled(at)) /\ Keeps(Append(history, Answered(calls[at])))
    BY <1>0, <2>1, <2>2, <2>3, ConcatKeeps, AppendKeeps
  <2> QED
    BY <1>12, <2>4 DEF ToolReturns, GiveUp
<1>13. CASE UNCHANGED vars
  BY <1>13 DEF vars
<1> QED
  BY <1>3, <1>4, <1>5, <1>6, <1>7, <1>8, <1>9, <1>10, <1>11, <1>12, <1>13
     DEF Next, HubStep, LoopStep

LEMMA HistoryNext ==
  ASSUME Inv, [Next]_vars
  PROVE  history' \in Seq(Messages) /\ (HeadKept => HeadKept')
<1>1. history \in Seq(Messages)
  BY DEF Inv, TypeOK
<1>2. ASSUME Run, history = <<>>
      PROVE  history' \in Seq(Messages) /\ history' # <<>> /\ history'[1] = FirstMessage
  BY <1>1, <1>2, SaidIs, Appended DEF Run, UserMessage, FirstMessage
<1> QED
  BY <1>1, <1>2, KeepsNext DEF Keeps, HeadKept, FirstMessage


-----------------------------------------------------------------------------
(* Types.                                                                  *)

LEMMA DescribedIs ==
  ASSUME calls \in Seq(Calls), answers \in Nat, NEW n \in 1..MaxCalls, NEW name \in Names
  PROVE  Described(n, name) \in Seq(Calls)
<1> DEFINE new   == [id |-> <<answers, n>>, name |-> name]
           blank == [id |-> NoId, name |-> "empty"]
           m     == IF n > Len(calls) THEN n ELSE Len(calls)
           e(k)  == IF k = n /\ name # "empty" THEN new ELSE IF k <= Len(calls) THEN calls[k] ELSE blank
<1>1. Len(calls) \in Nat /\ m \in Nat /\ MaxCalls \in Nat
  BY LenProperties, BoundsAssumption
<1>2. \A k \in 1..Len(calls) : calls[k] \in Calls
  BY ElementOfSeq
<1>3. new \in Calls /\ blank \in Calls
  BY DEF Calls, Ids, Names
<1>4. Described(n, name) = [k \in 1..m |-> e(k)]
  BY DEF Described
<1> HIDE DEF new, blank
<1>5. \A k \in 1..m : e(k) \in Calls
  BY <1>1, <1>2, <1>3
<1> HIDE DEF m, e
<1>6. [k \in 1..m |-> e(k)] \in [1..m -> Calls]
  BY <1>5
<1> QED
  BY <1>1, <1>4, <1>6

LEMMA SignatureIs ==
  ASSUME calls \in Seq(Calls)
  PROVE  Signature \in Seq(Names)
<1>1. \A k \in 1..Len(calls) : calls[k].name \in Names
  <2>1. \A k \in 1..Len(calls) : calls[k] \in Calls
    BY ElementOfSeq
  <2> QED
    BY <2>1 DEF Calls
<1>2. Len(calls) \in Nat
  BY LenProperties
<1> QED
  BY <1>1, <1>2 DEF Signature

LEMMA AnswerTypesNext == Inv /\ [Next]_vars => AnswerTypes'
<1> SUFFICES ASSUME Inv, [Next]_vars PROVE AnswerTypes'
  OBVIOUS
<1> DEFINE SC == Seq(Calls)
           SN == Seq(Names)
           Goal == /\ answers' \in Nat /\ chunks' \in 0..MaxChunks /\ text' \in Texts
                   /\ calls' \in SC /\ at' \in Nat /\ final' \in BOOLEAN /\ last' \in Texts
                   /\ sig' \in SN /\ repeats' \in Nat /\ iter' \in Nat
<1> SUFFICES Goal
  BY DEF AnswerTypes
<1>0. /\ answers \in Nat /\ chunks \in 0..MaxChunks /\ text \in Texts
      /\ calls \in SC /\ at \in Nat /\ final \in BOOLEAN /\ last \in Texts
      /\ sig \in SN /\ repeats \in Nat /\ iter \in Nat
      /\ 0 \in 0..MaxChunks
  BY BoundsAssumption DEF Inv, TypeOK, AnswerTypes
<1>e. <<>> \in SC /\ <<>> \in SN
  BY EmptySeq
<1>s. Signature \in SN
  BY SignatureIs DEF Inv, TypeOK, AnswerTypes
<1> HIDE DEF SC, SN
<1> USE DEF stream, detector, tooling, Texts, Leave, Looping
<1>1. CASE Run \/ Continue
  BY <1>0, <1>1 DEF Run, Continue, Enter
<1>2. CASE SecondMessage \/ Intervene \/ Stop \/ StopStep \/ Deadline
  BY <1>0, <1>2 DEF SecondMessage, Intervene, Stop, StopStep, StopUnchanged, Deadline
<1>3. CASE Return
  BY <1>0, <1>e, <1>3 DEF Return, Forget
<1>4. CASE Top \/ Compress \/ StreamEnds
  BY <1>0, <1>4 DEF Top, Compress, StreamEnds
<1>5. CASE Wait
  BY <1>0, <1>e, <1>5 DEF Wait
<1>6. CASE Chunk
  <2>1. chunks' \in 0..MaxChunks
    BY <1>0, <1>6, BoundsAssumption DEF Chunk
  <2>2. calls' = calls \/ \E n \in 1..MaxCalls, name \in Names : calls' = Described(n, name)
    BY <1>6 DEF Chunk
  <2>3. calls' \in SC
    BY <1>0, <2>2, DescribedIs DEF SC
  <2> QED
    BY <1>0, <1>6, <2>1, <2>3 DEF Chunk
<1>7. CASE StreamFails
  BY <1>0, <1>e, <1>7 DEF StreamFails, Forget
<1>8. CASE WarnOfText
  BY <1>0, <1>e, <1>8 DEF WarnOfText, Forget, NextIteration
<1>9. CASE WarnOfCalls
  BY <1>0, <1>e, <1>9 DEF WarnOfCalls, Forget, NextIteration
<1>10. CASE CallTools
  <2>1. repeats' = repeats + 1 \/ repeats' = 0
    BY <1>10 DEF CallTools
  <2>2. repeats' \in Nat
    BY <1>0, <2>1
  <2>3. /\ chunks' = 0 /\ text' = "empty" /\ last' = text /\ sig' = Signature /\ at' = 1
        /\ final' = FALSE /\ answers' = answers /\ calls' = calls /\ iter' = iter
    BY <1>10 DEF CallTools
  <2> QED
    BY <1>0, <1>s, <2>2, <2>3
<1>11. CASE Respond
  BY <1>0, <1>e, <1>11 DEF Respond, Forget, NextIteration
<1>12. CASE Register
  BY <1>0, <1>12 DEF Register, toolUnchanged
<1>13. CASE BeforeCall
  BY <1>0, <1>13 DEF BeforeCall, GiveUp, toolUnchanged
<1>14. CASE ToolReturns
  <2>1. final' \in BOOLEAN
    <3>1. final' = final \/ \E failed \in BOOLEAN :
            final' = (final \/ (~failed /\ calls[at].name = "response"))
      BY <1>14, Zenon DEF ToolReturns, GiveUp
    <3> QED
      BY <1>0, <3>1, Zenon
  <2>2. at' = at \/ at' = at + 1
    BY <1>14 DEF ToolReturns, GiveUp
  <2>3. iter' = iter
    BY <1>14 DEF ToolReturns, GiveUp
  <2> QED
    BY <1>0, <1>14, <2>1, <2>2, <2>3 DEF ToolReturns, toolUnchanged
<1>15. CASE ToolTimeout \/ AfterCalls
  BY <1>0, <1>15 DEF ToolTimeout, AfterCalls, toolUnchanged, NextIteration
<1>16. CASE UNCHANGED vars
  BY <1>0, <1>16 DEF vars
<1> QED
  BY <1>1, <1>2, <1>3, <1>4, <1>5, <1>6, <1>7, <1>8, <1>9, <1>10, <1>11, <1>12, <1>13, <1>14,
     <1>15, <1>16 DEF Next, HubStep, LoopStep

LEMMA CtlNext ==
  ASSUME Inv, [Next]_vars
  PROVE  ctl' \in Controls
<1>0. ctl \in Controls
  BY DEF Inv
<1>1. CASE Stop
  <2>1. CancelSteps \in Controls /\ PauseSteps \in Controls
    BY DEF CancelSteps, PauseSteps, Controls
  <2> QED
    BY <1>1, <2>1 DEF Stop
<1>2. CASE StopStep
  <2>1. /\ Tail(<<"flag", "tools", "context">>) = <<"tools", "context">>
        /\ Tail(<<"tools", "context">>) = <<"context">>
        /\ Tail(<<"pause", "context">>) = <<"context">> /\ Tail(<<"context">>) = <<>>
    OBVIOUS
  <2>2. ctl' = Tail(ctl) /\ ctl # <<>>
    BY <1>2 DEF StopStep
  <2> QED
    BY <1>0, <2>1, <2>2 DEF Controls
<1>3. CASE UNCHANGED ctl
  BY <1>0, <1>3
<1>4. Stop \/ StopStep \/ UNCHANGED ctl
  BY DEF Next, HubStep, LoopStep, vars, Run, Continue, Enter, SecondMessage, Intervene, Return,
         Top, Compress, Wait, Chunk, StreamEnds, StreamFails, WarnOfText, WarnOfCalls, CallTools,
         Respond, Register, BeforeCall, ToolReturns, AfterCalls, Deadline, ToolTimeout,
         control, loopUnchanged, toolUnchanged
<1> QED
  BY <1>1, <1>2, <1>3, <1>4

LEMMA RunTypesNext == Inv /\ [Next]_vars => RunTypes'
<1> SUFFICES ASSUME Inv, [Next]_vars PROVE RunTypes'
  OBVIOUS
<1>c. ctl' \in Seq({"flag", "pause", "tools", "context"})
  <2> DEFINE S == {"flag", "pause", "tools", "context"}
  <2>1. <<>> \in Seq(S)
    BY EmptySeq
  <2>2. <<"flag", "tools", "context">> \in Seq(S)
    OBVIOUS
  <2>3. <<"tools", "context">> \in Seq(S)
    OBVIOUS
  <2>4. <<"context">> \in Seq(S)
    OBVIOUS
  <2>5. <<"pause", "context">> \in Seq(S)
    OBVIOUS
  <2>6. \A c \in Controls : c \in Seq(S)
    BY <2>1, <2>2, <2>3, <2>4, <2>5, Zenon DEF Controls
  <2> QED
    BY <2>6, CtlNext
<1> DEFINE Rest ==
      /\ pc \in Points /\ outcome \in {"none", "response", "cancelled", "paused", "error"}
      /\ resumed \in BOOLEAN /\ runs \in 0..MaxRuns /\ events \in 0..MaxEvents
      /\ slot \in BOOLEAN /\ paused \in BOOLEAN /\ cancelled \in BOOLEAN
      /\ ctx \in {"live", "stopped", "expired"} /\ toolCtx \in {"none", "live", "done"}
      /\ registered \in BOOLEAN /\ entry \in {"none", "this", "other"}
<1> SUFFICES Rest'
  BY <1>c DEF RunTypes
<1>0. Rest
  BY DEF Inv, TypeOK, RunTypes
<1> USE DEF Points, tooling, runInfo, common, flags, control, loopUnchanged, toolUnchanged, Leave,
            StopResult
<1>1. CASE Run \/ Continue
  <2>1. runs' \in 0..MaxRuns
    BY <1>0, <1>1, BoundsAssumption DEF Run, Continue, Enter
  <2> QED
    BY <1>0, <1>1, <2>1 DEF Run, Continue, Enter
<1>2. CASE SecondMessage \/ Intervene \/ Stop
  <2>1. events' \in 0..MaxEvents
    BY <1>0, <1>2, BoundsAssumption DEF SecondMessage, Intervene, Stop, Event
  <2> QED
    BY <1>0, <1>2, <2>1 DEF SecondMessage, Intervene, Stop, StopUnchanged
<1>3. CASE StopStep
  BY <1>0, <1>3 DEF StopStep, StopUnchanged
<1>4. CASE Deadline \/ Return
  BY <1>0, <1>4 DEF Deadline, StopUnchanged, Return
<1>5. CASE Top \/ Compress \/ Wait \/ Chunk \/ StreamEnds \/ StreamFails
  BY <1>0, <1>5 DEF Top, Compress, Wait, Chunk, StreamEnds, StreamFails
<1>6. CASE WarnOfText \/ WarnOfCalls \/ CallTools \/ Respond
  BY <1>0, <1>6 DEF WarnOfText, WarnOfCalls, CallTools, Respond, NextIteration
<1>7. CASE Register \/ BeforeCall
  BY <1>0, <1>7 DEF Register, BeforeCall, GiveUp
<1>8. CASE ToolReturns
  BY <1>0, <1>8 DEF ToolReturns, GiveUp
<1>9. CASE AfterCalls \/ ToolTimeout
  BY <1>0, <1>9 DEF AfterCalls, ToolTimeout, NextIteration
<1>10. CASE UNCHANGED vars
  BY <1>0, <1>10 DEF vars
<1> QED
  BY <1>1, <1>2, <1>3, <1>4, <1>5, <1>6, <1>7, <1>8, <1>9, <1>10 DEF Next, HubStep, LoopStep

LEMMA StartedNext == Inv /\ [Next]_vars => Started'
<1> SUFFICES ASSUME Inv, [Next]_vars PROVE Started'
  OBVIOUS
<1>0. Started /\ pc \in Points /\ ctl \in Controls
  BY DEF Inv, TypeOK, RunTypes
<1>1. CASE history # <<>>
  <2>1. history' # <<>>
    BY <1>1, KeepsNext DEF Keeps
  <2> QED
    BY <2>1 DEF Started
<1>2. CASE history = <<>> /\ Run
  <2>1. history' # <<>>
    BY <1>2, SaidIs, Appended DEF Run, UserMessage, Inv, TypeOK, FirstMessage
  <2> QED
    BY <2>1 DEF Started
<1>3. CASE history = <<>> /\ ~Run
  <2>1. pc = "idle" /\ entry = "none" /\ ctl = <<>> /\ ~paused
    BY <1>0, <1>3 DEF Started
  <2>2. UNCHANGED vars
    BY <1>3, <2>1 DEF Next, HubStep, LoopStep, Continue, SecondMessage, Intervene, Stop,
           StopStep, Return, Top, Compress, Wait, Chunk, StreamEnds, StreamFails, WarnOfText,
           WarnOfCalls, CallTools, Respond, Register, BeforeCall, ToolReturns, AfterCalls,
           Deadline, ToolTimeout
  <2> QED
    BY <1>0, <2>2 DEF vars, Started
<1> QED
  BY <1>1, <1>2, <1>3

LEMMA InToolNext == Inv /\ [Next]_vars => InTool'
<1> SUFFICES ASSUME Inv, [Next]_vars PROVE InTool'
  OBVIOUS
<1>0. InTool /\ at \in Nat /\ pc \in Points
  BY DEF Inv, TypeOK, AnswerTypes, RunTypes
<1> USE DEF InTool, tooling, stream, loopUnchanged, toolUnchanged, StopUnchanged, Leave
<1>1. CASE Run \/ Continue \/ SecondMessage \/ Intervene \/ Stop \/ StopStep \/ Deadline \/ Return
  BY <1>0, <1>1 DEF Run, Continue, Enter, SecondMessage, Intervene, Stop, StopStep, Deadline, Return
<1>2. CASE Top \/ Compress \/ Wait \/ Chunk \/ StreamEnds \/ StreamFails
  BY <1>0, <1>2 DEF Top, Compress, Wait, Chunk, StreamEnds, StreamFails
<1>3. CASE WarnOfText \/ WarnOfCalls \/ Respond
  BY <1>0, <1>3 DEF WarnOfText, WarnOfCalls, Respond, NextIteration
<1>4. CASE CallTools \/ Register \/ ToolTimeout
  <2>1. CASE CallTools
    <3>1. pc' = "register" /\ at' = 1
      BY <2>1 DEF CallTools
    <3> QED
      BY <3>1
  <2>2. CASE Register
    BY <1>0, <2>2 DEF Register
  <2>3. CASE ToolTimeout
    BY <1>0, <2>3 DEF ToolTimeout
  <2> QED
    BY <1>4, <2>1, <2>2, <2>3
<1>5. CASE BeforeCall
  <2>1. pc = "call" /\ at <= Len(calls) /\ calls' = calls
    BY <1>5 DEF BeforeCall
  <2>2. CASE pc' = "return"
    BY <2>2
  <2>3. CASE pc' = "tool"
    <3>1. registered' = registered /\ at' = at
      BY <1>5, <2>3 DEF BeforeCall, GiveUp
    <3> QED
      BY <1>0, <2>1, <2>3, <3>1
  <2>4. CASE pc' = "call"
    <3>1. registered' = registered /\ (at' = at \/ at' = at + 1)
      BY <1>5, <2>4 DEF BeforeCall, GiveUp
    <3> QED
      BY <1>0, <2>1, <2>4, <3>1
  <2>5. pc' \in {"return", "tool", "call"}
    BY <1>5 DEF BeforeCall, GiveUp
  <2> QED
    BY <2>2, <2>3, <2>4, <2>5
<1>6. CASE ToolReturns \/ AfterCalls
  BY <1>0, <1>6 DEF ToolReturns, AfterCalls, GiveUp, NextIteration
<1>7. CASE UNCHANGED vars
  BY <1>0, <1>7 DEF vars
<1> QED
  BY <1>1, <1>2, <1>3, <1>4, <1>5, <1>6, <1>7 DEF Next, HubStep, LoopStep

LEMMA InvInit == Init => Inv /\ HeadKept /\ ToolInv /\ StopInv
<1> SUFFICES ASSUME Init PROVE Inv /\ HeadKept /\ ToolInv /\ StopInv
  OBVIOUS
<1>1. AnswerTypes
  <2>1. <<>> \in Seq(Calls) /\ <<>> \in Seq(Names) /\ 0 \in 0..MaxChunks
    BY EmptySeq, BoundsAssumption
  <2> QED
    BY <2>1 DEF Init, AnswerTypes, Texts
<1>2. RunTypes
  <2>1. ctl \in Seq({"flag", "pause", "tools", "context"}) /\ 0 \in 0..MaxRuns /\ 0 \in 0..MaxEvents
    BY EmptySeq, BoundsAssumption DEF Init
  <2> QED
    BY <2>1 DEF Init, RunTypes, Points
<1>3. history \in Seq(Messages)
  BY EmptySeq DEF Init
<1>4. Started /\ InTool /\ ctl \in Controls /\ HeadKept /\ ToolInv /\ StopInv
  BY DEF Init, Started, InTool, Controls, HeadKept, ToolInv, StopInv
<1> QED
  BY <1>1, <1>2, <1>3, <1>4 DEF Inv, TypeOK

LEMMA InvNext == Inv /\ [Next]_vars => Inv'
BY HistoryNext, AnswerTypesNext, RunTypesNext, StartedNext, InToolNext, CtlNext DEF Inv, TypeOK

(* Every variable of the loop and of what stops it stays in its type.      *)
THEOREM TypeCorrect == Spec => []TypeOK
<1>1. Spec => []Inv
  BY InvInit, InvNext, PTL DEF Spec
<1> QED
  BY <1>1, PTL DEF Inv

(* The message a conversation began with survives every compression and    *)
(* every pruning, also when the summary failed.                            *)
THEOREM HeadKeptCorrect == Spec => []HeadKept
<1>1. Inv /\ HeadKept /\ [Next]_vars => HeadKept'
  BY HistoryNext
<1> QED
  BY <1>1, InvInit, InvNext, PTL DEF Spec

-----------------------------------------------------------------------------
(* The prompt.                                                             *)

Fits == pc \in {"wait", "llm"} => Len(history) <= MaxHistory

LEMMA FitsNext ==
  ASSUME Inv, Fits, [Next]_vars
  PROVE  Fits'
<1>0. history \in Seq(Messages) /\ (pc # "idle" => history # <<>>)
  BY DEF Inv, TypeOK, Started
<1>1. CASE Compress
  <2>1. PICK h \in Compressed(history) : history' = Pruned(h)
    BY <1>1 DEF Compress
  <2>2. h \in Seq(Messages) /\ h # <<>>
    BY <1>0, <1>1, <2>1, CompressedSeq DEF Compress
  <2> QED
    BY <2>1, <2>2, PrunedSeq DEF Fits
<1>2. CASE Wait \/ Chunk
  <2>1. history' = history /\ pc \in {"wait", "llm"}
    BY <1>2 DEF Wait, Chunk
  <2> QED
    BY <2>1 DEF Fits
<1>3. CASE SecondMessage \/ Intervene \/ Stop \/ StopStep \/ Deadline \/ ToolTimeout
  <2>1. history' = history /\ pc' = pc
    BY <1>3 DEF SecondMessage, Intervene, Stop, StopStep, StopUnchanged, Deadline, ToolTimeout
  <2> QED
    BY <2>1 DEF Fits
<1>4. CASE UNCHANGED vars
  <2>1. history' = history /\ pc' = pc
    BY <1>4 DEF vars
  <2> QED
    BY <2>1 DEF Fits
<1>5. CASE \/ Run \/ Continue \/ Return \/ Top \/ StreamEnds \/ StreamFails \/ WarnOfText
           \/ WarnOfCalls \/ CallTools \/ Respond \/ Register \/ BeforeCall \/ ToolReturns
           \/ AfterCalls
  <2>1. CASE Run \/ Continue \/ Return \/ Top \/ StreamEnds \/ StreamFails
    <3>1. pc' \in {"top", "idle", "return", "compress", "answered"}
      BY <2>1 DEF Run, Continue, Enter, Return, Top, StreamEnds, StreamFails, Leave
    <3> QED
      BY <3>1 DEF Fits
  <2>2. CASE WarnOfText \/ WarnOfCalls \/ CallTools \/ Respond
    <3>1. pc' \in {"top", "return", "register"}
      BY <2>2 DEF WarnOfText, WarnOfCalls, CallTools, Respond, NextIteration, Leave
    <3> QED
      BY <3>1 DEF Fits
  <2>3. CASE Register \/ BeforeCall \/ ToolReturns \/ AfterCalls
    <3>1. pc' \in {"call", "tool", "top", "return"}
      BY <2>3 DEF Register, BeforeCall, ToolReturns, AfterCalls, GiveUp, NextIteration, Leave
    <3> QED
      BY <3>1 DEF Fits
  <2> QED
    BY <1>5, <2>1, <2>2, <2>3
<1> QED
  BY <1>1, <1>2, <1>3, <1>4, <1>5 DEF Next, HubStep, LoopStep

(* The LLM is never sent more than maxHistoryMessages messages, whatever   *)
(* the thresholds of the compression are and whether or not it failed.     *)
THEOREM PromptBoundedCorrect == Spec => []PromptBounded
<1>1. Init => Fits
  BY DEF Init, Fits
<1>2. Fits => PromptBounded
  BY DEF Fits, PromptBounded
<1> QED
  BY <1>1, <1>2, InvInit, InvNext, FitsNext, PTL DEF Spec

-----------------------------------------------------------------------------
(* The tool that runs.                                                     *)

LEMMA ToolInvNext ==
  ASSUME Inv, ToolInv, [Next]_vars
  PROVE  ToolInv'
<1>0. InTool /\ ctl \in Controls /\ cancelled \in BOOLEAN
  BY DEF Inv, TypeOK, RunTypes
<1>1. CASE StopStep
  <2>1. pc' = pc
    BY <1>1 DEF StopStep, StopUnchanged
  <2>2. SUFFICES ASSUME pc = "tool", cancelled', toolCtx' = "live"
                 PROVE  ctl' = <<"tools", "context">>
    BY <2>1 DEF ToolInv
  <2>3. registered /\ ctl # <<>>
    BY <1>0, <1>1, <2>2 DEF InTool, StopStep
  <2>4. toolCtx = "live" /\ Head(ctl) # "tools"
    BY <1>1, <2>2, <2>3 DEF StopStep
  <2>5. CASE cancelled
    <3>1. ctl = <<"tools", "context">>
      BY <2>2, <2>4, <2>5 DEF ToolInv
    <3>2. Head(ctl) = "tools"
      BY <3>1
    <3> QED
      BY <2>4, <3>2
  <2>6. CASE ~cancelled
    <3>1. Head(ctl) = "flag"
      BY <1>1, <2>2, <2>6 DEF StopStep
    <3>2. ctl = <<"flag", "tools", "context">>
      BY <1>0, <2>3, <3>1 DEF Controls
    <3>3. Tail(<<"flag", "tools", "context">>) = <<"tools", "context">>
      OBVIOUS
    <3> QED
      BY <1>1, <3>2, <3>3 DEF StopStep
  <2> QED
    BY <2>5, <2>6
<1>2. CASE Stop \/ SecondMessage
  <2>1. /\ pc' = pc /\ toolCtx' = toolCtx /\ ctl = <<>>
        /\ cancelled' = cancelled \/ cancelled' = FALSE
    BY <1>2 DEF Stop, StopUnchanged, SecondMessage, flags, tooling
  <2>2. <<>> # <<"tools", "context">>
    OBVIOUS
  <2> QED
    BY <2>1, <2>2 DEF ToolInv
<1>3. CASE Intervene \/ Deadline
  <2>1. pc' = pc /\ toolCtx' = toolCtx /\ cancelled' = cancelled /\ ctl' = ctl
    BY <1>3 DEF Intervene, Deadline, StopUnchanged, flags, tooling, control
  <2> QED
    BY <2>1 DEF ToolInv
<1>4. CASE ToolTimeout
  BY <1>4 DEF ToolTimeout, ToolInv
<1>5. CASE BeforeCall
  <2>1. pc' = "tool" => ~cancelled'
    BY <1>5 DEF BeforeCall, GiveUp, Leave, toolUnchanged, loopUnchanged, flags
  <2> QED
    BY <2>1 DEF ToolInv
<1>6. CASE UNCHANGED vars
  BY <1>6 DEF vars, ToolInv
<1>7. CASE \/ Run \/ Continue \/ Return \/ Top \/ Compress \/ Wait \/ Chunk \/ StreamEnds
           \/ StreamFails \/ WarnOfText \/ WarnOfCalls \/ CallTools \/ Respond \/ Register
           \/ ToolReturns \/ AfterCalls
  <2>1. CASE Run \/ Continue \/ Return \/ Top \/ Compress \/ Wait \/ Chunk \/ StreamEnds
    <3>1. pc' # "tool"
      BY <2>1 DEF Run, Continue, Enter, Return, Top, Compress, Wait, Chunk, StreamEnds, Leave
    <3> QED
      BY <3>1 DEF ToolInv
  <2>2. CASE StreamFails \/ WarnOfText \/ WarnOfCalls \/ CallTools \/ Respond
    <3>1. pc' # "tool"
      BY <2>2 DEF StreamFails, WarnOfText, WarnOfCalls, CallTools, Respond, NextIteration, Leave
    <3> QED
      BY <3>1 DEF ToolInv
  <2>3. CASE Register \/ ToolReturns \/ AfterCalls
    <3>1. pc' # "tool"
      BY <2>3 DEF Register, ToolReturns, AfterCalls, GiveUp, NextIteration, Leave
    <3> QED
      BY <3>1 DEF ToolInv
  <2> QED
    BY <1>7, <2>1, <2>2, <2>3
<1> QED
  BY <1>1, <1>2, <1>3, <1>4, <1>5, <1>6, <1>7 DEF Next, HubStep, LoopStep

(* When a cancel has been through CancelTools and its flag is still set,   *)
(* the tool that runs has a cancelled context: the registration before the *)
(* look at the flag leaves the cancel no moment to miss the tool.          *)
THEOREM CancelReachesToolCorrect == Spec => []CancelReachesTool
<1>1. ToolInv => CancelReachesTool
  <2>1. ASSUME ctl = <<"tools", "context">> PROVE "tools" \in {ctl[k] : k \in 1..Len(ctl)}
    <3>1. Len(ctl) = 2 /\ ctl[1] = "tools"
      BY <2>1
    <3> QED
      BY <3>1
  <2> QED
    BY <2>1 DEF ToolInv, CancelReachesTool
<1> QED
  BY <1>1, InvInit, InvNext, ToolInvNext, PTL DEF Spec

-----------------------------------------------------------------------------
(* How a stopped run ends.                                                 *)

LEMMA StopInvNext ==
  ASSUME Inv, StopInv, [Next]_vars
  PROVE  StopInv'
<1>0. ctl \in Controls /\ cancelled \in BOOLEAN /\ paused \in BOOLEAN
  BY DEF Inv, TypeOK, RunTypes
<1>e. <<>> # <<"tools", "context">> /\ <<>> # <<"context">>
  OBVIOUS
<1>1. CASE Run \/ Continue
  <2>1. ctl' = <<>> /\ ctx' = "live"
    BY <1>1 DEF Run, Continue, Enter
  <2> QED
    BY <1>e, <2>1 DEF StopInv
<1>2. CASE Return
  <2>1. ctl' = <<>> /\ pc' = "idle"
    BY <1>2 DEF Return
  <2> QED
    BY <1>e, <2>1 DEF StopInv
<1>3. CASE SecondMessage
  <2>1. ctl' = <<>> /\ entry' = "other"
    BY <1>3 DEF SecondMessage
  <2> QED
    BY <1>e, <2>1 DEF StopInv
<1>4. CASE Stop
  <2>1. /\ ctl' \in {<<"flag", "tools", "context">>, <<"pause", "context">>}
        /\ UNCHANGED <<cancelled, paused, ctx, entry, pc>>
    BY <1>4 DEF Stop, CancelSteps, PauseSteps, flags, StopUnchanged
  <2>2. /\ <<"flag", "tools", "context">> # <<"tools", "context">>
        /\ <<"flag", "tools", "context">> # <<"context">>
        /\ <<"pause", "context">> # <<"tools", "context">>
        /\ <<"pause", "context">> # <<"context">>
    OBVIOUS
  <2> QED
    BY <2>1, <2>2 DEF StopInv
<1>5. CASE StopStep
  <2> DEFINE Named == cancelled \/ paused
  <2>1. pc' = pc /\ (Named => Named')
    BY <1>5 DEF StopStep, StopUnchanged
  <2>2. CASE Head(ctl) \in {"flag", "pause"}
    <3>1. Named' /\ ctx' = ctx
      BY <1>5, <2>2 DEF StopStep
    <3> QED
      BY <3>1 DEF StopInv
  <2>3. CASE Head(ctl) \notin {"flag", "pause"}
    <3>1. Head(<<"flag", "tools", "context">>) = "flag" /\ Head(<<"pause", "context">>) = "pause"
      OBVIOUS
    <3>2. ctl \in {<<"tools", "context">>, <<"context">>}
      BY <1>0, <1>5, <2>3, <3>1 DEF StopStep, Controls
    <3>3. Named
      BY <3>2 DEF StopInv
    <3> QED
      BY <2>1, <3>3 DEF StopInv
  <2> QED
    BY <2>2, <2>3
<1>6. CASE Deadline
  <2>1. ctx' = "expired" /\ UNCHANGED <<ctl, cancelled, paused>>
    BY <1>6 DEF Deadline, flags, control
  <2> QED
    BY <2>1 DEF StopInv
<1>7. CASE Intervene \/ ToolTimeout
  <2>1. UNCHANGED <<ctl, cancelled, paused, ctx, pc, entry>>
    BY <1>7 DEF Intervene, ToolTimeout, toolUnchanged, loopUnchanged, flags, control
  <2> QED
    BY <2>1 DEF StopInv
<1>8. CASE LoopStep
  <2>1. UNCHANGED <<ctl, cancelled, paused, ctx, entry>>
    BY <1>8 DEF LoopStep, Top, Compress, Wait, Chunk, StreamEnds, StreamFails, WarnOfText,
           WarnOfCalls, CallTools, Respond, Register, BeforeCall, ToolReturns, AfterCalls,
           toolUnchanged, loopUnchanged, flags, control
  <2>2. pc \notin {"idle", "return"}
    BY <1>8 DEF LoopStep, Top, Compress, Wait, Chunk, StreamEnds, StreamFails, WarnOfText,
           WarnOfCalls, CallTools, Respond, Register, BeforeCall, ToolReturns, AfterCalls
  <2> QED
    BY <2>1, <2>2 DEF StopInv
<1>9. CASE UNCHANGED vars
  BY <1>9 DEF vars, StopInv
<1> QED
  BY <1>1, <1>2, <1>3, <1>4, <1>5, <1>6, <1>7, <1>8, <1>9 DEF Next, HubStep

LEMMA ErrorIsExplained ==
  ASSUME Inv, StopInv, Next, pc' = "return", pc # "return", outcome' = "error", iter' < MaxIter
  PROVE  ctx # "stopped" \/ entry = "other"
<1>0. iter \in Nat /\ MaxIter \in Nat
  BY BoundsAssumption DEF Inv, TypeOK, AnswerTypes
<1>1. CASE Top
  <2>1. outcome' = StopResult /\ pc = "top"
    BY <1>1 DEF Top, Leave
  <2> QED
    BY <2>1 DEF StopResult, StopInv
<1>2. CASE Wait
  <2>1. outcome' = StopResult /\ pc = "wait"
    BY <1>2 DEF Wait, Leave
  <2> QED
    BY <2>1 DEF StopResult, StopInv
<1>3. CASE StreamFails
  <2>1. outcome' = StopResult /\ pc = "llm"
    BY <1>3 DEF StreamFails, Leave
  <2> QED
    BY <2>1 DEF StopResult, StopInv
<1>4. CASE BeforeCall
  <2>1. outcome' = StopResult /\ (cancelled \/ paused)
    BY <1>4 DEF BeforeCall, GiveUp, Leave
  <2> QED
    BY <2>1 DEF StopResult
<1>5. CASE ToolReturns
  <2>1. outcome' = "cancelled"
    BY <1>5 DEF ToolReturns, GiveUp, Leave
  <2> QED
    BY <2>1
<1>6. CASE WarnOfText \/ WarnOfCalls \/ Respond \/ AfterCalls
  <2>1. iter' = iter + 1 /\ (iter + 1 < MaxIter => pc' = "top")
    BY <1>6 DEF WarnOfText, WarnOfCalls, Respond, AfterCalls, NextIteration, Leave
  <2> QED
    BY <1>0, <2>1
<1>7. CASE HubStep
  <2>1. pc' # "return" \/ pc' = pc
    BY <1>7 DEF HubStep, Run, Continue, Enter, SecondMessage, Intervene, Stop, StopStep,
           StopUnchanged, Return
  <2> QED
    BY <2>1
<1>8. CASE Deadline \/ ToolTimeout
  <2>1. pc' = pc
    BY <1>8 DEF Deadline, StopUnchanged, ToolTimeout
  <2> QED
    BY <2>1
<1>9. CASE Compress \/ Chunk \/ StreamEnds \/ CallTools \/ Register
  <2>1. pc' # "return"
    BY <1>9 DEF Compress, Chunk, StreamEnds, CallTools, Register
  <2> QED
    BY <2>1
<1> QED
  BY <1>1, <1>2, <1>3, <1>4, <1>5, <1>6, <1>7, <1>8, <1>9 DEF Next, LoopStep

(* A run whose context a cancel or a pause has ended returns ErrCancelled  *)
(* or ErrPaused wherever the loop notices the end, unless a second message *)
(* has reset the flags or the iterations ran out.                          *)
THEOREM StopIsNamedCorrect == Spec => StopIsNamed
<1>1. Inv /\ StopInv /\ [Next]_vars =>
        [pc' = "return" /\ pc # "return" /\ outcome' = "error" /\ iter' < MaxIter
           => ctx # "stopped" \/ entry = "other"]_vars
  BY ErrorIsExplained
<1> QED
  BY <1>1, InvInit, InvNext, StopInvNext, PTL DEF Spec, StopIsNamed

-----------------------------------------------------------------------------
(* The results of the calls.  AnsweredBut: every assistant message has its *)
(* results, but perhaps the one at x.  Open: the last assistant message,   *)
(* at p, makes the calls c and has the results of the first n.             *)

AnsweredBut(h, x) ==
  \A p \in 1..Len(h) : h[p].role = "assistant" /\ p # x => AnsweredTo(h, p, Len(h[p].calls))

Open(h, p, c, n) ==
  /\ p \in 1..Len(h) /\ h[p].role = "assistant" /\ h[p].calls = IdsOf(c)
  /\ \A r \in (p + 1)..Len(h) : h[r].role # "assistant"
  /\ AnsweredTo(h, p, n)
  /\ AnsweredBut(h, p)

Asking == \E p \in 1..Len(history) : at \in 1..(Len(calls) + 1) /\ Open(history, p, calls, at - 1)

AnswerInv ==
  IF pc \in {"register", "call", "tool"} THEN Asking ELSE AnsweredBut(history, 0)

Longer(h, g) == Len(h) <= Len(g) /\ \A i \in 1..Len(h) : g[i] = h[i]

(* New messages that are no tool's or come after another assistant message *)
(* add no result.                                                          *)
LEMMA ResultsStay ==
  ASSUME NEW h \in Seq(Messages), NEW g \in Seq(Messages), Longer(h, g),
         NEW p \in 1..Len(h), NEW n \in Nat, AnsweredTo(h, p, n),
         \A q \in (Len(h) + 1)..Len(g) :
           g[q].role # "tool" \/ \E r \in (p + 1)..q : g[r].role = "assistant"
  PROVE  AnsweredTo(g, p, n)
<1>1. Len(h) \in Nat /\ Len(g) \in Nat
  BY LenProperties
<1>2. Results(g, p) = Results(h, p)
  <2>1. ASSUME NEW q \in Results(h, p) PROVE q \in Results(g, p)
    BY <1>1, <2>1 DEF Results, Longer
  <2>2. ASSUME NEW q \in Results(g, p) PROVE q \in Results(h, p)
    <3>1. q <= Len(h)
      BY <1>1, <2>2 DEF Results
    <3> QED
      BY <1>1, <2>2, <3>1 DEF Results, Longer
  <2> QED
    BY <2>1, <2>2
<1>3. PICK f \in [1..n -> Results(h, p)] :
        /\ \A q \in Results(h, p) : \E k \in 1..n : f[k] = q
        /\ \A j, k \in 1..n : j < k => f[j] < f[k]
        /\ \A k \in 1..n : h[f[k]].id = h[p].calls[k]
  BY DEF AnsweredTo
<1>4. \A k \in 1..n : f[k] \in 1..Len(h)
  BY <1>1, <1>3 DEF Results
<1>5. \A k \in 1..n : g[f[k]].id = g[p].calls[k]
  BY <1>3, <1>4 DEF Longer
<1> QED
  BY <1>2, <1>3, <1>5 DEF AnsweredTo

(* The results of the next calls, after the last assistant message.        *)
LEMMA ResultsGrow ==
  ASSUME NEW h \in Seq(Messages), NEW g \in Seq(Messages), Longer(h, g),
         NEW p \in 1..Len(h), NEW n \in Nat, AnsweredTo(h, p, n),
         NEW m \in Nat, Len(g) = Len(h) + m,
         \A r \in (p + 1)..Len(h) : h[r].role # "assistant",
         \A i \in 1..m : g[Len(h) + i].role = "tool" /\ g[Len(h) + i].id = h[p].calls[n + i]
  PROVE  AnsweredTo(g, p, n + m)
<1>1. Len(h) \in Nat /\ Len(g) \in Nat
  BY LenProperties
<1>2. \A r \in (p + 1)..Len(g) : g[r].role # "assistant"
  <2> SUFFICES ASSUME NEW r \in (p + 1)..Len(g) PROVE g[r].role # "assistant"
    OBVIOUS
  <2>1. CASE r <= Len(h)
    BY <1>1, <2>1 DEF Longer
  <2>2. CASE r > Len(h)
    <3>1. r - Len(h) \in 1..m /\ Len(h) + (r - Len(h)) = r
      BY <1>1, <2>2
    <3>2. g[r].role = "tool"
      BY <3>1
    <3> QED
      BY <3>2
  <2> QED
    BY <1>1, <2>1, <2>2
<1>3. ASSUME NEW q \in 1..Len(h) PROVE q \in Results(g, p) <=> q \in Results(h, p)
  BY <1>1, <1>2, <1>3 DEF Results, Longer
<1>4. ASSUME NEW i \in 1..m PROVE Len(h) + i \in Results(g, p)
  <2> DEFINE q == Len(h) + i
  <2>1. q \in (p + 1)..Len(g)
    BY <1>1
  <2>2. g[q].role = "tool"
    OBVIOUS
  <2>3. \A r \in (p + 1)..q : r \in (p + 1)..Len(g)
    BY <1>1, <2>1
  <2> HIDE DEF q
  <2>4. q \in Results(g, p)
    BY <1>2, <2>1, <2>2, <2>3 DEF Results
  <2> QED
    BY <2>4 DEF q
<1>5. PICK f \in [1..n -> Results(h, p)] :
        /\ \A q \in Results(h, p) : \E k \in 1..n : f[k] = q
        /\ \A j, k \in 1..n : j < k => f[j] < f[k]
        /\ \A k \in 1..n : h[f[k]].id = h[p].calls[k]
  BY DEF AnsweredTo
<1>6. \A k \in 1..n : f[k] \in 1..Len(h) /\ f[k] \in Results(h, p)
  BY <1>1, <1>5 DEF Results
<1> DEFINE e == [k \in 1..(n + m) |-> IF k <= n THEN f[k] ELSE Len(h) + (k - n)]
<1>7. \A k \in 1..(n + m) : /\ k <= n => k \in 1..n /\ e[k] = f[k]
                            /\ k > n => k - n \in 1..m /\ e[k] = Len(h) + (k - n)
  OBVIOUS
<1>8. ASSUME NEW k \in 1..(n + m) PROVE e[k] \in Results(g, p)
  <2> HIDE DEF e
  <2>1. CASE k <= n
    <3>1. e[k] = f[k] /\ f[k] \in 1..Len(h) /\ f[k] \in Results(h, p)
      BY <1>6, <1>7, <2>1
    <3> QED
      BY <1>3, <3>1
  <2>2. CASE k > n
    BY <1>4, <1>7, <2>2
  <2> QED
    BY <2>1, <2>2
<1>9. e \in [1..(n + m) -> Results(g, p)]
  BY <1>8
<1>10. ASSUME NEW q \in Results(g, p) PROVE \E k \in 1..(n + m) : e[k] = q
  <2>1. q \in 1..Len(g)
    BY <1>1 DEF Results
  <2>2. CASE q <= Len(h)
    <3>1. q \in Results(h, p)
      BY <1>1, <1>3, <2>1, <2>2
    <3>2. PICK k \in 1..n : f[k] = q
      BY <1>5, <3>1
    <3> QED
      BY <1>7, <3>2
  <2>3. CASE q > Len(h)
    <3>1. q - Len(h) \in 1..m /\ n + (q - Len(h)) \in 1..(n + m) /\ n + (q - Len(h)) > n
      BY <1>1, <2>1, <2>3
    <3>2. e[n + (q - Len(h))] = Len(h) + (n + (q - Len(h)) - n)
      BY <1>7, <3>1
    <3> HIDE DEF e
    <3>3. e[n + (q - Len(h))] = q
      BY <1>1, <2>1, <3>2
    <3> QED
      BY <3>1, <3>3
  <2> QED
    BY <1>1, <2>1, <2>2, <2>3
<1> HIDE DEF e
<1>11. ASSUME NEW j \in 1..(n + m), NEW k \in 1..(n + m), j < k PROVE e[j] < e[k]
  <2>1. CASE k <= n
    BY <1>5, <1>7, <1>11, <2>1
  <2>2. CASE j <= n /\ k > n
    <3>1. e[j] \in 1..Len(h)
      BY <1>6, <1>7, <2>2
    <3>2. e[k] = Len(h) + (k - n) /\ k - n \in 1..m
      BY <1>7, <2>2
    <3> QED
      BY <1>1, <3>1, <3>2
  <2>3. CASE j > n
    <3>1. e[j] = Len(h) + (j - n) /\ e[k] = Len(h) + (k - n)
      BY <1>7, <1>11, <2>3
    <3> QED
      BY <1>1, <1>11, <3>1
  <2> QED
    BY <2>1, <2>2, <2>3
<1>12. ASSUME NEW k \in 1..(n + m) PROVE g[e[k]].id = g[p].calls[k]
  <2>1. g[p] = h[p]
    BY DEF Longer
  <2>2. CASE k <= n
    <3>1. k \in 1..n /\ e[k] = f[k] /\ f[k] \in 1..Len(h)
      BY <1>6, <1>7, <2>2
    <3>2. g[e[k]] = h[f[k]]
      BY <3>1 DEF Longer
    <3> QED
      BY <1>5, <2>1, <3>1, <3>2
  <2>3. CASE k > n
    <3>1. k - n \in 1..m /\ e[k] = Len(h) + (k - n) /\ n + (k - n) = k
      BY <1>7, <2>3
    <3> QED
      BY <2>1, <3>1
  <2> QED
    BY <2>2, <2>3
<1> QED
  BY <1>9, <1>10, <1>11, <1>12 DEF AnsweredTo

(* A message without results has those of none of its calls.               *)
LEMMA NoResults ==
  ASSUME NEW h, NEW p, Results(h, p) = {}
  PROVE  AnsweredTo(h, p, 0)
<1> DEFINE f == [k \in 1..0 |-> 0]
<1>1. 1..0 = {}
  OBVIOUS
<1>2. f \in [1..0 -> Results(h, p)]
  BY <1>1
<1> QED
  BY <1>1, <1>2 DEF AnsweredTo

(* What is cut away at the head takes no result from what is kept.         *)
LEMMA ResultsShift ==
  ASSUME NEW h \in Seq(Messages), NEW g \in Seq(Messages), NEW a \in Nat, NEW d \in Nat,
         Len(h) = Len(g) + d, a <= Len(g), AnsweredBut(h, 0),
         \A i \in 1..a : g[i].role # "assistant",
         \A i \in (a + 1)..Len(g) : g[i] = h[i + d]
  PROVE  AnsweredBut(g, 0)
<1>1. Len(h) \in Nat /\ Len(g) \in Nat
  BY LenProperties
<1> SUFFICES ASSUME NEW p \in 1..Len(g), g[p].role = "assistant"
             PROVE  AnsweredTo(g, p, Len(g[p].calls))
  BY DEF AnsweredBut
<1>2. p \in (a + 1)..Len(g) /\ g[p] = h[p + d] /\ p + d \in 1..Len(h) /\ p + d # 0
  BY <1>1
<1>3. AnsweredTo(h, p + d, Len(g[p].calls))
  BY <1>2 DEF AnsweredBut
<1> DEFINE n == Len(g[p].calls)
<1>4. n \in Nat
  <2>1. g[p] \in Messages
    BY ElementOfSeq
  <2> QED
    BY <2>1, LenProperties DEF Messages
<1> HIDE DEF n
<1>5. ASSUME NEW q \in (a + 1)..Len(g) PROVE q + d \in Results(h, p + d) <=> q \in Results(g, p)
  <2>1. ASSUME q + d \in Results(h, p + d) PROVE q \in Results(g, p)
    <3>1. q \in (p + 1)..Len(g) /\ g[q].role = "tool"
      BY <1>1, <1>2, <1>5, <2>1 DEF Results
    <3>2. ASSUME NEW r \in (p + 1)..q PROVE g[r].role # "assistant"
      <4>1. r + d \in (p + d + 1)..(q + d) /\ r \in (a + 1)..Len(g)
        BY <1>1, <1>2, <3>1
      <4> QED
        BY <2>1, <4>1 DEF Results
    <3> QED
      BY <3>1, <3>2 DEF Results
  <2>2. ASSUME q \in Results(g, p) PROVE q + d \in Results(h, p + d)
    <3>1. q + d \in (p + d + 1)..Len(h) /\ h[q + d].role = "tool"
      BY <1>1, <1>2, <1>5, <2>2 DEF Results
    <3>2. ASSUME NEW r \in (p + d + 1)..(q + d) PROVE h[r].role # "assistant"
      <4>1. r - d \in (p + 1)..q /\ r - d \in (a + 1)..Len(g) /\ (r - d) + d = r
        BY <1>1, <1>2, <3>1
      <4> QED
        BY <2>2, <4>1 DEF Results
    <3> QED
      BY <3>1, <3>2 DEF Results
  <2> QED
    BY <2>1, <2>2
<1>6. PICK f \in [1..n -> Results(h, p + d)] :
        /\ \A q \in Results(h, p + d) : \E k \in 1..n : f[k] = q
        /\ \A j, k \in 1..n : j < k => f[j] < f[k]
        /\ \A k \in 1..n : h[f[k]].id = h[p + d].calls[k]
  BY <1>3 DEF AnsweredTo, n
<1> DEFINE e == [k \in 1..n |-> f[k] - d]
<1>7. ASSUME NEW k \in 1..n
      PROVE  /\ f[k] \in Int /\ e[k] = f[k] - d /\ e[k] \in (a + 1)..Len(g) /\ e[k] + d = f[k]
             /\ e[k] \in Results(g, p)
  <2>1. f[k] \in (p + d + 1)..Len(h) /\ f[k] \in Results(h, p + d)
    BY <1>6 DEF Results
  <2>2. /\ f[k] - d \in (a + 1)..Len(g) /\ (f[k] - d) + d = f[k]
    BY <1>1, <1>2, <2>1
  <2>3. f[k] - d \in Results(g, p)
    BY <1>5, <2>1, <2>2
  <2> QED
    BY <1>1, <2>1, <2>2, <2>3
<1>8. e \in [1..n -> Results(g, p)]
  BY <1>7
<1> HIDE DEF e
<1>9. ASSUME NEW q \in Results(g, p) PROVE \E k \in 1..n : e[k] = q
  <2>1. q \in (a + 1)..Len(g)
    BY <1>1, <1>2 DEF Results
  <2>2. PICK k \in 1..n : f[k] = q + d
    BY <1>5, <1>6, <2>1
  <2>3. e[k] = (q + d) - d
    BY <1>7, <2>2
  <2> QED
    BY <2>1, <2>3
<1>10. ASSUME NEW j \in 1..n, NEW k \in 1..n, j < k PROVE e[j] < e[k]
  <2>1. f[j] < f[k]
    BY <1>6, <1>10
  <2> QED
    BY <1>7, <2>1
<1>11. ASSUME NEW k \in 1..n PROVE g[e[k]].id = g[p].calls[k]
  <2>1. g[e[k]] = h[f[k]]
    BY <1>7
  <2> QED
    BY <1>2, <1>6, <2>1
<1> QED
  BY <1>8, <1>9, <1>10, <1>11 DEF AnsweredTo, n

LEMMA AppendLonger ==
  ASSUME NEW h \in Seq(Messages), NEW m \in Messages
  PROVE  /\ Append(h, m) \in Seq(Messages) /\ Longer(h, Append(h, m))
         /\ Len(Append(h, m)) = Len(h) + 1 /\ Append(h, m)[Len(h) + 1] = m
<1>1. Len(h) \in Nat
  BY LenProperties
<1> QED
  BY <1>1, AppendProperties DEF Longer

LEMMA ConcatLonger ==
  ASSUME NEW h \in Seq(Messages), NEW t \in Seq(Messages)
  PROVE  /\ h \o t \in Seq(Messages) /\ Longer(h, h \o t)
         /\ Len(h \o t) = Len(h) + Len(t)
         /\ \A i \in 1..Len(t) : (h \o t)[Len(h) + i] = t[i]
<1>1. Len(h) \in Nat /\ Len(t) \in Nat
  BY LenProperties
<1> QED
  BY <1>1, ConcatProperties DEF Longer

LEMMA CallsLen ==
  ASSUME NEW h \in Seq(Messages), NEW p \in 1..Len(h)
  PROVE  Len(h[p].calls) \in Nat
<1>1. h[p] \in Messages
  BY ElementOfSeq
<1> QED
  BY <1>1, LenProperties DEF Messages

(* A message of the user or of the first kind leaves all as it was.        *)
LEMMA SaidAfter ==
  ASSUME NEW h \in Seq(Messages), NEW m \in Messages, m.role \notin {"tool", "assistant"}
  PROVE  /\ \A x : AnsweredBut(h, x) => AnsweredBut(Append(h, m), x)
         /\ \A p, c, n : n \in Nat /\ Open(h, p, c, n) => Open(Append(h, m), p, c, n)
<1> DEFINE g == Append(h, m)
<1>1. /\ g \in Seq(Messages) /\ Longer(h, g) /\ Len(g) = Len(h) + 1 /\ g[Len(h) + 1] = m
      /\ Len(h) \in Nat
  BY AppendLonger, LenProperties
<1> HIDE DEF g
<1>2. ASSUME NEW p \in 1..Len(h), NEW n \in Nat, AnsweredTo(h, p, n) PROVE AnsweredTo(g, p, n)
  <2>1. \A q \in (Len(h) + 1)..Len(g) : g[q].role # "tool"
    BY <1>1
  <2> QED
    BY <1>1, <1>2, <2>1, ResultsStay
<1>3. ASSUME NEW x, AnsweredBut(h, x) PROVE AnsweredBut(g, x)
  <2> SUFFICES ASSUME NEW p \in 1..Len(g), g[p].role = "assistant", p # x
               PROVE  AnsweredTo(g, p, Len(g[p].calls))
    BY DEF AnsweredBut
  <2>1. p \in 1..Len(h) /\ g[p] = h[p]
    BY <1>1 DEF Longer
  <2>2. Len(h[p].calls) \in Nat
    BY <2>1, CallsLen
  <2> QED
    BY <1>2, <1>3, <2>1, <2>2 DEF AnsweredBut
<1>4. ASSUME NEW p, NEW c, NEW n \in Nat, Open(h, p, c, n) PROVE Open(g, p, c, n)
  <2>1. p \in 1..Len(h) /\ p \in 1..Len(g) /\ g[p] = h[p]
    BY <1>1, <1>4 DEF Open, Longer
  <2>2. ASSUME NEW r \in (p + 1)..Len(g) PROVE g[r].role # "assistant"
    <3>1. CASE r = Len(h) + 1
      BY <1>1, <3>1
    <3>2. CASE r # Len(h) + 1
      <4>1. r \in (p + 1)..Len(h) /\ g[r] = h[r]
        BY <1>1, <2>1, <3>2 DEF Longer
      <4> QED
        BY <1>4, <4>1 DEF Open
    <3> QED
      BY <3>1, <3>2
  <2> QED
    BY <1>2, <1>3, <1>4, <2>1, <2>2 DEF Open
<1> QED
  BY <1>3, <1>4 DEF g

(* The answer comes into a History in which all is answered.               *)
LEMMA Opens ==
  ASSUME NEW h \in Seq(Messages), AnsweredBut(h, 0), NEW c \in Seq(Calls)
  PROVE  Open(Append(h, Asked(c)), Len(h) + 1, c, 0)
<1> DEFINE g == Append(h, Asked(c))
           p == Len(h) + 1
<1>0. Asked(c) \in Messages /\ Len(h) \in Nat
  BY AskedIs, LenProperties
<1>1. g \in Seq(Messages) /\ Longer(h, g) /\ Len(g) = p /\ g[p] = Asked(c)
  BY <1>0, AppendLonger
<1> HIDE DEF g
<1>2. p \in 1..Len(g) /\ g[p].role = "assistant" /\ g[p].calls = IdsOf(c)
  BY <1>0, <1>1 DEF Asked
<1>3. AnsweredTo(g, p, 0)
  <2>1. Results(g, p) = {}
    BY <1>0, <1>1 DEF Results
  <2> QED
    BY <2>1, NoResults
<1>4. ASSUME NEW q \in 1..Len(g), g[q].role = "assistant", q # p
      PROVE  AnsweredTo(g, q, Len(g[q].calls))
  <2>1. q \in 1..Len(h) /\ g[q] = h[q] /\ q # 0
    BY <1>0, <1>1, <1>4 DEF Longer
  <2>2. AnsweredTo(h, q, Len(g[q].calls)) /\ Len(g[q].calls) \in Nat
    BY <1>4, <2>1, CallsLen DEF AnsweredBut
  <2>3. \A r \in (Len(h) + 1)..Len(g) : g[r].role # "tool"
    BY <1>0, <1>1, <1>2
  <2> QED
    BY <1>1, <2>1, <2>2, <2>3, ResultsStay
<1>5. \A r \in (p + 1)..Len(g) : g[r].role # "assistant"
  BY <1>0, <1>1
<1> QED
  BY <1>2, <1>3, <1>4, <1>5 DEF Open, AnsweredBut, g

(* The results of its next calls.                                          *)
LEMMA OpenGrows ==
  ASSUME NEW h \in Seq(Messages), NEW g \in Seq(Messages), Longer(h, g), NEW p, NEW n \in Nat,
         NEW c \in Seq(Calls), Open(h, p, c, n), NEW m \in Nat, Len(g) = Len(h) + m,
         n + m <= Len(c),
         \A i \in 1..m : g[Len(h) + i].role = "tool" /\ g[Len(h) + i].id = c[n + i].id
  PROVE  Open(g, p, c, n + m)
<1>1. Len(h) \in Nat /\ Len(g) \in Nat /\ Len(c) \in Nat
  BY LenProperties
<1>2. /\ p \in 1..Len(h) /\ p \in 1..Len(g) /\ g[p] = h[p] /\ h[p].role = "assistant"
      /\ h[p].calls = IdsOf(c)
      /\ \A r \in (p + 1)..Len(h) : h[r].role # "assistant"
      /\ AnsweredTo(h, p, n) /\ AnsweredBut(h, p)
  BY <1>1 DEF Open, Longer
<1>3. \A i \in 1..m : g[Len(h) + i].id = h[p].calls[n + i]
  BY <1>1, <1>2 DEF IdsOf
<1>4. AnsweredTo(g, p, n + m)
  BY <1>2, <1>3, ResultsGrow
<1>5. \A r \in (Len(h) + 1)..Len(g) : g[r].role = "tool"
  <2> SUFFICES ASSUME NEW r \in (Len(h) + 1)..Len(g) PROVE g[r].role = "tool"
    OBVIOUS
  <2>1. r - Len(h) \in 1..m /\ Len(h) + (r - Len(h)) = r
    BY <1>1
  <2> QED
    BY <2>1
<1>6. ASSUME NEW r \in (p + 1)..Len(g) PROVE g[r].role # "assistant"
  <2>1. CASE r <= Len(h)
    BY <1>1, <1>2, <2>1 DEF Longer
  <2>2. CASE r > Len(h)
    BY <1>1, <1>5, <2>2
  <2> QED
    BY <1>1, <1>2, <2>1, <2>2
<1>7. ASSUME NEW q \in 1..Len(g), g[q].role = "assistant", q # p
      PROVE  AnsweredTo(g, q, Len(g[q].calls))
  <2>1. q \in 1..Len(h) /\ g[q] = h[q]
    <3>1. q <= Len(h)
      BY <1>1, <1>5, <1>7
    <3> QED
      BY <1>1, <3>1 DEF Longer
  <2>2. AnsweredTo(h, q, Len(g[q].calls)) /\ Len(g[q].calls) \in Nat
    BY <1>2, <1>7, <2>1, CallsLen DEF AnsweredBut
  <2>3. p \in (q + 1)..Len(h)
    BY <1>1, <1>2, <1>6, <1>7, <2>1
  <2>4. \A r \in (Len(h) + 1)..Len(g) : \E s \in (q + 1)..r : g[s].role = "assistant"
    <3>1. \A r \in (Len(h) + 1)..Len(g) : p \in (q + 1)..r
      BY <1>1, <2>3
    <3> QED
      BY <1>2, <3>1
  <2> QED
    BY <2>1, <2>2, <2>4, ResultsStay
<1> QED
  BY <1>2, <1>4, <1>6, <1>7 DEF Open, AnsweredBut

(* With the last result all is answered.                                   *)
LEMMA Closes ==
  ASSUME NEW h, NEW p, NEW c \in Seq(Calls), Open(h, p, c, Len(c))
  PROVE  AnsweredBut(h, 0)
<1>1. Len(h[p].calls) = Len(c)
  <2>1. Len(c) \in Nat
    BY LenProperties
  <2> QED
    BY <2>1 DEF Open, IdsOf
<1> QED
  BY <1>1 DEF Open, AnsweredBut

(* The next call gets its result.                                          *)
LEMMA AnswersNext ==
  ASSUME calls \in Seq(Calls), NEW h \in Seq(Messages), NEW p, NEW n \in 1..Len(calls),
         Open(h, p, calls, n - 1)
  PROVE  Open(Append(h, Answered(calls[n])), p, calls, n)
<1> DEFINE g == Append(h, Answered(calls[n]))
<1>1. Answered(calls[n]) \in Messages /\ Len(h) \in Nat /\ Len(calls) \in Nat
  BY AnsweredIs, LenProperties
<1>2. g \in Seq(Messages) /\ Longer(h, g) /\ Len(g) = Len(h) + 1 /\ g[Len(h) + 1] = Answered(calls[n])
  BY <1>1, AppendLonger
<1> HIDE DEF g
<1>3. \A i \in 1..1 : g[Len(h) + i].role = "tool" /\ g[Len(h) + i].id = calls[(n - 1) + i].id
  BY <1>2 DEF Answered
<1>4. n - 1 \in Nat /\ 1 \in Nat /\ (n - 1) + 1 <= Len(calls) /\ (n - 1) + 1 = n
  BY <1>1
<1>5. Open(g, p, calls, (n - 1) + 1)
  BY <1>2, <1>3, <1>4, OpenGrows
<1> QED
  BY <1>4, <1>5 DEF g

(* All calls from the n-th on get one.                                     *)
LEMMA AnswersRest ==
  ASSUME calls \in Seq(Calls), NEW h \in Seq(Messages), NEW p, NEW n \in 1..(Len(calls) + 1),
         Open(h, p, calls, n - 1)
  PROVE  AnsweredBut(h \o Filled(n), 0)
<1> DEFINE t == Filled(n)
           g == h \o t
           m == Len(calls) - n + 1
<1>1. Len(h) \in Nat /\ Len(calls) \in Nat
  BY LenProperties
<1>2. m \in Nat /\ n - 1 \in Nat /\ (n - 1) + m = Len(calls)
  BY <1>1
<1>3. t \in Seq(Messages) /\ Len(t) = m /\ \A i \in 1..m : t[i] = Answered(calls[n + i - 1])
  <2>1. n \in Nat \ {0} /\ n <= Len(calls) + 1
    BY <1>1
  <2>2. t \in Seq(Messages)
    BY <2>1, FilledIs
  <2> QED
    BY <1>2, <2>2 DEF Filled
<1> HIDE DEF t, m
<1>4. /\ g \in Seq(Messages) /\ Longer(h, g) /\ Len(g) = Len(h) + m
      /\ \A i \in 1..m : g[Len(h) + i] = t[i]
  BY <1>3, ConcatLonger
<1> HIDE DEF g
<1>5. ASSUME NEW i \in 1..m
      PROVE  g[Len(h) + i].role = "tool" /\ g[Len(h) + i].id = calls[(n - 1) + i].id
  <2>1. n + i - 1 = (n - 1) + i
    BY <1>1, <1>2
  <2> QED
    BY <1>3, <1>4, <2>1 DEF Answered
<1>6. (n - 1) + m <= Len(calls)
  BY <1>1, <1>2
<1>7. Open(g, p, calls, (n - 1) + m)
  BY <1>2, <1>4, <1>5, <1>6, OpenGrows
<1> QED
  BY <1>2, <1>7, Closes DEF g, t

LEMMA LastOfLonger ==
  ASSUME NEW h \in Seq(Messages), NEW n \in Nat, n <= Len(h)
  PROVE  /\ LastOf(h, n) \in Seq(Messages) /\ Len(LastOf(h, n)) = n
         /\ \A i \in 1..n : LastOf(h, n)[i] = h[Len(h) - n + i]
<1>1. Len(h) \in Nat
  BY LenProperties
<1>2. \A i \in (Len(h) - n + 1)..Len(h) : h[i] \in Messages
  BY <1>1, ElementOfSeq
<1>3. Len(h) - n + 1 \in Int /\ Len(h) \in Int
  BY <1>1
<1>4. \A i \in 1..n : LastOf(h, n)[i] = h[(Len(h) - n + 1) + i - 1]
  BY <1>1, <1>2, <1>3, SubSeqProperties DEF LastOf
<1>5. \A i \in 1..n : (Len(h) - n + 1) + i - 1 = Len(h) - n + i
  BY <1>1
<1> QED
  BY <1>4, <1>5, LastOfSeq

(* A head without an assistant message before the last n messages.         *)
LEMMA CutAway ==
  ASSUME NEW h \in Seq(Messages), AnsweredBut(h, 0), NEW f \in Seq(Messages), NEW n \in Nat,
         Len(f) + n <= Len(h), \A i \in 1..Len(f) : f[i].role # "assistant"
  PROVE  AnsweredBut(f \o LastOf(h, n), 0)
<1> DEFINE t == LastOf(h, n)
           g == f \o t
           a == Len(f)
           d == Len(h) - (a + n)
<1>1. Len(h) \in Nat /\ a \in Nat /\ d \in Nat /\ n <= Len(h)
  BY LenProperties
<1>2. t \in Seq(Messages) /\ Len(t) = n /\ \A i \in 1..n : t[i] = h[Len(h) - n + i]
  BY <1>1, LastOfLonger
<1> HIDE DEF t
<1>3. /\ g \in Seq(Messages) /\ Longer(f, g) /\ Len(g) = a + n
      /\ \A i \in 1..n : g[a + i] = t[i]
  BY <1>2, ConcatLonger
<1> HIDE DEF g
<1>4. \A i \in 1..a : g[i].role # "assistant"
  BY <1>3 DEF Longer
<1>5. ASSUME NEW i \in (a + 1)..Len(g) PROVE g[i] = h[i + d]
  <2>1. i - a \in 1..n /\ a + (i - a) = i /\ Len(h) - n + (i - a) = i + d
    BY <1>1, <1>3
  <2>2. g[a + (i - a)] = h[Len(h) - n + (i - a)]
    BY <1>2, <1>3, <2>1
  <2> QED
    BY <2>1, <2>2
<1>6. Len(h) = Len(g) + d /\ a <= Len(g)
  BY <1>1, <1>3
<1> HIDE DEF d, a
<1>7. AnsweredBut(g, 0)
  BY <1>1, <1>3, <1>4, <1>5, <1>6, ResultsShift
<1> QED
  BY <1>7 DEF g, t

LEMMA PrunedAnswered ==
  ASSUME NEW h \in Seq(Messages), h # <<>>, h[1] = FirstMessage, AnsweredBut(h, 0)
  PROVE  AnsweredBut(Pruned(h), 0)
<1>1. Len(h) \in Nat \ {0} /\ MaxHistory \in Nat \ {0} /\ h[1] \in Messages
  BY EmptySeq, ElementOfSeq, HistoryAssumption
<1>2. CASE Len(h) <= MaxHistory
  BY <1>2 DEF Pruned
<1>3. CASE ~(Len(h) <= MaxHistory)
  <2> DEFINE f == <<h[1]>>
  <2>1. f \in Seq(Messages) /\ Len(f) = 1 /\ f[1].role # "assistant"
    BY <1>1 DEF FirstMessage, Said
  <2>2. MaxHistory - 1 \in Nat /\ Len(f) + (MaxHistory - 1) <= Len(h)
    BY <1>1, <1>3, <2>1
  <2>3. \A i \in 1..Len(f) : f[i].role # "assistant"
    BY <2>1
  <2> HIDE DEF f
  <2>4. AnsweredBut(f \o LastOf(h, MaxHistory - 1), 0)
    BY <2>1, <2>2, <2>3, CutAway
  <2> QED
    BY <1>3, <2>4 DEF Pruned, f
<1> QED
  BY <1>2, <1>3

LEMMA CompressedAnswered ==
  ASSUME NEW h \in Seq(Messages), h # <<>>, h[1] = FirstMessage, AnsweredBut(h, 0),
         NEW c \in Compressed(h)
  PROVE  AnsweredBut(c, 0)
<1>1. Len(h) \in Nat \ {0} /\ h[1] \in Messages
  BY EmptySeq, ElementOfSeq
<1>2. CASE Len(h) <= Threshold
  BY <1>2 DEF Compressed
<1>3. CASE ~(Len(h) <= Threshold) /\ c = Pruned(h)
  BY <1>3, PrunedAnswered
<1>4. CASE ~(Len(h) <= Threshold) /\ c = <<h[1], Said("user")>> \o LastOf(h, KeepRecent)
  <2> DEFINE f == <<h[1], Said("user")>>
  <2>1. Said("user") \in Messages
    BY SaidIs
  <2>2. f \in Seq(Messages) /\ Len(f) = 2 /\ f[1] = h[1] /\ f[2] = Said("user")
    BY <1>1, <2>1
  <2>3. \A i \in 1..Len(f) : f[i].role # "assistant"
    BY <2>2 DEF FirstMessage, Said
  <2>4. KeepRecent \in Nat /\ Len(f) + KeepRecent <= Len(h)
    BY <1>1, <1>4, <2>2, HistoryAssumption
  <2> HIDE DEF f
  <2>5. AnsweredBut(f \o LastOf(h, KeepRecent), 0)
    BY <2>2, <2>3, <2>4, CutAway
  <2> QED
    BY <1>4, <2>5 DEF f
<1> QED
  BY <1>2, <1>3, <1>4 DEF Compressed

LEMMA AnswerInvNext ==
  ASSUME Inv, HeadKept, AnswerInv, [Next]_vars
  PROVE  AnswerInv'
<1> DEFINE Calling == pc \in {"register", "call", "tool"}
<1>0. /\ history \in Seq(Messages) /\ calls \in Seq(Calls) /\ at \in Nat
      /\ pc # "idle" => history # <<>>
      /\ Len(calls) \in Nat
  BY LenProperties DEF Inv, TypeOK, AnswerTypes, Started
<1>1. /\ Calling => Asking
      /\ ~Calling => AnsweredBut(history, 0)
  BY DEF AnswerInv
<1>2. /\ Said("user") \in Messages /\ Said("user").role \notin {"tool", "assistant"}
      /\ FirstMessage \in Messages /\ FirstMessage.role \notin {"tool", "assistant"}
      /\ UserMessage \in {Said("user"), FirstMessage}
  BY SaidIs DEF Said, FirstMessage, UserMessage
<1>3. <<>> \in Seq(Calls) /\ Len(<<>>) = 0 /\ Asked(<<>>) \in Messages
  BY AskedIs, EmptySeq
<1>4. /\ WithIntervention(history) \in Seq(Messages)
      /\ AnsweredBut(history, 0) => AnsweredBut(WithIntervention(history), 0)
      /\ \A p, n : n \in Nat /\ Open(history, p, calls, n)
                     => Open(WithIntervention(history), p, calls, n)
  BY <1>0, <1>2, SaidAfter, AppendLonger DEF WithIntervention
<1>5. ASSUME NEW p, NEW k \in 1..(Len(calls) + 1), Open(history', p, calls, k - 1),
             calls' = calls, at' = k, Calling'
      PROVE  AnswerInv'
  <2>1. Open(history', p, calls', at' - 1) /\ at' \in 1..(Len(calls') + 1)
    BY <1>5
  <2>2. p \in 1..Len(history')
    BY <1>5 DEF Open
  <2>3. \E x \in 1..Len(history') : at' \in 1..(Len(calls') + 1) /\ Open(history', x, calls', at' - 1)
    BY <2>1, <2>2
  <2>4. Asking'
    BY <2>3 DEF Asking, Open, AnsweredBut, AnsweredTo, Results
  <2> QED
    BY <1>5, <2>4 DEF AnswerInv
<1>6. ASSUME AnsweredBut(history', 0), ~Calling' PROVE AnswerInv'
  <2>1. AnsweredBut(history, 0)'
    BY <1>6 DEF AnsweredBut, AnsweredTo, Results
  <2> QED
    BY <1>6, <2>1 DEF AnswerInv
<1>7. ASSUME UNCHANGED <<history, calls, at>>, (Calling <=> Calling') PROVE AnswerInv'
  <2>1. CASE Calling
    <3>1. PICK p \in 1..Len(history) : at \in 1..(Len(calls) + 1) /\ Open(history, p, calls, at - 1)
      BY <1>1, <2>1 DEF Asking
    <3> QED
      BY <1>5, <1>7, <2>1, <3>1
  <2>2. CASE ~Calling
    BY <1>1, <1>6, <1>7, <2>2
  <2> QED
    BY <2>1, <2>2
<1>8. ASSUME Calling
      PROVE  \E p : /\ at \in 1..(Len(calls) + 1)
                    /\ Open(history, p, calls, at - 1)
                    /\ Open(WithIntervention(history), p, calls, at - 1)
  <2>1. PICK p \in 1..Len(history) : at \in 1..(Len(calls) + 1) /\ Open(history, p, calls, at - 1)
    BY <1>1, <1>8 DEF Asking
  <2>2. at - 1 \in Nat
    BY <1>0, <2>1
  <2> QED
    BY <1>4, <2>1, <2>2
<1> HIDE DEF Calling
<1>9. ASSUME Calling, at <= Len(calls), GiveUp("cancelled") \/ GiveUp(StopResult)
      PROVE  AnswerInv'
  <2>1. history' = history \o Filled(at) /\ pc' = "return"
    BY <1>9 DEF GiveUp, Leave
  <2>2. PICK p : at \in 1..(Len(calls) + 1) /\ Open(history, p, calls, at - 1)
    BY <1>8, <1>9
  <2>3. AnsweredBut(history', 0)
    BY <1>0, <2>1, <2>2, AnswersRest
  <2> QED
    BY <1>6, <2>1, <2>3 DEF Calling
<1>10. CASE Run
  <2>1. history' = Append(history, UserMessage) /\ pc = "idle" /\ pc' = "top"
    BY <1>10 DEF Run, Enter
  <2>2. AnsweredBut(history', 0)
    BY <1>0, <1>1, <1>2, <2>1, SaidAfter DEF Calling
  <2> QED
    BY <1>6, <2>1, <2>2 DEF Calling
<1>11. CASE Continue \/ Return
  <2>1. /\ history' = history /\ ~Calling /\ ~Calling'
    BY <1>11 DEF Continue, Enter, Return, Calling
  <2> QED
    BY <1>1, <1>6, <2>1
<1>12. CASE SecondMessage \/ Intervene \/ Stop \/ StopStep \/ Deadline \/ ToolTimeout
  <2>1. UNCHANGED <<history, calls, at, pc>>
    BY <1>12 DEF SecondMessage, Intervene, Stop, StopStep, StopUnchanged, Deadline, ToolTimeout,
                 toolUnchanged, stream, tooling
  <2> QED
    BY <1>7, <2>1 DEF Calling
<1>13. CASE Top
  <2>1. /\ history' = history \/ history' = WithIntervention(history)
        /\ ~Calling /\ ~Calling'
    BY <1>13 DEF Top, Leave, Calling
  <2> QED
    BY <1>1, <1>4, <1>6, <2>1
<1>14. CASE Compress
  <2>1. PICK h \in Compressed(history) : history' = Pruned(h)
    BY <1>14 DEF Compress
  <2>2. /\ history # <<>> /\ history[1] = FirstMessage /\ AnsweredBut(history, 0)
        /\ pc = "compress" /\ pc' = "wait"
    BY <1>0, <1>1, <1>14 DEF Compress, HeadKept, Calling
  <2>3. h \in Seq(Messages) /\ h # <<>> /\ h[1] = FirstMessage /\ AnsweredBut(h, 0)
    BY <1>0, <2>1, <2>2, CompressedSeq, CompressedAnswered
  <2>4. AnsweredBut(history', 0)
    BY <2>1, <2>3, PrunedAnswered
  <2> QED
    BY <1>6, <2>2, <2>4 DEF Calling
<1>15. CASE Wait \/ Chunk \/ StreamEnds
  <2>1. history' = history /\ ~Calling /\ ~Calling'
    BY <1>15 DEF Wait, Chunk, StreamEnds, Leave, Calling
  <2> QED
    BY <1>1, <1>6, <2>1
<1>16. ASSUME AnsweredBut(history, 0)
       PROVE  /\ Append(history, Asked(<<>>)) \in Seq(Messages)
              /\ AnsweredBut(Append(history, Asked(<<>>)), 0)
  <2>1. Open(Append(history, Asked(<<>>)), Len(history) + 1, <<>>, Len(<<>>))
    BY <1>0, <1>3, <1>16, Opens
  <2> QED
    BY <1>0, <1>3, <2>1, Closes, AppendLonger
<1>17. CASE StreamFails
  <2>1. /\ \/ history' = history
           \/ history' = history \o <<Asked(<<>>), Said("user")>>
        /\ ~Calling /\ ~Calling'
    BY <1>17 DEF StreamFails, Leave, Calling
  <2>2. AnsweredBut(history, 0)
    BY <1>1, <2>1
  <2> DEFINE a == Asked(<<>>)
             b == Said("user")
  <2>3. history \o <<a, b>> = Append(Append(history, a), b)
    <3> HIDE DEF a, b
    <3>1. a \in Messages /\ b \in Messages
      BY <1>2, <1>3 DEF a, b
    <3> QED
      BY <1>0, <3>1
  <2>4. AnsweredBut(Append(Append(history, a), b), 0)
    BY <1>2, <1>16, <2>2, SaidAfter
  <2> QED
    BY <1>6, <2>1, <2>2, <2>3, <2>4
<1>18. CASE WarnOfText
  <2>1. history' = Append(history, Said("user")) /\ ~Calling /\ ~Calling'
    BY <1>18 DEF WarnOfText, NextIteration, Leave, Calling
  <2> QED
    BY <1>0, <1>1, <1>2, <1>6, <2>1, SaidAfter
<1>19. CASE WarnOfCalls
  <2>1. /\ history' = Append(history, Asked(calls)) \o Filled(1)
        /\ ~Calling /\ ~Calling'
    BY <1>19 DEF WarnOfCalls, NextIteration, Leave, Calling
  <2>2. Open(Append(history, Asked(calls)), Len(history) + 1, calls, 0)
    BY <1>0, <1>1, <2>1, Opens
  <2>3. Append(history, Asked(calls)) \in Seq(Messages)
    BY <1>0, AskedIs, AppendLonger
  <2>4. 1 \in 1..(Len(calls) + 1) /\ 1 - 1 = 0
    BY <1>0
  <2>5. AnsweredBut(Append(history, Asked(calls)) \o Filled(1), 0)
    BY <1>0, <2>2, <2>3, <2>4, AnswersRest
  <2> QED
    BY <1>6, <2>1, <2>5
<1>20. CASE CallTools
  <2>1. /\ history' = Append(history, Asked(calls)) /\ calls' = calls /\ at' = 1
        /\ ~Calling /\ Calling'
    BY <1>20 DEF CallTools, Calling
  <2>2. Open(history', Len(history) + 1, calls, 0)
    BY <1>0, <1>1, <2>1, Opens
  <2>3. 1 \in 1..(Len(calls) + 1) /\ 1 - 1 = 0
    BY <1>0
  <2> QED
    BY <1>5, <2>1, <2>2, <2>3
<1>21. CASE Respond
  <2>1. history' = Append(history, Asked(<<>>)) /\ ~Calling /\ ~Calling'
    BY <1>21 DEF Respond, NextIteration, Leave, Calling
  <2> QED
    BY <1>1, <1>6, <1>16, <2>1
<1>22. CASE Register
  <2>1. UNCHANGED <<history, calls, at>> /\ Calling /\ Calling'
    BY <1>22 DEF Register, toolUnchanged, stream, Calling
  <2> QED
    BY <1>7, <2>1
<1>23. CASE BeforeCall
  <2>1. pc = "call" /\ at <= Len(calls) /\ calls' = calls /\ Calling
    BY <1>23 DEF BeforeCall, toolUnchanged, stream, Calling
  <2>2. PICK p : at \in 1..(Len(calls) + 1) /\ Open(WithIntervention(history), p, calls, at - 1)
    BY <1>8, <2>1
  <2>3. CASE GiveUp(StopResult)
    BY <1>9, <2>1, <2>3
  <2>4. CASE pc' = "tool" /\ history' = WithIntervention(history) /\ at' = at
    BY <1>5, <2>1, <2>2, <2>4 DEF Calling
  <2>5. CASE /\ history' = Append(WithIntervention(history), Answered(calls[at]))
             /\ at' = at + 1 /\ pc' = pc
    <3>1. at \in 1..Len(calls) /\ at + 1 \in 1..(Len(calls) + 1) /\ (at + 1) - 1 = at
      BY <1>0, <2>1, <2>2
    <3>2. Open(history', p, calls, (at + 1) - 1)
      BY <1>0, <1>4, <2>2, <2>5, <3>1, AnswersNext
    <3> QED
      BY <1>5, <2>1, <2>5, <3>1, <3>2 DEF Calling
  <2>6. \/ GiveUp(StopResult)
        \/ pc' = "tool" /\ history' = WithIntervention(history) /\ at' = at
        \/ /\ history' = Append(WithIntervention(history), Answered(calls[at]))
           /\ at' = at + 1 /\ pc' = pc
    BY <1>23 DEF BeforeCall
  <2> QED
    BY <2>3, <2>4, <2>5, <2>6
<1>24. CASE ToolReturns
  <2>1. pc = "tool" /\ at <= Len(calls) /\ calls' = calls /\ Calling
    BY <1>24 DEF ToolReturns, toolUnchanged, stream, Calling, Inv, InTool
  <2>2. PICK p : at \in 1..(Len(calls) + 1) /\ Open(history, p, calls, at - 1)
    BY <1>8, <2>1
  <2>3. CASE GiveUp("cancelled")
    BY <1>9, <2>1, <2>3
  <2>4. CASE history' = Append(history, Answered(calls[at])) /\ at' = at + 1 /\ pc' = "call"
    <3>1. at \in 1..Len(calls) /\ at + 1 \in 1..(Len(calls) + 1) /\ (at + 1) - 1 = at
      BY <1>0, <2>1, <2>2
    <3>2. Open(history', p, calls, (at + 1) - 1)
      BY <1>0, <2>2, <2>4, <3>1, AnswersNext
    <3> QED
      BY <1>5, <2>1, <2>4, <3>1, <3>2 DEF Calling
  <2>5. \/ GiveUp("cancelled")
        \/ history' = Append(history, Answered(calls[at])) /\ at' = at + 1 /\ pc' = "call"
    BY <1>24 DEF ToolReturns
  <2> QED
    BY <2>3, <2>4, <2>5
<1>25. CASE AfterCalls
  <2>1. /\ history' = history /\ calls' = calls /\ pc = "call" /\ at > Len(calls)
        /\ pc' \in {"return", "top"}
    BY <1>25 DEF AfterCalls, toolUnchanged, stream, NextIteration, Leave
  <2>2. PICK p : at \in 1..(Len(calls) + 1) /\ Open(history, p, calls, at - 1)
    BY <1>8, <2>1 DEF Calling
  <2>3. at - 1 = Len(calls)
    BY <1>0, <2>1, <2>2
  <2>4. AnsweredBut(history', 0)
    BY <1>0, <2>1, <2>2, <2>3, Closes
  <2> QED
    BY <1>6, <2>1, <2>4 DEF Calling
<1>26. CASE UNCHANGED vars
  <2>1. UNCHANGED <<history, calls, at, pc>>
    BY <1>26 DEF vars
  <2> QED
    BY <1>7, <2>1 DEF Calling
<1> QED
  BY <1>10, <1>11, <1>12, <1>13, <1>14, <1>15, <1>17, <1>18, <1>19, <1>20, <1>21, <1>22, <1>23,
     <1>24, <1>25, <1>26 DEF Next, HubStep, LoopStep

(* What the LLM is shown, and what a stopped run leaves for a resume, has  *)
(* one result for every tool call, in the order of the calls: of whatever  *)
(* length the answers and the History are, and wherever the History is cut.*)
THEOREM CallsAnsweredCorrect == Spec => []CallsAnswered
<1>1. Init => AnswerInv
  <2> SUFFICES ASSUME Init PROVE AnswerInv
    OBVIOUS
  <2>1. history = <<>> /\ pc = "idle" /\ 1..Len(<<>>) = {}
    BY DEF Init
  <2> QED
    BY <2>1 DEF AnswerInv, AnsweredBut
<1>2. AnswerInv => CallsAnswered
  <2> SUFFICES ASSUME AnswerInv, pc \notin {"register", "call", "tool"},
                      NEW p \in 1..Len(history), history[p].role = "assistant"
               PROVE  AnsweredTo(history, p, Len(history[p].calls))
    BY DEF CallsAnswered
  <2> QED
    BY DEF AnswerInv, AnsweredBut
<1>3. Inv /\ HeadKept /\ AnswerInv /\ [Next]_vars => AnswerInv'
  BY AnswerInvNext
<1>4. Inv /\ HeadKept /\ [Next]_vars => HeadKept'
  BY HistoryNext
<1> QED
  BY <1>1, <1>2, <1>3, <1>4, InvInit, InvNext, PTL DEF Spec

=============================================================================
