---------------------------- MODULE ProcessOutput ----------------------------
(***************************************************************************)
(* The output of one background process: from its pipes, through the two   *)
(* goroutines that read them (api/process.go), into the ring buffer and to *)
(* the clients that are subscribed to the process (api/ws.go).             *)
(*                                                                         *)
(* A viewer is a WebSocket connection.  Two viewers share nothing but the  *)
(* buffer, which neither changes.  A line is what one Read returns.        *)
(*                                                                         *)
(* ProcessManager is the other part of the component; the names here are   *)
(* not those of its definitions, so that ProcessProofs can extend both.    *)
(***************************************************************************)
EXTENDS RingBuffer, FiniteSets

CONSTANTS
  Streams,     \* stdout and stderr
  Viewers,     \* clients that select this process, now and then
  SendCap,     \* capacity of Client.send (256)
  MaxWrites,   \* bound on what is written to one stream
  MaxSelects   \* bound on how often a viewer selects the process

ASSUME OutputAssumption == /\ SendCap \in Nat \ {0}
                           /\ MaxWrites \in Nat
                           /\ MaxSelects \in Nat

VARIABLES
  phase,     \* running; reaped: cmd.Wait has returned; reported; swept
  written,   \* what the process has written to each stream
  taken,     \* how much of it was read
  rpc,       \* where the goroutine that reads the stream is
  ring,      \* sess.buffer
  watching,  \* the clients whose subscribedProcess it is
  vpc,       \* where the handler of process_subscribe is
  snapshot,  \* lines of the history that it has still to send
  channel,   \* Client.send
  selects,   \* how often the viewer may still select the process
  all,       \* history: the lines in the order of their Append
  evicted,   \* history: how many of them were gone at the snapshot
  got,       \* history: lines that reached the browser
  dropped    \* history: the channel was full once

process == <<phase, written>>
viewer  == <<watching, vpc, snapshot, selects, evicted>>
wire    == <<channel, got, dropped>>
outputVars == <<phase, written, taken, rpc, ring, watching, vpc, snapshot,
                channel, selects, all, evicted, got, dropped>>

Line == Streams \X (1..MaxWrites)

OutputInit ==
  /\ phase    = "running"
  /\ written  = [s \in Streams |-> 0]
  /\ taken    = [s \in Streams |-> 0]
  /\ rpc      = [s \in Streams |-> "read"]
  /\ ring     = NewRingBuffer
  /\ watching = {}
  /\ vpc      = [v \in Viewers |-> "ready"]
  /\ snapshot = [v \in Viewers |-> <<>>]
  /\ channel  = [v \in Viewers |-> <<>>]
  /\ selects  = [v \in Viewers |-> MaxSelects]
  /\ all = <<>>
  /\ evicted  = [v \in Viewers |-> 0]
  /\ got      = [v \in Viewers |-> {}]
  /\ dropped  = [v \in Viewers |-> FALSE]

-----------------------------------------------------------------------------
(* The process, and the goroutine in cmd.Wait.                             *)

Write(s) ==
  /\ phase = "running" /\ written[s] < MaxWrites
  /\ written' = [written EXCEPT ![s] = @ + 1]
  /\ UNCHANGED <<phase, taken, rpc, ring, viewer, wire, all>>

(* The process ends, Wait returns and closes both pipes at this end; the   *)
(* exit is reported; five minutes later the session leaves the map.        *)
Reap ==
  /\ \/ phase = "running"  /\ phase' = "reaped"
     \/ phase = "reaped"   /\ phase' = "reported"
     \/ phase = "reported" /\ phase' = "swept"
  /\ UNCHANGED <<written, taken, rpc, ring, viewer, wire, all>>

-----------------------------------------------------------------------------
(* The goroutine that reads a stream.                                      *)

Current(s) == <<s, taken[s]>>

Read(s) ==
  /\ rpc[s] = "read"
  /\ phase = "running" /\ taken[s] < written[s]
  /\ taken' = [taken EXCEPT ![s] = @ + 1]
  /\ rpc' = [rpc EXCEPT ![s] = "append"]
  /\ UNCHANGED <<process, ring, viewer, wire, all>>

(* The pipe is closed.  Mutant: the goroutine first waits for the rest.    *)
EofOnly(s)    == phase # "running" /\ taken[s] = written[s]
ReadFails(s)  == phase # "running"

EndRead(s) ==
  /\ rpc[s] = "read" /\ ReadFails(s)
  /\ rpc' = [rpc EXCEPT ![s] = "end"]
  /\ UNCHANGED <<process, taken, ring, viewer, wire, all>>

AppendLine(s) ==
  /\ rpc[s] = "append"
  /\ ring' = Appended(ring, Current(s))
  /\ all' = Append(all, Current(s))
  /\ rpc' = [rpc EXCEPT ![s] = "output"]
  /\ UNCHANGED <<process, taken, viewer, wire>>

(* safeSend: a message that does not fit is dropped.  Mutant: all fit.     *)
AllFit(v) == v \in Viewers
Fits(v)   == Len(channel[v]) < SendCap

(* Whom onOutput sends to.  Mutant: those whose history has been sent.     *)
Served(v)    == v \in watching /\ vpc[v] = "ready"
Listening(v) == v \in watching

OnOutput(s) ==
  /\ rpc[s] = "output"
  /\ channel' = [v \in Viewers |-> IF Listening(v) /\ Fits(v)
                                     THEN Append(channel[v], Current(s))
                                     ELSE channel[v]]
  /\ dropped' = [v \in Viewers |-> dropped[v] \/ (Listening(v) /\ ~Fits(v))]
  /\ rpc' = [rpc EXCEPT ![s] = "read"]
  /\ UNCHANGED <<process, taken, ring, viewer, got, all>>

ReaderStep(s) == Read(s) \/ EndRead(s) \/ AppendLine(s) \/ OnOutput(s)

-----------------------------------------------------------------------------
(* process_subscribe, and the write pump.                                  *)

(* The viewer selects the process: a second time in a row changes nothing. *)
Select(v) ==
  /\ vpc[v] = "ready" /\ v \notin watching
  /\ selects[v] > 0
  /\ selects' = [selects EXCEPT ![v] = @ - 1]
  /\ watching' = watching \cup {v}
  /\ vpc' = [vpc EXCEPT ![v] = "lookup"]
  /\ UNCHANGED <<process, taken, rpc, ring, snapshot, evicted, wire, all>>

(* It selects another one.                                                 *)
Leave(v) ==
  /\ vpc[v] = "ready" /\ v \in watching
  /\ watching' = watching \ {v}
  /\ UNCHANGED <<process, taken, rpc, ring, vpc, snapshot, selects, evicted,
                 wire, all>>

FetchHistory(v) ==
  /\ vpc[v] = "lookup"
  /\ \/ /\ phase = "swept"
        /\ vpc' = [vpc EXCEPT ![v] = "ready"]
        /\ evicted' = [evicted EXCEPT ![v] = Len(all)]
        /\ UNCHANGED snapshot
     \/ /\ phase # "swept"
        /\ snapshot' = [snapshot EXCEPT ![v] = LinesOf(ring)]
        /\ evicted' = [evicted EXCEPT ![v] = Len(all) - ring.count]
        /\ vpc' = [vpc EXCEPT ![v] = "history"]
  /\ UNCHANGED <<process, taken, rpc, ring, watching, selects, wire, all>>

SendHistory(v) ==
  /\ vpc[v] = "history"
  /\ \/ /\ snapshot[v] = <<>>
        /\ vpc' = [vpc EXCEPT ![v] = "ready"]
        /\ UNCHANGED <<snapshot, channel, dropped>>
     \/ /\ snapshot[v] # <<>>
        /\ snapshot' = [snapshot EXCEPT ![v] = Tail(@)]
        /\ channel' = IF Fits(v)
                      THEN [channel EXCEPT ![v] = Append(@, Head(snapshot[v]))]
                      ELSE channel
        /\ dropped' = [dropped EXCEPT ![v] = @ \/ ~Fits(v)]
        /\ UNCHANGED vpc
  /\ UNCHANGED <<process, taken, rpc, ring, watching, selects, evicted, got, all>>

Deliver(v) ==
  /\ channel[v] # <<>>
  /\ got' = [got EXCEPT ![v] = @ \cup {Head(channel[v])}]
  /\ channel' = [channel EXCEPT ![v] = Tail(@)]
  /\ UNCHANGED <<process, taken, rpc, ring, viewer, dropped, all>>

HandlerStep(v) == FetchHistory(v) \/ SendHistory(v)

Settled ==
  /\ phase = "swept"
  /\ \A s \in Streams : rpc[s] = "end"
  /\ \A v \in Viewers : vpc[v] = "ready" /\ channel[v] = <<>>

Terminating == Settled /\ UNCHANGED outputVars

OutputNext ==
  \/ \E s \in Streams : Write(s) \/ ReaderStep(s)
  \/ Reap
  \/ \E v \in Viewers : Select(v) \/ Leave(v) \/ HandlerStep(v) \/ Deliver(v)
  \/ Terminating

OutputSpec == OutputInit /\ [][OutputNext]_outputVars

(* Goroutines are scheduled and the network takes what is written to it.   *)
(* The process need not end, and nobody need select it.                    *)
OutputFairness ==
  /\ \A s \in Streams : WF_outputVars(ReaderStep(s))
  /\ \A v \in Viewers : WF_outputVars(HandlerStep(v)) /\ WF_outputVars(Deliver(v))

FairOutputSpec == OutputSpec /\ OutputFairness

-----------------------------------------------------------------------------
(* Properties.                                                             *)

OutputTypeOK ==
  /\ phase \in {"running", "reaped", "reported", "swept"}
  /\ written \in [Streams -> 0..MaxWrites] /\ taken \in [Streams -> 0..MaxWrites]
  /\ rpc \in [Streams -> {"read", "append", "output", "end"}]
  /\ ring.start \in 0..(Cap - 1) /\ ring.count \in 0..Cap
  /\ watching \subseteq Viewers
  /\ vpc \in [Viewers -> {"ready", "lookup", "history"}]
  /\ snapshot \in [Viewers -> Seq(Line)] /\ channel \in [Viewers -> Seq(Line)]
  /\ \A v \in Viewers : Len(channel[v]) <= SendCap
  /\ selects \in [Viewers -> 0..MaxSelects]
  /\ all \in Seq(Line)
  /\ evicted \in [Viewers -> Nat] /\ dropped \in [Viewers -> BOOLEAN]
  /\ got \in [Viewers -> SUBSET Line]

LastOf(seq, n) == SubSeq(seq, Len(seq) - n + 1, Len(seq))

(* Whatever n a caller asks for, Tail returns the last n of the lines that *)
(* were ever appended, as far as the capacity reaches, and Lines returns   *)
(* as many as there are: also after the array has wrapped around.          *)
BufferIsTail ==
  LET kept == IF Len(all) < Cap THEN Len(all) ELSE Cap IN
  /\ LinesOf(ring) = LastOf(all, kept)
  /\ \A n \in 0..(Cap + 1) :
       TailOf(ring, n) = LastOf(all, IF n < kept THEN n ELSE kept)

(* A viewer misses nothing between its history and its live output: every  *)
(* line that the buffer had not evicted when the history was read is on    *)
(* its way to the browser or there, unless the channel overflowed.  A line *)
(* whose goroutine has not called onOutput yet is on its way.              *)
NothingMissed ==
  \A v \in Viewers : v \in watching /\ vpc[v] = "ready" /\ ~dropped[v] =>
    \A n \in (evicted[v] + 1)..Len(all) :
      \/ all[n] \in got[v]
      \/ \E i \in 1..Len(channel[v]) : channel[v][i] = all[n]
      \/ \E s \in Streams : rpc[s] = "output" /\ Current(s) = all[n]

(* Both readers end once the process has exited: none is left in a Read.   *)
ReadersEnd == phase # "running" ~> \A s \in Streams : rpc[s] = "end"
=============================================================================
