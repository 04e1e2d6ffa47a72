------------------------------ MODULE MessageLog ------------------------------
(***************************************************************************)
(* What one agent session writes down: the rows of its conversation, the   *)
(* numbers that order them, the search index and the queue (api/ws.go),    *)
(* with clear, the idle cleanup and a restart of the server.               *)
(*                                                                         *)
(* The runs are reduced to what they write: AgentSession has the rest.     *)
(* Database, index and numbering are separate systems, and a restart can   *)
(* fall between any two of their steps.  Writes that reach the database    *)
(* or the index succeed; every log entry has content.                      *)
(***************************************************************************)
EXTENDS Integers, FiniteSets, Sequences

CONSTANTS
  Sends,      \* goroutines of handleSendMessage
  Posts,      \* goroutines of queueMessage and handleIntervene
  Counters,   \* the counters that getCounter may create
  None,       \* no counter, no instance
  MaxLogs,    \* bound: log entries of one run
  MaxRows,    \* bound: rows ever created
  MaxEvents   \* bound: clears, idle cleanups and restarts

ASSUME NamesAssumption ==
  /\ Sends \cap Posts = {} /\ None \notin Sends \cup Posts \cup Counters
  /\ IsFiniteSet(Sends) /\ Posts # {}
ASSUME BoundsAssumption == MaxLogs \in Nat /\ MaxRows \in Nat /\ MaxEvents \in Nat

VARIABLES
  rows,       \* the messages in the database: [id, no, by, log]
  made,       \* how many were ever created; a row's id is its rank
  indexed,    \* the ids in the search index
  counter,    \* Hub.counters[agentID]
  value,      \* the value of each counter
  instance,   \* Hub.agents[agentID]; instances have the names of sends
  onLog,      \* the counter that an instance's OnLog adds to
  cancelled,  \* Agent.cancelled of each instance
  registered, \* Hub.cancels[agentID] is there
  queue,      \* Hub.queues[agentID]: the ids of the rows it was saved as
  at,         \* where each goroutine is
  ctr,        \* the counter it has got
  works,      \* the instance a send works on
  held,       \* the message count a send has read
  no,         \* the number a goroutine has taken
  mine,       \* the id of the row it wrote last
  logs,       \* how many entries a run has logged
  queueing,   \* the posts that are queueMessage and not handleIntervene
  clear,      \* where handleClear is
  victims,    \* the ids it has read
  before,     \* history: what had been written when it began
  accepted,   \* history: the ids ever queued
  erased,     \* history: the ids a clear deleted from the database
  cut,        \* history: rows that a restart left without their index entry
  crossed,    \* history: a number may have been given twice
  events      \* how often the session was cleared, forgotten or restarted

dbVars      == <<rows, made, indexed>>
hubVars     == <<counter, instance, cancelled, registered, queue>>
localVars   == <<ctr, works, held, no, mine, logs, queueing>>
writerVars  == <<at, localVars>>
clearVars   == <<clear, victims, before>>
historyVars == <<accepted, erased, cut, crossed, events>>
vars == <<dbVars, hubVars, value, onLog, writerVars, clearVars, historyVars>>

Writers == Sends \cup Posts
Ids     == {r.id : r \in rows}

Init ==
  /\ rows = {} /\ made = 0 /\ indexed = {}
  /\ counter = None /\ value = [c \in Counters |-> 0]
  /\ instance = None /\ onLog = [s \in Sends |-> None] /\ cancelled = [s \in Sends |-> FALSE]
  /\ registered = FALSE /\ queue = <<>>
  /\ at = [w \in Writers |-> "idle"] /\ ctr = [w \in Writers |-> None]
  /\ works = [s \in Sends |-> None] /\ held = [s \in Sends |-> 0]
  /\ no = [w \in Writers |-> 0] /\ mine = [w \in Writers |-> 0] /\ logs = [s \in Sends |-> 0]
  /\ queueing = {}
  /\ clear = "idle" /\ victims = {} /\ before = {}
  /\ accepted = {} /\ erased = {} /\ cut = {} /\ crossed = FALSE /\ events = 0

Goto(w, p) == at' = [at EXCEPT ![w] = p]

(* The goroutines that go on with a counter they have got before, the      *)
(* instances that a run works on, and the counters nobody points to.       *)
Holding == {w \in Writers : at[w] \notin {"idle", "count", "get", "pop", "done"}}
InUse   == {instance} \cup {works[s] : s \in Sends}
Fresh   == Counters \ ({ctr[w] : w \in Holding} \cup {onLog[i] : i \in InUse \ {None}})

-----------------------------------------------------------------------------
(* Numbering.                                                              *)

(* getCounter, under agentMu: a new counter starts at 0, and only a send   *)
(* sets it to what the database has.                                       *)
Get(w) ==
  /\ at[w] = "get" /\ Goto(w, IF w \in Sends THEN "store" ELSE "add")
  /\ \/ /\ counter # None /\ ctr' = [ctr EXCEPT ![w] = counter]
        /\ UNCHANGED <<counter, value>>
     \/ /\ counter = None
        /\ Fresh # {}
        /\ counter' = CHOOSE c \in Fresh : TRUE
        /\ ctr' = [ctr EXCEPT ![w] = counter'] /\ value' = [c \in Counters |-> IF c \in Fresh THEN 0 ELSE value[c]]
  /\ UNCHANGED <<dbVars, instance, cancelled, registered, queue, onLog, works, held, no, mine,
                 logs, queueing, clearVars, historyVars>>

(* counter.Add(1).  Mutant: the new value is stored without adding to what *)
(* another goroutine has stored meanwhile.                                 *)
AddedStale(c) == [value EXCEPT ![c] = Cardinality(rows) + 1]
Added(c)      == [value EXCEPT ![c] = @ + 1]

Add(w) ==
  LET c == IF at[w] = "running" THEN onLog[works[w]] ELSE ctr[w] IN
  /\ \/ at[w] = "add" /\ Goto(w, "create") /\ UNCHANGED logs
     \/ /\ w \in Sends /\ at[w] = "running" /\ logs[w] < MaxLogs
        /\ Goto(w, "log") /\ logs' = [logs EXCEPT ![w] = @ + 1]
  /\ value' = Added(c) /\ no' = [no EXCEPT ![w] = value'[c]]
  /\ UNCHANGED <<dbVars, hubVars, onLog, ctr, works, held, mine, queueing, clearVars, historyVars>>

(* database.Create.  Mutant: the row of a user's message is left out.      *)
Row(w)      == [id |-> made + 1, no |-> no[w], by |-> w, log |-> at[w] = "log"]
LogsOnly(w) == rows \cup {r \in {Row(w)} : r.log}
Created(w)  == rows \cup {Row(w)}

Create(w) ==
  /\ at[w] \in {"create", "log"} /\ made < MaxRows
  /\ rows' = Created(w) /\ made' = made + 1 /\ mine' = [mine EXCEPT ![w] = made + 1]
  /\ Goto(w, IF at[w] = "log" THEN "index" ELSE IF w \in Sends THEN "register" ELSE "saved")
  /\ no' = [no EXCEPT ![w] = 0]
  /\ UNCHANGED <<indexed, hubVars, value, onLog, ctr, works, held, logs, queueing, clearVars,
                 historyVars>>

-----------------------------------------------------------------------------
(* handleSendMessage.                                                      *)

(* A message with no run to queue behind; two may find none.               *)
Begin(s) ==
  /\ at[s] = "idle" /\ ~registered /\ Goto(s, "count")
  /\ UNCHANGED <<dbVars, hubVars, value, onLog, localVars, clearVars, historyVars>>

Count(s) ==
  /\ at[s] = "count" /\ Goto(s, "get") /\ held' = [held EXCEPT ![s] = Cardinality(rows)]
  /\ UNCHANGED <<dbVars, hubVars, value, onLog, ctr, works, no, mine, logs, queueing, clearVars, historyVars>>

(* counter.Store(msgCount), whatever the counter has given out meanwhile.  *)
Store(s) ==
  /\ at[s] = "store" /\ Goto(s, "add")
  /\ value' = [value EXCEPT ![ctr[s]] = held[s]] /\ held' = [held EXCEPT ![s] = 0]
  /\ crossed' = (crossed \/ held[s] < value[ctr[s]] \/ \E r \in rows : held[s] < r.no)
  /\ UNCHANGED <<dbVars, hubVars, onLog, ctr, works, no, mine, logs, queueing, clearVars, accepted,
                 erased, cut, events>>

(* The callback of the instance is refreshed, for whoever works on it.     *)
Register(s) ==
  LET i == IF instance = None THEN CHOOSE t \in Sends : t \notin InUse ELSE instance IN
  /\ at[s] = "register" /\ Goto(s, "waiting")
  /\ instance' = i /\ works' = [works EXCEPT ![s] = i]
  /\ onLog' = [onLog EXCEPT ![i] = ctr[s]] /\ ctr' = [ctr EXCEPT ![s] = None]
  /\ cancelled' = [cancelled EXCEPT ![i] = FALSE] /\ registered' = TRUE
  /\ UNCHANGED <<dbVars, counter, queue, value, held, no, mine, logs, queueing, clearVars, historyVars>>

(* Agent.Run holds the mutex of its instance.                              *)
Lock(s) ==
  /\ at[s] = "waiting"
  /\ \A t \in Sends : works[t] = works[s] => at[t] \notin {"running", "log", "index"}
  /\ Goto(s, "running")
  /\ UNCHANGED <<dbVars, hubVars, value, onLog, localVars, clearVars, historyVars>>

(* The log callback indexes what it has saved.                             *)
Index(s) == indexed \cup {mine[s]}

LogIndex(s) ==
  /\ at[s] = "index" /\ Goto(s, "running") /\ indexed' = Index(s)
  /\ mine' = [mine EXCEPT ![s] = 0]
  /\ UNCHANGED <<rows, made, hubVars, value, onLog, ctr, works, held, no, logs, queueing, clearVars,
                 historyVars>>

(* The run is over and its cancel entry deleted; a run that was cancelled  *)
(* exits quietly, others look at the queue.                                *)
End(s) ==
  /\ at[s] = "running" /\ registered' = FALSE
  /\ Goto(s, IF cancelled[works[s]] THEN "done" ELSE "pop")
  /\ works' = [works EXCEPT ![s] = None] /\ logs' = [logs EXCEPT ![s] = 0]
  /\ UNCHANGED <<dbVars, counter, instance, cancelled, queue, value, onLog, ctr, held, no, mine,
                 queueing, clearVars, historyVars>>

(* What is popped goes to a goroutine that begins anew.                    *)
Pop(s) ==
  /\ at[s] = "pop"
  /\ IF queue = <<>> THEN Goto(s, "done") /\ UNCHANGED queue
     ELSE Goto(s, "count") /\ queue' = Tail(queue)
  /\ UNCHANGED <<dbVars, counter, instance, cancelled, registered, value, onLog, ctr, works, held,
                 no, mine, logs, queueing, clearVars, historyVars>>

SendStep(s) ==
  Begin(s) \/ Count(s) \/ Store(s) \/ Register(s) \/ Lock(s) \/ LogIndex(s) \/ End(s) \/ Pop(s)

-----------------------------------------------------------------------------
(* queueMessage and handleIntervene: both save a row first of all; the     *)
(* queue is appended to afterwards.                                        *)

Post(p) ==
  /\ at[p] = "idle" /\ Goto(p, "get")
  /\ \/ registered /\ queueing' = queueing \cup {p}
     \/ instance # None /\ UNCHANGED queueing
  /\ UNCHANGED <<dbVars, hubVars, value, onLog, ctr, works, held, no, mine, logs,
                 clearVars, historyVars>>

AppendToQueue(p) ==
  /\ at[p] = "saved" /\ Goto(p, "done")
  /\ IF p \in queueing THEN queue' = Append(queue, mine[p]) /\ accepted' = accepted \cup {mine[p]}
                         ELSE UNCHANGED <<queue, accepted>>
  /\ queueing' = queueing \ {p}
  /\ ctr' = [ctr EXCEPT ![p] = None] /\ mine' = [mine EXCEPT ![p] = 0]
  /\ UNCHANGED <<dbVars, counter, instance, cancelled, registered, value, onLog, works, held, no, logs,
                 clearVars, erased, cut, crossed, events>>

-----------------------------------------------------------------------------
(* handleClear, and the forgetting of what is in memory.                   *)

(* Somebody will go on with the counter, or has seen the session.          *)
UnderWay == Holding # {} \/ \E p \in Posts : at[p] = "get"

Forget ==
  /\ events < MaxEvents /\ events' = events + 1
  /\ counter' = None /\ instance' = None /\ crossed' = (crossed \/ UnderWay)

Cleanup ==
  /\ clear = "idle" /\ clear' = "select" /\ Forget
  /\ queue' = <<>> /\ registered' = FALSE
  /\ cancelled' = [s \in Sends |-> cancelled[s] \/ s = instance]
  /\ before' = {i \in 1..made : \A w \in Writers : at[w] = "index" => mine[w] # i}
  /\ UNCHANGED <<dbVars, value, onLog, writerVars, victims, accepted, erased, cut>>

Select ==
  /\ clear = "select" /\ clear' = "unindex" /\ victims' = Ids
  /\ UNCHANGED <<dbVars, hubVars, value, onLog, writerVars, before, historyVars>>

(* search.Delete of each.  Mutant: the rows go without their index.        *)
KeepIndex      == indexed
WithoutVictims == indexed \ victims

Unindex ==
  /\ clear = "unindex" /\ clear' = "delete" /\ indexed' = WithoutVictims
  /\ UNCHANGED <<rows, made, hubVars, value, onLog, writerVars, victims, before, historyVars>>

Delete ==
  /\ clear = "delete" /\ clear' = "done" /\ rows' = {} /\ victims' = {} /\ erased' = erased \cup Ids
  /\ UNCHANGED <<made, indexed, hubVars, value, onLog, writerVars, before, accepted, cut,
                 crossed, events>>

ClearStep == Cleanup \/ Select \/ Unindex \/ Delete

(* cleanupIdleAgents: no cancel entry, for half an hour.                   *)
CleanupIdle ==
  /\ instance # None /\ ~registered /\ Forget
  /\ UNCHANGED <<dbVars, cancelled, registered, queue, value, onLog, writerVars, clearVars, accepted,
                 erased, cut>>

(* The server ends and starts again: the rows and the index remain.        *)
Restart ==
  /\ events < MaxEvents /\ events' = events + 1
  /\ counter' = None /\ instance' = None /\ cancelled' = [s \in Sends |-> FALSE]
  /\ registered' = FALSE /\ queue' = <<>>
  /\ value' = [c \in Counters |-> 0] /\ onLog' = [s \in Sends |-> None]
  /\ at' = [w \in Writers |-> "idle"] /\ ctr' = [w \in Writers |-> None]
  /\ works' = [s \in Sends |-> None] /\ held' = [s \in Sends |-> 0]
  /\ no' = [w \in Writers |-> 0] /\ mine' = [w \in Writers |-> 0] /\ logs' = [s \in Sends |-> 0]
  /\ queueing' = {}
  /\ cut' = cut \cup {mine[w] : w \in {v \in Writers : at[v] = "index"}}
                \cup (IF clear = "delete" THEN victims ELSE {})
  /\ crossed' = (crossed \/ \E w \in Writers : at[w] \in {"create", "log"})
  /\ clear' = (IF clear = "done" THEN "done" ELSE "idle") /\ victims' = {}
  /\ before' = (IF clear = "done" THEN before ELSE {})
  /\ UNCHANGED <<dbVars, accepted, erased>>

Next ==
  \/ \E w \in Writers : Get(w) \/ Add(w) \/ Create(w)
  \/ \E s \in Sends : SendStep(s)
  \/ \E p \in Posts : Post(p) \/ AppendToQueue(p)
  \/ ClearStep \/ CleanupIdle \/ Restart

Spec == Init /\ [][Next]_vars

-----------------------------------------------------------------------------
(* Properties.                                                             *)

DbTypes ==
  /\ rows \subseteq [id : 1..MaxRows, no : Nat, by : Writers, log : BOOLEAN]
  /\ made \in 0..MaxRows /\ indexed \subseteq 1..MaxRows

HubTypes ==
  /\ counter \in Counters \cup {None} /\ value \in [Counters -> Nat]
  /\ instance \in Sends \cup {None} /\ onLog \in [Sends -> Counters \cup {None}]
  /\ cancelled \in [Sends -> BOOLEAN] /\ registered \in BOOLEAN /\ queue \in Seq(1..MaxRows)

Positions == {"idle", "count", "get", "store", "add", "create", "saved", "register", "waiting",
           "running", "log", "index", "pop", "done"}

WriterTypes ==
  /\ at \in [Writers -> Positions]
  /\ ctr \in [Writers -> Counters \cup {None}] /\ works \in [Sends -> Sends \cup {None}]
  /\ held \in [Sends -> Nat] /\ no \in [Writers -> Nat] /\ mine \in [Writers -> 0..MaxRows]
  /\ logs \in [Sends -> 0..MaxLogs] /\ queueing \subseteq Posts

ClearTypes ==
  /\ clear \in {"idle", "select", "unindex", "delete", "done"}
  /\ victims \subseteq 1..MaxRows /\ before \subseteq 1..MaxRows
  /\ accepted \subseteq 1..MaxRows /\ erased \subseteq 1..MaxRows /\ cut \subseteq 1..MaxRows
  /\ crossed \in BOOLEAN /\ events \in 0..MaxEvents

(* Every variable stays in its type.                                       *)
TypeOK == DbTypes /\ HubTypes /\ WriterTypes /\ ClearTypes

(* No two messages have one number, and those of one goroutine are         *)
(* numbered in the order they were saved in, unless the start of a run has *)
(* set the counter back while another one used it, or the session was      *)
(* forgotten or restarted under a writer.                                  *)
NumberingSound ==
  crossed \/ \A a, b \in rows :
               /\ a # b => a.no # b.no
               /\ a.by = b.by /\ a.id < b.id => a.no < b.no

(* What a run has logged can be found by search, unless a restart came in  *)
(* between or a clear is about to delete the row, too.                     *)
LoggedIsIndexed ==
  \A r \in rows :
    r.log => \/ r.id \in indexed \cup cut
             \/ \E s \in Sends : at[s] = "index" /\ mine[s] = r.id
             \/ clear = "delete" /\ r.id \in victims

(* What was saved and indexed when a clear began is gone after it from the *)
(* database and from the index, and stays gone, whatever still runs.       *)
ClearForgets ==
  clear = "done" => before \cap (Ids \cup indexed) = {}

(* A message that was queued is in the conversation until a clear deletes  *)
(* it: a restart loses the queue and not the message.                      *)
AcceptedIsSaved == accepted \subseteq Ids \cup erased
=============================================================================
