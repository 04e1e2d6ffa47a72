--------------------------- MODULE MessageLogProofs ---------------------------
(***************************************************************************)
(* Proofs about MessageLog, for any number of sends, posts and counters    *)
(* and any bounds: the variables keep their types, a queued message is in  *)
(* the conversation until a clear deletes it, what a clear found stays     *)
(* gone, what a run has logged is in the search index, and the messages    *)
(* are numbered in order while the counter is not set back.                *)
(*                                                                         *)
(* Places says which of its variables a goroutine has set where it stands. *)
(* ClearInv follows a clear from one of its steps to the next: what it     *)
(* found and has not deleted yet is among its victims, and no log callback *)
(* that is about to index a row has one of them in hand.  NumberInv knows  *)
(* the one counter that numbers are taken from, and that it is above them. *)
(***************************************************************************)
EXTENDS MessageLog, FiniteSetTheorems, TLAPS

Working == {"waiting", "running", "log", "index"}

WorksSet ==
  \A s \in Sends : /\ works[s] # None => at[s] \in Working
                   /\ at[s] \in Working => works[s] \in Sends /\ onLog[works[s]] \in Counters
CounterSet ==
  \A w \in Writers : at[w] \in {"store", "add", "create", "register"} => ctr[w] \in Counters
RowSet     == \A w \in Writers : at[w] \in {"saved", "index"} => mine[w] \in 1..made
PostPlaces == \A p \in Posts : at[p] \in {"idle", "get", "add", "create", "saved", "done"}

Places == WorksSet /\ CounterSet /\ RowSet /\ PostPlaces

TypeInv == TypeOK /\ Places /\ IsFiniteSet(rows)

SavedInv ==
  /\ AcceptedIsSaved
  /\ \A p \in Posts : at[p] = "saved" => mine[p] \in Ids \cup erased

ClearInv ==
  /\ ClearForgets
  /\ Ids \subseteq 1..made /\ before \subseteq 1..made
  /\ clear # "idle" => \A w \in Writers : at[w] = "index" => mine[w] \notin before
  /\ clear # "done" => /\ indexed \subseteq Ids
                       /\ \A w \in Writers : at[w] = "index" => mine[w] \in Ids
  /\ clear = "unindex" => before \cap Ids \subseteq victims
  /\ clear = "delete" => before \cap indexed = {}

-----------------------------------------------------------------------------
(* Types.                                                                  *)

(* A send that is about to register finds an instance nobody works on:     *)
(* there is one for every send, and it works on none itself.               *)
LEMMA FreeInstance ==
  ASSUME TypeInv, NEW s \in Sends, at[s] = "register", instance = None
  PROVE  \E t \in Sends : t \notin InUse
<1> DEFINE others == Sends \ {s}
           used   == {works[t] : t \in others}
<1>1. works[s] = None
  BY DEF TypeInv, Places, WorksSet, CounterSet, RowSet, PostPlaces, Working
<1>2. IsFiniteSet(Sends) /\ IsFiniteSet(others) /\ Cardinality(others) = Cardinality(Sends) - 1
  BY NamesAssumption, FS_RemoveElement
<1>3. IsFiniteSet(used) /\ Cardinality(used) <= Cardinality(others)
  <2> DEFINE f == [t \in others |-> works[t]]
  <2>1. f \in Surjection(others, used)
    BY DEF Surjection
  <2> QED
    BY <1>2, <2>1, FS_Surjection
<1>4. Cardinality(Sends) \in Nat /\ Cardinality(used) \in Nat
  BY <1>2, <1>3, FS_CardinalityType
<1>5. ~(Sends \subseteq used)
  BY <1>2, <1>3, <1>4, FS_Subset
<1>6. InUse \subseteq used \cup {None}
  BY <1>1 DEF InUse
<1>7. None \notin Sends
  BY NamesAssumption DEF Writers
<1> QED
  BY <1>5, <1>6, <1>7

LEMMA SeqOps ==
  ASSUME NEW S
  PROVE  /\ <<>> \in Seq(S)
         /\ \A q \in Seq(S) : /\ q # <<>> => Tail(q) \in Seq(S)
                              /\ \A e \in S : Append(q, e) \in Seq(S)
OBVIOUS

LEMMA QueueOps ==
  /\ <<>> \in Seq(1..MaxRows)
  /\ \A q \in Seq(1..MaxRows) : /\ q # <<>> => Tail(q) \in Seq(1..MaxRows)
                                /\ \A e \in 1..MaxRows : Append(q, e) \in Seq(1..MaxRows)
<1> DEFINE R == 1..MaxRows
<1> HIDE DEF R
<1>1. /\ <<>> \in Seq(R)
      /\ \A q \in Seq(R) : /\ q # <<>> => Tail(q) \in Seq(R)
                           /\ \A e \in R : Append(q, e) \in Seq(R)
  BY SeqOps
<1> QED
  BY <1>1 DEF R

LEMMA TypeInit == Init => TypeInv
<1> SUFFICES ASSUME Init PROVE TypeInv
  OBVIOUS
<1>1. DbTypes
  <2>1. rows = {} /\ made \in 0..MaxRows /\ indexed = {}
    BY BoundsAssumption DEF Init
  <2> QED
    BY <2>1 DEF DbTypes
<1>2. ClearTypes
  <2>1. 0 \in 0..MaxEvents
    BY BoundsAssumption
  <2> QED
    BY <2>1 DEF Init, ClearTypes
<1>3. HubTypes
  <2>1. queue \in Seq(1..MaxRows)
    BY QueueOps DEF Init
  <2> QED
    BY <2>1 DEF Init, HubTypes
<1>4. WriterTypes
  BY BoundsAssumption DEF Init, WriterTypes, Positions
<1>5. Places
  BY NamesAssumption DEF Init, Places, WorksSet, CounterSet, RowSet, PostPlaces, Working, Writers
<1>6. IsFiniteSet(rows)
  BY FS_EmptySet DEF Init
<1> QED
  BY <1>1, <1>2, <1>3, <1>4, <1>5, <1>6 DEF TypeInv, TypeOK

(* The facts about the goroutines that the proofs need again and again.    *)
LEMMA Roles ==
  /\ Sends \subseteq Writers /\ Posts \subseteq Writers /\ Sends \cap Posts = {}
  /\ None \notin Sends /\ None \notin Counters
BY NamesAssumption DEF Writers

LEMMA Numbers ==
  ASSUME TypeInv
  PROVE  /\ made \in Nat /\ made <= MaxRows
         /\ \A w \in Writers : at[w] \in {"saved", "index"} => mine[w] \in 1..MaxRows
         /\ Ids \subseteq 1..MaxRows
<1>1. made \in Nat /\ made <= MaxRows
  BY BoundsAssumption DEF TypeInv, TypeOK, DbTypes
<1>2. Ids \subseteq 1..MaxRows
  BY DEF TypeInv, TypeOK, DbTypes, Ids
<1>3. \A w \in Writers : at[w] \in {"saved", "index"} => mine[w] \in 1..made
  BY DEF TypeInv, Places, WorksSet, CounterSet, RowSet, PostPlaces
<1> QED
  BY <1>1, <1>2, <1>3, BoundsAssumption

(* The counter that Add adds to is one.                                    *)
LEMMA CounterThere ==
  ASSUME TypeInv, NEW w \in Writers, Add(w)
  PROVE  \E c \in Counters : value' = [value EXCEPT ![c] = @ + 1] /\ no' = [no EXCEPT ![w] = value'[c]]
<1> DEFINE c == IF at[w] = "running" THEN onLog[works[w]] ELSE ctr[w]
<1>1. c \in Counters
  BY Roles DEF Add, TypeInv, Places, WorksSet, CounterSet, RowSet, PostPlaces, Working
<1>2. value' = [value EXCEPT ![c] = @ + 1] /\ no' = [no EXCEPT ![w] = value'[c]]
  BY DEF Add, Added
<1> QED
  BY <1>1, <1>2

LEMMA InstanceThere ==
  ASSUME TypeInv, NEW s \in Sends, Register(s)
  PROVE  \E i \in Sends : /\ instance' = i /\ works' = [works EXCEPT ![s] = i]
                          /\ onLog' = [onLog EXCEPT ![i] = ctr[s]]
                          /\ cancelled' = [cancelled EXCEPT ![i] = FALSE]
<1> DEFINE i == IF instance = None THEN CHOOSE t \in Sends : t \notin InUse ELSE instance
<1>1. i \in Sends
  BY FreeInstance DEF Register, TypeInv, TypeOK, HubTypes
<1>2. /\ instance' = i /\ works' = [works EXCEPT ![s] = i]
      /\ onLog' = [onLog EXCEPT ![i] = ctr[s]]
      /\ cancelled' = [cancelled EXCEPT ![i] = FALSE]
  BY DEF Register
<1> QED
  BY <1>1, <1>2

LEMMA NewCounter ==
  ASSUME NEW w \in Writers, Get(w), counter \in Counters \cup {None}
  PROVE  counter' \in Counters /\ ctr' = [ctr EXCEPT ![w] = counter']
<1>1. CASE counter # None
  BY <1>1 DEF Get, hubVars
<1>2. CASE counter = None
  <2> DEFINE new == CHOOSE c \in Fresh : TRUE
  <2>1. new \in Counters /\ counter' = new /\ ctr' = [ctr EXCEPT ![w] = counter']
    BY <1>2 DEF Get, Fresh
  <2> HIDE DEF new
  <2> QED
    BY <2>1
<1> QED
  BY <1>1, <1>2

LEMMA RowsChange ==
  ASSUME [Next]_vars
  PROVE  \/ \E w \in Writers : Create(w)
         \/ Delete
         \/ rows' = rows
BY DEF Next, SendStep, ClearStep, vars, dbVars, Get, Add, Begin, Count, Store, Register, Lock,
       LogIndex, End, Pop, Post, AppendToQueue, Cleanup, Select, Unindex, CleanupIdle, Restart

LEMMA DbTypesNext == TypeInv /\ [Next]_vars => DbTypes'
<1> SUFFICES ASSUME TypeInv, [Next]_vars PROVE DbTypes'
  OBVIOUS
<1>0. DbTypes
  BY DEF TypeInv, TypeOK
<1> USE DEF Goto, dbVars, hubVars, localVars, writerVars, clearVars, historyVars
<1>1. ASSUME NEW w \in Writers, Get(w) \/ Add(w) PROVE DbTypes'
  BY <1>0, <1>1 DEF Get, Add, DbTypes
<1>2. ASSUME NEW w \in Writers, Create(w) PROVE DbTypes'
  <2>1. made + 1 \in 1..MaxRows /\ rows' = rows \cup {Row(w)} /\ made' = made + 1
    BY <1>0, <1>2, BoundsAssumption DEF Create, Created, DbTypes
  <2>2. no[w] \in Nat
    BY DEF TypeInv, TypeOK, WriterTypes, Positions
  <2>3. Row(w) \in [id : 1..MaxRows, no : Nat, by : Writers, log : BOOLEAN]
    BY <2>1, <2>2 DEF Row
  <2>4. indexed' = indexed
    BY <1>2 DEF Create
  <2> QED
    BY <1>0, <2>1, <2>3, <2>4 DEF DbTypes
<1>3. ASSUME NEW s \in Sends, Begin(s) \/ Count(s) \/ Store(s) \/ Register(s) \/ Lock(s) \/ End(s) \/ Pop(s) PROVE DbTypes'
  BY <1>0, <1>3 DEF Begin, Count, Store, Register, Lock, End, Pop, DbTypes
<1>4. ASSUME NEW s \in Sends, LogIndex(s) PROVE DbTypes'
  BY <1>0, <1>4, Numbers, Roles DEF LogIndex, Index, DbTypes
<1>5. ASSUME NEW p \in Posts, Post(p) \/ AppendToQueue(p) PROVE DbTypes'
  BY <1>0, <1>5 DEF Post, AppendToQueue, DbTypes
<1>6. CASE Cleanup \/ CleanupIdle \/ Restart
  BY <1>0, <1>6 DEF Cleanup, CleanupIdle, Restart, DbTypes
<1>7. CASE Select \/ Unindex \/ Delete
  BY <1>0, <1>7 DEF Select, Unindex, Delete, WithoutVictims, DbTypes
<1>8. CASE UNCHANGED vars
  BY <1>0, <1>8 DEF vars, DbTypes
<1> QED
  BY <1>1, <1>2, <1>3, <1>4, <1>5, <1>6, <1>7, <1>8 DEF Next, SendStep, ClearStep

LEMMA HubTypesNext == TypeInv /\ [Next]_vars => HubTypes'
<1> SUFFICES ASSUME TypeInv, [Next]_vars PROVE HubTypes'
  OBVIOUS
<1>0. HubTypes
  BY DEF TypeInv, TypeOK
<1> USE DEF Goto, dbVars, hubVars, localVars, writerVars, clearVars, historyVars
<1>1. ASSUME NEW w \in Writers, Get(w) PROVE HubTypes'
  <2>1. counter' \in Counters
    BY <1>0, <1>1, NewCounter DEF HubTypes
  <2>2. value' \in [Counters -> Nat]
    BY <1>0, <1>1 DEF Get, HubTypes
  <2> QED
    BY <1>0, <1>1, <2>1, <2>2 DEF Get, HubTypes
<1>2. ASSUME NEW w \in Writers, Add(w) PROVE HubTypes'
  <2>1. value' \in [Counters -> Nat]
    BY <1>0, <1>2, CounterThere DEF HubTypes
  <2> QED
    BY <1>0, <1>2, <2>1 DEF Add, HubTypes
<1>3. ASSUME NEW w \in Writers, Create(w) PROVE HubTypes'
  BY <1>0, <1>3 DEF Create, HubTypes
<1>4. ASSUME NEW s \in Sends, Begin(s) \/ Count(s) \/ Lock(s) \/ LogIndex(s) PROVE HubTypes'
  BY <1>0, <1>4 DEF Begin, Count, Lock, LogIndex, HubTypes
<1>5. ASSUME NEW s \in Sends, Store(s) PROVE HubTypes'
  <2>1. held[s] \in Nat
    BY DEF TypeInv, TypeOK, WriterTypes, Positions
  <2> QED
    BY <1>0, <1>5, <2>1 DEF Store, HubTypes
<1>6. ASSUME NEW s \in Sends, Register(s) PROVE HubTypes'
  <2>1. ctr[s] \in Counters
    BY <1>6, Roles DEF Register, TypeInv, Places, WorksSet, CounterSet, RowSet, PostPlaces
  <2> QED
    BY <1>0, <1>6, <2>1, InstanceThere DEF Register, HubTypes
<1>7. ASSUME NEW s \in Sends, End(s) \/ Pop(s) PROVE HubTypes'
  <2>1. queue' \in Seq(1..MaxRows)
    BY <1>0, <1>7, QueueOps DEF End, Pop, HubTypes
  <2> QED
    BY <1>0, <1>7, <2>1 DEF End, Pop, HubTypes
<1>8. ASSUME NEW p \in Posts, Post(p) PROVE HubTypes'
  BY <1>0, <1>8 DEF Post, HubTypes
<1>9. ASSUME NEW p \in Posts, AppendToQueue(p) PROVE HubTypes'
  <2>1. mine[p] \in 1..MaxRows
    BY <1>9, Numbers, Roles DEF AppendToQueue
  <2>2. queue' \in Seq(1..MaxRows)
    BY <1>0, <1>9, <2>1, QueueOps DEF AppendToQueue, HubTypes
  <2> QED
    BY <1>0, <1>9, <2>2 DEF AppendToQueue, HubTypes
<1>10. CASE Cleanup \/ CleanupIdle
  <2>1. queue' \in Seq(1..MaxRows)
    BY <1>0, <1>10, QueueOps DEF Cleanup, CleanupIdle, HubTypes
  <2> QED
    BY <1>0, <1>10, <2>1 DEF Cleanup, CleanupIdle, Forget, HubTypes
<1>11. CASE Select \/ Unindex \/ Delete
  BY <1>0, <1>11 DEF Select, Unindex, Delete, HubTypes
<1>12. CASE Restart
  <2>1. queue' \in Seq(1..MaxRows)
    BY <1>12, QueueOps DEF Restart
  <2> QED
    BY <1>0, <1>12, <2>1 DEF Restart, HubTypes
<1>13. CASE UNCHANGED vars
  BY <1>0, <1>13 DEF vars, HubTypes
<1> QED
  BY <1>1, <1>2, <1>3, <1>4, <1>5, <1>6, <1>7, <1>8, <1>9, <1>10, <1>11, <1>12, <1>13 DEF Next,
     SendStep, ClearStep

LEMMA WriterTypesNext == TypeInv /\ [Next]_vars => WriterTypes'
<1> SUFFICES ASSUME TypeInv, [Next]_vars PROVE WriterTypes'
  OBVIOUS
<1>0. WriterTypes
  BY DEF TypeInv, TypeOK
<1> USE Roles
    DEF Goto, dbVars, hubVars, localVars, writerVars, clearVars, historyVars
<1>1. ASSUME NEW w \in Writers, Get(w) PROVE WriterTypes'
  <2>1. ctr' \in [Writers -> Counters \cup {None}]
    BY <1>0, <1>1, NewCounter DEF WriterTypes, TypeInv, TypeOK, HubTypes
  <2> QED
    BY <1>0, <1>1, <2>1 DEF Get, WriterTypes, Positions
<1>2. ASSUME NEW w \in Writers, Add(w) PROVE WriterTypes'
  <2>1. no' \in [Writers -> Nat]
    <3>1. PICK c \in Counters : /\ value' = [value EXCEPT ![c] = @ + 1]
                                /\ no' = [no EXCEPT ![w] = value'[c]]
      BY <1>2, CounterThere
    <3>2. value'[c] \in Nat
      BY <3>1 DEF TypeInv, TypeOK, HubTypes
    <3> QED
      BY <1>0, <3>1, <3>2 DEF WriterTypes
  <2>2. logs' \in [Sends -> 0..MaxLogs]
    BY <1>0, <1>2, BoundsAssumption DEF Add, WriterTypes, Positions
  <2> QED
    BY <1>0, <1>2, <2>1, <2>2 DEF Add, WriterTypes, Positions
<1>3. ASSUME NEW w \in Writers, Create(w) PROVE WriterTypes'
  <2>1. made + 1 \in 0..MaxRows
    BY <1>3, Numbers, BoundsAssumption DEF Create
  <2> QED
    BY <1>0, <1>3, <2>1 DEF Create, WriterTypes, Positions
<1>4. ASSUME NEW s \in Sends, Begin(s) \/ Lock(s) PROVE WriterTypes'
  BY <1>0, <1>4 DEF Begin, Lock, WriterTypes, Positions
<1>5. ASSUME NEW s \in Sends, Count(s) PROVE WriterTypes'
  <2>1. Cardinality(rows) \in Nat
    BY FS_CardinalityType DEF TypeInv
  <2> QED
    BY <1>0, <1>5, <2>1 DEF Count, WriterTypes, Positions
<1>6. ASSUME NEW s \in Sends, Store(s) PROVE WriterTypes'
  BY <1>0, <1>6 DEF Store, WriterTypes, Positions
<1>7. ASSUME NEW s \in Sends, Register(s) PROVE WriterTypes'
  <2>1. works' \in [Sends -> Sends \cup {None}]
    BY <1>0, <1>7, InstanceThere DEF WriterTypes
  <2> QED
    BY <1>0, <1>7, <2>1 DEF Register, WriterTypes, Positions
<1>8. ASSUME NEW s \in Sends, LogIndex(s) PROVE WriterTypes'
  BY <1>0, <1>8, BoundsAssumption DEF LogIndex, WriterTypes, Positions
<1>9. ASSUME NEW s \in Sends, End(s) PROVE WriterTypes'
  BY <1>0, <1>9, BoundsAssumption DEF End, WriterTypes, Positions
<1>10. ASSUME NEW s \in Sends, Pop(s) PROVE WriterTypes'
  BY <1>0, <1>10 DEF Pop, WriterTypes, Positions
<1>11. ASSUME NEW p \in Posts, Post(p) PROVE WriterTypes'
  BY <1>0, <1>11 DEF Post, WriterTypes, Positions
<1>12. ASSUME NEW p \in Posts, AppendToQueue(p) PROVE WriterTypes'
  BY <1>0, <1>12, BoundsAssumption DEF AppendToQueue, WriterTypes, Positions
<1>13. CASE Cleanup \/ Select \/ Unindex \/ Delete \/ CleanupIdle
  BY <1>0, <1>13 DEF Cleanup, Select, Unindex, Delete, CleanupIdle, WriterTypes, Positions
<1>14. CASE Restart
  BY <1>0, <1>14, BoundsAssumption DEF Restart, WriterTypes, Positions
<1>15. CASE UNCHANGED vars
  BY <1>0, <1>15 DEF vars, WriterTypes, Positions
<1> QED
  BY <1>1, <1>2, <1>3, <1>4, <1>5, <1>6, <1>7, <1>8, <1>9, <1>10, <1>11, <1>12, <1>13, <1>14,
     <1>15 DEF Next, SendStep, ClearStep

LEMMA ClearTypesNext == TypeInv /\ [Next]_vars => ClearTypes'
<1> SUFFICES ASSUME TypeInv, [Next]_vars PROVE ClearTypes'
  OBVIOUS
<1>0. ClearTypes
  BY DEF TypeInv, TypeOK
<1> USE DEF Goto, dbVars, hubVars, localVars, writerVars, clearVars, historyVars
<1>1. ASSUME NEW w \in Writers, Get(w) \/ Add(w) \/ Create(w) PROVE ClearTypes'
  BY <1>0, <1>1 DEF Get, Add, Create, ClearTypes
<1>2. ASSUME NEW s \in Sends, Begin(s) \/ Count(s) \/ Register(s) \/ Lock(s) \/ LogIndex(s) \/ End(s) \/ Pop(s) PROVE ClearTypes'
  BY <1>0, <1>2 DEF Begin, Count, Register, Lock, LogIndex, End, Pop, ClearTypes
<1>3. ASSUME NEW s \in Sends, Store(s) PROVE ClearTypes'
  BY <1>0, <1>3 DEF Store, ClearTypes
<1>4. ASSUME NEW p \in Posts, Post(p) PROVE ClearTypes'
  BY <1>0, <1>4 DEF Post, ClearTypes
<1>5. ASSUME NEW p \in Posts, AppendToQueue(p) PROVE ClearTypes'
  <2>1. mine[p] \in 1..MaxRows
    BY <1>5, Numbers, Roles DEF AppendToQueue
  <2> QED
    BY <1>0, <1>5, <2>1 DEF AppendToQueue, ClearTypes
<1>6. CASE Cleanup
  <2>1. before' \subseteq 1..MaxRows
    BY <1>6, Numbers, BoundsAssumption DEF Cleanup
  <2> QED
    BY <1>0, <1>6, <2>1, BoundsAssumption DEF Cleanup, Forget, ClearTypes
<1>7. CASE Select \/ Unindex \/ Delete
  BY <1>0, <1>7, Numbers DEF Select, Unindex, Delete, ClearTypes
<1>8. CASE CleanupIdle
  BY <1>0, <1>8, BoundsAssumption DEF CleanupIdle, Forget, ClearTypes
<1>9. CASE Restart
  <2>1. cut' \subseteq 1..MaxRows
    BY <1>0, <1>9, Numbers DEF Restart, ClearTypes
  <2>2. events' \in 0..MaxEvents
    BY <1>0, <1>9, BoundsAssumption DEF Restart, ClearTypes
  <2> QED
    BY <1>0, <1>9, <2>1, <2>2 DEF Restart, ClearTypes
<1>10. CASE UNCHANGED vars
  BY <1>0, <1>10 DEF vars, ClearTypes
<1> QED
  BY <1>1, <1>2, <1>3, <1>4, <1>5, <1>6, <1>7, <1>8, <1>9, <1>10 DEF Next, SendStep, ClearStep

LEMMA PlacesNext == TypeInv /\ [Next]_vars => Places'
<1> SUFFICES ASSUME TypeInv, [Next]_vars PROVE Places'
  OBVIOUS
<1>0. /\ WorksSet /\ CounterSet /\ RowSet /\ PostPlaces
      /\ WriterTypes /\ HubTypes
  BY DEF TypeInv, TypeOK, Places
<1> USE Roles
    DEF Goto, dbVars, hubVars, localVars, writerVars, clearVars, historyVars, Working, WriterTypes, Positions, HubTypes
<1>1. ASSUME NEW w \in Writers, Get(w) PROVE Places'
  <2>1. ctr' = [ctr EXCEPT ![w] = counter'] /\ counter' \in Counters
    BY <1>0, <1>1, NewCounter DEF HubTypes
  <2> QED
    BY <1>0, <1>1, <2>1 DEF Get, Places, WorksSet, CounterSet, RowSet, PostPlaces
<1>2. ASSUME NEW w \in Writers, Add(w) PROVE Places'
  <2>a1. WorksSet'
    BY <1>0, <1>2 DEF Add, WorksSet
  <2>a2. CounterSet'
    BY <1>0, <1>2 DEF Add, CounterSet
  <2>a3. RowSet'
    BY <1>0, <1>2 DEF Add, RowSet
  <2>a4. PostPlaces'
    BY <1>0, <1>2 DEF Add, PostPlaces
  <2> QED
    BY <2>a1, <2>a2, <2>a3, <2>a4 DEF Places
<1>3. ASSUME NEW w \in Writers, Create(w) PROVE Places'
  <2>1. made \in Nat
    BY Numbers
  <2>a1. WorksSet'
    <3>1. CASE at[w] = "log"
      <4>1. at' = [at EXCEPT ![w] = "index"] /\ UNCHANGED <<works, onLog, ctr>>
        BY <1>3, <3>1 DEF Create
      <4> QED
        BY <1>0, <3>1, <4>1 DEF WorksSet
    <3>2. CASE at[w] = "create"
      <4>1. /\ at' = [at EXCEPT ![w] = IF w \in Sends THEN "register" ELSE "saved"]
            /\ UNCHANGED <<works, onLog, ctr>>
        BY <1>3, <3>2 DEF Create
      <4> QED
        BY <1>0, <3>2, <4>1 DEF WorksSet
    <3> QED
      BY <1>3, <3>1, <3>2 DEF Create
  <2>a2. CounterSet'
    <3>1. CASE at[w] = "log"
      <4>1. at' = [at EXCEPT ![w] = "index"] /\ UNCHANGED <<works, onLog, ctr>>
        BY <1>3, <3>1 DEF Create
      <4> QED
        BY <1>0, <3>1, <4>1 DEF CounterSet
    <3>2. CASE at[w] = "create"
      <4>1. /\ at' = [at EXCEPT ![w] = IF w \in Sends THEN "register" ELSE "saved"]
            /\ UNCHANGED <<works, onLog, ctr>>
        BY <1>3, <3>2 DEF Create
      <4> QED
        BY <1>0, <3>2, <4>1 DEF CounterSet
    <3> QED
      BY <1>3, <3>1, <3>2 DEF Create
  <2>a3. RowSet'
    BY <1>0, <1>3, <2>1 DEF Create, RowSet
  <2>a4. PostPlaces'
    BY <1>0, <1>3, <2>1 DEF Create, PostPlaces
  <2> QED
    BY <2>a1, <2>a2, <2>a3, <2>a4 DEF Places
<1>4. ASSUME NEW s \in Sends, Begin(s) \/ Count(s) \/ Store(s) PROVE Places'
  <2>a1. WorksSet'
    BY <1>0, <1>4 DEF Begin, Count, Store, WorksSet
  <2>a2. CounterSet'
    BY <1>0, <1>4 DEF Begin, Count, Store, CounterSet
  <2>a3. RowSet'
    BY <1>0, <1>4 DEF Begin, Count, Store, RowSet
  <2>a4. PostPlaces'
    BY <1>0, <1>4 DEF Begin, Count, Store, PostPlaces
  <2> QED
    BY <2>a1, <2>a2, <2>a3, <2>a4 DEF Places
<1>5. ASSUME NEW s \in Sends, Register(s) PROVE Places'
  <2>1. ctr[s] \in Counters
    BY <1>0, <1>5 DEF Register, Places, WorksSet, CounterSet, RowSet, PostPlaces
  <2>a1. WorksSet'
    <3>1. PICK i \in Sends : /\ works' = [works EXCEPT ![s] = i]
                             /\ onLog' = [onLog EXCEPT ![i] = ctr[s]]
      BY <1>5, InstanceThere
    <3>2. at' = [at EXCEPT ![s] = "waiting"]
      BY <1>5 DEF Register
    <3> QED
      BY <1>0, <2>1, <3>1, <3>2 DEF WorksSet
  <2>a2. CounterSet'
    BY <1>0, <1>5, <2>1, InstanceThere DEF Register, CounterSet
  <2>a3. RowSet'
    BY <1>0, <1>5, <2>1, InstanceThere DEF Register, RowSet
  <2>a4. PostPlaces'
    BY <1>0, <1>5, <2>1, InstanceThere DEF Register, PostPlaces
  <2> QED
    BY <2>a1, <2>a2, <2>a3, <2>a4 DEF Places
<1>6. ASSUME NEW s \in Sends, Lock(s) PROVE Places'
  BY <1>0, <1>6 DEF Lock, Places, WorksSet, CounterSet, RowSet, PostPlaces
<1>7. ASSUME NEW s \in Sends, LogIndex(s) PROVE Places'
  BY <1>0, <1>7 DEF LogIndex, Places, WorksSet, CounterSet, RowSet, PostPlaces
<1>8. ASSUME NEW s \in Sends, End(s) PROVE Places'
  BY <1>0, <1>8 DEF End, Places, WorksSet, CounterSet, RowSet, PostPlaces
<1>9. ASSUME NEW s \in Sends, Pop(s) PROVE Places'
  <2>a1. WorksSet'
    BY <1>0, <1>9 DEF Pop, WorksSet
  <2>a2. CounterSet'
    BY <1>0, <1>9 DEF Pop, CounterSet
  <2>a3. RowSet'
    BY <1>0, <1>9 DEF Pop, RowSet
  <2>a4. PostPlaces'
    BY <1>0, <1>9 DEF Pop, PostPlaces
  <2> QED
    BY <2>a1, <2>a2, <2>a3, <2>a4 DEF Places
<1>10. ASSUME NEW p \in Posts, Post(p) \/ AppendToQueue(p) PROVE Places'
  <2>a1. WorksSet'
    BY <1>0, <1>10 DEF Post, AppendToQueue, WorksSet
  <2>a2. CounterSet'
    BY <1>0, <1>10 DEF Post, AppendToQueue, CounterSet
  <2>a3. RowSet'
    BY <1>0, <1>10 DEF Post, AppendToQueue, RowSet
  <2>a4. PostPlaces'
    BY <1>0, <1>10 DEF Post, AppendToQueue, PostPlaces
  <2> QED
    BY <2>a1, <2>a2, <2>a3, <2>a4 DEF Places
<1>11. CASE Cleanup \/ Select \/ Unindex \/ Delete \/ CleanupIdle
  BY <1>0, <1>11 DEF Cleanup, Select, Unindex, Delete, CleanupIdle, Forget, Places, WorksSet, CounterSet, RowSet, PostPlaces
<1>12. CASE Restart
  BY <1>0, <1>12 DEF Restart, Places, WorksSet, CounterSet, RowSet, PostPlaces
<1>13. CASE UNCHANGED vars
  BY <1>0, <1>13 DEF vars, Places, WorksSet, CounterSet, RowSet, PostPlaces
<1> QED
  BY <1>1, <1>2, <1>3, <1>4, <1>5, <1>6, <1>7, <1>8, <1>9, <1>10, <1>11, <1>12, <1>13 DEF Next,
     SendStep, ClearStep

LEMMA TypeNext == TypeInv /\ [Next]_vars => TypeInv'
<1> SUFFICES ASSUME TypeInv, [Next]_vars PROVE TypeInv'
  OBVIOUS
<1>1. ASSUME NEW w \in Writers, Create(w) PROVE IsFiniteSet(rows')
  BY <1>1, FS_AddElement DEF Create, Created, TypeInv
<1>2. ASSUME Delete PROVE IsFiniteSet(rows')
  BY <1>2, FS_EmptySet DEF Delete
<1>3. IsFiniteSet(rows')
  BY <1>1, <1>2, RowsChange DEF TypeInv
<1> QED
  BY <1>3, DbTypesNext, HubTypesNext, WriterTypesNext, ClearTypesNext, PlacesNext
  DEF TypeInv, TypeOK

(* Every variable of the session's log stays in its type.                  *)
THEOREM TypeCorrect == Spec => []TypeOK
<1>1. Spec => []TypeInv
  BY TypeInit, TypeNext, PTL DEF Spec
<1> QED
  BY <1>1, PTL DEF TypeInv

-----------------------------------------------------------------------------
(* What was queued is saved.                                               *)

LEMMA SavedInit == Init => SavedInv
BY NamesAssumption DEF Init, SavedInv, AcceptedIsSaved, Ids, Writers

LEMMA SavedNext == TypeInv /\ SavedInv /\ [Next]_vars => SavedInv'
<1> SUFFICES ASSUME TypeInv, SavedInv, [Next]_vars PROVE SavedInv'
  OBVIOUS
<1> DEFINE Kept == Ids \cup erased
<1>0. /\ accepted \subseteq Kept
      /\ \A p \in Posts : at[p] = "saved" => mine[p] \in Kept
      /\ at \in [Writers -> Positions] /\ mine \in [Writers -> 0..MaxRows]
  BY DEF SavedInv, AcceptedIsSaved, TypeInv, TypeOK, WriterTypes
<1> USE Roles
    DEF Goto, dbVars, hubVars, localVars, writerVars, clearVars, historyVars
<1>1. ASSUME NEW w \in Writers, Create(w) PROVE SavedInv'
  <2>1. /\ rows' = rows \cup {Row(w)} /\ Row(w).id = made + 1
        /\ mine' = [mine EXCEPT ![w] = made + 1] /\ UNCHANGED <<accepted, erased>>
    BY <1>1 DEF Create, Created, Row
  <2>2. Ids' = Ids \cup {made + 1}
    BY <2>1 DEF Ids
  <2>3. \A v \in Writers \ {w} : at'[v] = at[v] /\ mine'[v] = mine[v]
    BY <1>0, <1>1, <2>1 DEF Create
  <2>4. mine'[w] = made + 1
    BY <1>0, <2>1
  <2> QED
    BY <1>0, <2>1, <2>2, <2>3, <2>4 DEF SavedInv, AcceptedIsSaved
<1>2. ASSUME NEW p \in Posts, AppendToQueue(p) PROVE SavedInv'
  <2>1. /\ UNCHANGED <<rows, erased>> /\ accepted' \subseteq accepted \cup {mine[p]}
        /\ at[p] = "saved" /\ at'[p] = "done"
        /\ \A q \in Posts \ {p} : at'[q] = at[q] /\ mine'[q] = mine[q]
    BY <1>0, <1>2 DEF AppendToQueue
  <2> QED
    BY <1>0, <2>1 DEF SavedInv, AcceptedIsSaved, Ids
<1>3. CASE Delete
  BY <1>0, <1>3 DEF Delete, SavedInv, AcceptedIsSaved, Ids
<1>4. CASE Restart
  BY <1>0, <1>4 DEF Restart, SavedInv, AcceptedIsSaved, Ids
<1>5. ASSUME UNCHANGED <<rows, accepted, erased>>,
             \A p \in Posts : at'[p] = "saved" => at[p] = "saved" /\ mine'[p] = mine[p]
      PROVE  SavedInv'
  BY <1>0, <1>5 DEF SavedInv, AcceptedIsSaved, Ids
<1>6. ASSUME NEW w \in Writers, Get(w) \/ Add(w) PROVE SavedInv'
  BY <1>0, <1>5, <1>6 DEF Get, Add
<1>7. ASSUME NEW s \in Sends, SendStep(s) PROVE SavedInv'
  BY <1>0, <1>5, <1>7
     DEF SendStep, Begin, Count, Store, Register, Lock, LogIndex, End, Pop
<1>8. ASSUME NEW p \in Posts, Post(p) PROVE SavedInv'
  BY <1>0, <1>5, <1>8 DEF Post
<1>9. CASE Cleanup \/ Select \/ Unindex \/ CleanupIdle \/ UNCHANGED vars
  BY <1>0, <1>5, <1>9 DEF Cleanup, Select, Unindex, CleanupIdle, Forget, vars
<1> QED
  BY <1>1, <1>2, <1>3, <1>4, <1>6, <1>7, <1>8, <1>9 DEF Next, ClearStep

(* A message that the hub has queued, and answered message_queued for, is  *)
(* in the conversation until a clear deletes it, whatever is lost of the   *)
(* queue.                                                                  *)
THEOREM AcceptedIsSavedCorrect == Spec => []AcceptedIsSaved
<1>1. Spec => [](TypeInv /\ SavedInv)
  BY TypeInit, TypeNext, SavedInit, SavedNext, PTL DEF Spec
<1> QED
  BY <1>1, PTL DEF SavedInv

-----------------------------------------------------------------------------
(* What a run has logged is indexed.                                       *)

LEMMA IndexedInit == Init => LoggedIsIndexed
BY DEF Init, LoggedIsIndexed

LEMMA IndexedNext == TypeInv /\ LoggedIsIndexed /\ [Next]_vars => LoggedIsIndexed'
<1> SUFFICES ASSUME TypeInv, LoggedIsIndexed, [Next]_vars PROVE LoggedIsIndexed'
  OBVIOUS
<1>0. at \in [Writers -> Positions] /\ mine \in [Writers -> 0..MaxRows] /\ PostPlaces
  BY DEF TypeInv, TypeOK, WriterTypes, Places
<1> USE Roles
    DEF Goto, dbVars, hubVars, localVars, writerVars, clearVars, historyVars
<1>1. ASSUME NEW w \in Writers, Create(w) PROVE LoggedIsIndexed'
  <2>1. /\ rows' = rows \cup {Row(w)} /\ Row(w).id = made + 1 /\ Row(w).log = (at[w] = "log")
        /\ UNCHANGED <<indexed, cut, clear, victims>>
    BY <1>1 DEF Create, Created, Row
  <2>2. \A v \in Writers \ {w} : at'[v] = at[v] /\ mine'[v] = mine[v]
    BY <1>0, <1>1 DEF Create
  <2>3. at[w] # "index" /\ mine'[w] = made + 1
    BY <1>0, <1>1 DEF Create
  <2>4. at[w] = "log" => w \in Sends /\ at'[w] = "index"
    BY <1>0, <1>1 DEF Create, PostPlaces, Writers
  <2> QED
    BY <2>1, <2>2, <2>3, <2>4 DEF LoggedIsIndexed
<1>2. ASSUME NEW s \in Sends, LogIndex(s) PROVE LoggedIsIndexed'
  <2>1. /\ indexed' = indexed \cup {mine[s]} /\ UNCHANGED <<rows, cut, clear, victims>>
        /\ \A v \in Writers \ {s} : at'[v] = at[v] /\ mine'[v] = mine[v]
    BY <1>0, <1>2 DEF LogIndex, Index
  <2> QED
    BY <2>1 DEF LoggedIsIndexed
<1>3. CASE Unindex
  BY <1>3 DEF Unindex, WithoutVictims, LoggedIsIndexed
<1>4. CASE Delete
  BY <1>4 DEF Delete, LoggedIsIndexed
<1>5. CASE Restart
  <2>1. /\ UNCHANGED <<rows, indexed>> /\ cut \subseteq cut'
        /\ \A s \in Sends : at[s] = "index" => mine[s] \in cut'
        /\ clear = "delete" => victims \subseteq cut'
    BY <1>5 DEF Restart
  <2> QED
    BY <2>1 DEF LoggedIsIndexed
<1>6. ASSUME UNCHANGED <<rows, indexed, cut>>,
             clear # "delete" \/ UNCHANGED <<clear, victims>>,
             \A s \in Sends : at[s] = "index" => at'[s] = "index" /\ mine'[s] = mine[s]
      PROVE  LoggedIsIndexed'
  BY <1>6 DEF LoggedIsIndexed
<1>7. ASSUME NEW w \in Writers, Get(w) \/ Add(w) PROVE LoggedIsIndexed'
  BY <1>0, <1>6, <1>7 DEF Get, Add
<1>8. ASSUME NEW s \in Sends, Begin(s) \/ Count(s) \/ Store(s) \/ Register(s) \/ Lock(s) \/ End(s) \/ Pop(s)
      PROVE  LoggedIsIndexed'
  BY <1>0, <1>6, <1>8 DEF Begin, Count, Store, Register, Lock, End, Pop
<1>9. ASSUME NEW p \in Posts, Post(p) \/ AppendToQueue(p) PROVE LoggedIsIndexed'
  BY <1>0, <1>6, <1>9 DEF Post, AppendToQueue
<1>10. CASE Cleanup \/ Select \/ CleanupIdle \/ UNCHANGED vars
  BY <1>6, <1>10 DEF Cleanup, Select, CleanupIdle, Forget, vars
<1> QED
  BY <1>1, <1>2, <1>3, <1>4, <1>5, <1>7, <1>8, <1>9, <1>10 DEF Next, SendStep, ClearStep

(* What the log callback of a run has saved can be found by search, unless *)
(* a restart came in between or a clear is about to delete it.             *)
THEOREM LoggedIsIndexedCorrect == Spec => []LoggedIsIndexed
<1>1. Spec => [](TypeInv /\ LoggedIsIndexed)
  BY TypeInit, TypeNext, IndexedInit, IndexedNext, PTL DEF Spec
<1> QED
  BY <1>1, PTL

-----------------------------------------------------------------------------
(* What a clear found stays gone.                                          *)

LEMMA ClearInit == Init => ClearInv
BY Roles DEF Init, ClearInv, ClearForgets, Ids

LEMMA ClearNext == TypeInv /\ ClearInv /\ [Next]_vars => ClearInv'
<1> SUFFICES ASSUME TypeInv, ClearInv, [Next]_vars PROVE ClearInv'
  OBVIOUS
<1>0. /\ at \in [Writers -> Positions] /\ mine \in [Writers -> 0..MaxRows]
      /\ made \in Nat /\ clear \in {"idle", "select", "unindex", "delete", "done"}
      /\ RowSet
  BY Numbers DEF TypeInv, TypeOK, WriterTypes, ClearTypes, Places
<1> USE Roles
    DEF Goto, dbVars, hubVars, localVars, writerVars, clearVars, historyVars, ClearInv, ClearForgets
<1>1. ASSUME NEW w \in Writers, Create(w) PROVE ClearInv'
  <2>1. /\ rows' = rows \cup {Row(w)} /\ Row(w).id = made + 1 /\ made' = made + 1
        /\ UNCHANGED <<indexed, clear, before, victims>>
    BY <1>1 DEF Create, Created, Row
  <2>2. Ids' = Ids \cup {made + 1} /\ made + 1 \notin before
    BY <1>0, <2>1 DEF Ids
  <2>3. \A v \in Writers \ {w} : at'[v] = at[v] /\ mine'[v] = mine[v]
    BY <1>0, <1>1 DEF Create
  <2>4. mine'[w] = made + 1
    BY <1>0, <1>1 DEF Create
  <2>5. made + 1 \in 1..made' /\ 1..made \subseteq 1..made'
    BY <1>0, <2>1
  <2>6. \A v \in Writers : at'[v] = "index" =>
          mine'[v] = made + 1 \/ (at[v] = "index" /\ mine'[v] = mine[v])
    <3> SUFFICES ASSUME NEW v \in Writers, at'[v] = "index"
                 PROVE  mine'[v] = made + 1 \/ (at[v] = "index" /\ mine'[v] = mine[v])
      OBVIOUS
    <3>1. CASE v = w
      BY <2>4, <3>1
    <3>2. CASE v # w
      BY <2>3, <3>2
    <3> QED
      BY <3>1, <3>2
  <2>7. made + 1 \notin indexed \/ made + 1 \notin before
    BY <2>2
  <2> QED
    BY <2>1, <2>2, <2>5, <2>6
<1>2. ASSUME NEW s \in Sends, LogIndex(s) PROVE ClearInv'
  <2>1. /\ indexed' = indexed \cup {mine[s]} /\ at[s] = "index" /\ at'[s] = "running"
        /\ UNCHANGED <<rows, made, clear, before, victims>>
        /\ \A v \in Writers \ {s} : at'[v] = at[v] /\ mine'[v] = mine[v]
    BY <1>0, <1>2 DEF LogIndex, Index
  <2>2. \A v \in Writers : at'[v] = "index" => at[v] = "index" /\ mine'[v] = mine[v]
    BY <2>1
  <2> QED
    BY <1>0, <2>1, <2>2 DEF Ids
<1>3. CASE Cleanup
  BY <1>0, <1>3 DEF Cleanup, Forget, Ids
<1>4. CASE Select
  BY <1>0, <1>4 DEF Select, Ids
<1>5. CASE Unindex
  BY <1>0, <1>5 DEF Unindex, WithoutVictims, Ids
<1>6. CASE Delete
  BY <1>0, <1>6 DEF Delete, Ids
<1>7. CASE Restart
  BY <1>0, <1>7 DEF Restart, Ids
<1>8. ASSUME UNCHANGED <<rows, made, indexed, clear, before, victims>>,
             \A w \in Writers : at'[w] = "index" => at[w] = "index" /\ mine'[w] = mine[w]
      PROVE  ClearInv'
  BY <1>0, <1>8 DEF Ids
<1>9. ASSUME NEW w \in Writers, Get(w) \/ Add(w) PROVE ClearInv'
  BY <1>0, <1>8, <1>9 DEF Get, Add
<1>10. ASSUME NEW s \in Sends, Begin(s) \/ Count(s) \/ Store(s) \/ Register(s) \/ Lock(s) \/ End(s) \/ Pop(s)
      PROVE  ClearInv'
  BY <1>0, <1>8, <1>10 DEF Begin, Count, Store, Register, Lock, End, Pop
<1>11. ASSUME NEW p \in Posts, Post(p) \/ AppendToQueue(p) PROVE ClearInv'
  BY <1>0, <1>8, <1>11 DEF Post, AppendToQueue
<1>12. CASE CleanupIdle \/ UNCHANGED vars
  BY <1>8, <1>12 DEF CleanupIdle, Forget, vars
<1> QED
  BY <1>1, <1>2, <1>3, <1>4, <1>5, <1>6, <1>7, <1>9, <1>10, <1>11, <1>12
     DEF Next, SendStep, ClearStep

(* What was saved and indexed when a clear began is gone from the database *)
(* and from the index when it is over, and stays gone, although the run it *)
(* stopped may still log, the session be used again, or the server restart.*)
THEOREM ClearForgetsCorrect == Spec => []ClearForgets
<1>1. Spec => [](TypeInv /\ ClearInv)
  BY TypeInit, TypeNext, ClearInit, ClearNext, PTL DEF Spec
<1> QED
  BY <1>1, PTL DEF ClearInv

-----------------------------------------------------------------------------
(* The numbers of the messages.  Until a counter is set back, whoever takes *)
(* numbers takes them from the counter of the session, which is above all   *)
(* of them (Above) or was not set yet: then whoever has it is about to set  *)
(* it (Unset).                                                              *)

Numbering(w) == at[w] \in {"store", "add", "create", "register"} \cup Working
CounterOf(w) == IF at[w] \in Working THEN onLog[works[w]] ELSE ctr[w]
Pending(w)   == at[w] \in {"create", "log"}

OneCounter == \A w \in Writers : Numbering(w) => counter # None /\ CounterOf(w) = counter

Unset ==
  /\ \A w \in Holding : at[w] = "store"
  /\ \A p \in Posts : at[p] # "get"
  /\ instance = None

Above ==
  /\ counter # None
  /\ \A r \in rows : r.no <= value[counter]
  /\ \A w \in Writers : Pending(w) => no[w] <= value[counter]

Ordered ==
  /\ \A v, w \in Writers : Pending(v) /\ Pending(w) /\ no[v] = no[w] => v = w
  /\ \A w \in Writers, r \in rows : Pending(w) => r.no # no[w] /\ (r.by = w => r.no < no[w])
  /\ \A a, b \in rows : /\ a # b => a.no # b.no
                        /\ a.by = b.by /\ a.id < b.id => a.no < b.no

NumberInv ==
  /\ registered => instance # None
  /\ \A r \in rows : r.id <= made
  /\ ~crossed => OneCounter /\ (Unset \/ Above) /\ Ordered

LEMMA NumberInit == Init => NumberInv
BY Roles DEF Init, NumberInv, OneCounter, Unset, Ordered, Holding, Numbering, Pending, Working

(* A number that was taken by mistake is never made good.                  *)
LEMMA NeverUncrossed == TypeInv /\ [Next]_vars /\ ~crossed' => ~crossed
BY DEF Next, SendStep, ClearStep, vars, historyVars, Get, Add, Create, Begin, Count, Store, Register,
       Lock, LogIndex, End, Pop, Post, AppendToQueue, Cleanup, Select, Unindex, Delete, CleanupIdle,
       Restart, Forget

LEMMA RegisteredNext ==
  TypeInv /\ NumberInv /\ [Next]_vars => (registered' => instance' # None)
<1> SUFFICES ASSUME TypeInv, NumberInv, [Next]_vars PROVE registered' => instance' # None
  OBVIOUS
<1>1. CASE \E s \in Sends : Register(s)
  BY <1>1, InstanceThere, Roles
<1>2. CASE ~\E s \in Sends : Register(s)
  BY <1>2 DEF NumberInv, Next, SendStep, ClearStep, vars, hubVars, Get, Add, Create, Begin, Count,
     Store, Lock, LogIndex, End, Pop, Post, AppendToQueue, Cleanup, Select, Unindex, Delete,
     CleanupIdle, Restart, Forget
<1> QED
  BY <1>1, <1>2

LEMMA IdsNext ==
  TypeInv /\ NumberInv /\ [Next]_vars => \A r \in rows' : r.id <= made'
<1> SUFFICES ASSUME TypeInv, NumberInv, [Next]_vars PROVE \A r \in rows' : r.id <= made'
  OBVIOUS
<1>0. made \in Nat /\ \A r \in rows : r.id \in Nat /\ r.id <= made
  BY Numbers DEF NumberInv, TypeInv, TypeOK, DbTypes
<1>1. ASSUME NEW w \in Writers, Create(w) PROVE \A r \in rows' : r.id <= made'
  BY <1>0, <1>1 DEF Create, Created, Row
<1>2. CASE Delete
  BY <1>2 DEF Delete
<1>3. CASE UNCHANGED <<rows, made>>
  BY <1>0, <1>3
<1> QED
  BY <1>1, <1>2, <1>3 DEF Next, SendStep, ClearStep, vars, dbVars, Get, Add, Begin, Count, Store,
     Register, Lock, LogIndex, End, Pop, Post, AppendToQueue, Cleanup, Select, Unindex, CleanupIdle,
     Restart

(* What the numbers are made of, with its types.                           *)
LEMMA NumberTypes ==
  ASSUME TypeInv
  PROVE  /\ at \in [Writers -> Positions] /\ value \in [Counters -> Nat] /\ no \in [Writers -> Nat]
         /\ counter \in Counters \cup {None} /\ held \in [Sends -> Nat]
         /\ ctr \in [Writers -> Counters \cup {None}] /\ onLog \in [Sends -> Counters \cup {None}]
         /\ works \in [Sends -> Sends \cup {None}]
         /\ \A r \in rows : r.no \in Nat /\ r.id \in Nat
         /\ \A w \in Writers : at[w] \in Working => w \in Sends /\ works[w] \in Sends
<1>1. \A r \in rows : r.no \in Nat /\ r.id \in Nat
  BY BoundsAssumption DEF TypeInv, TypeOK, DbTypes
<1>2. \A w \in Writers : at[w] \in Working => w \in Sends /\ works[w] \in Sends
  BY DEF TypeInv, Places, PostPlaces, WorksSet, Writers, Working
<1> QED
  BY <1>1, <1>2 DEF TypeInv, TypeOK, HubTypes, WriterTypes

(* A step that gives out no number, to nobody new.                         *)
LEMMA NumberFrame ==
  ASSUME OneCounter, Unset \/ Above, Ordered,
         UNCHANGED <<rows, value, counter, no>>, instance' = instance \/ Above,
         \A w \in Writers : /\ Numbering(w)' => Numbering(w) /\ CounterOf(w)' = CounterOf(w)
                            /\ Pending(w)' => Pending(w)
                            /\ w \in Holding' => w \in Holding /\ (at[w] = "store" => at'[w] = "store")
                            /\ w \in Posts /\ at'[w] = "get" => at[w] = "get" \/ Above
  PROVE  OneCounter' /\ (Unset \/ Above)' /\ Ordered'
<1>1. OneCounter'
  BY DEF OneCounter
<1>2. (Unset \/ Above)'
  <2>1. CASE Above
    BY <2>1 DEF Above
  <2>2. CASE Unset /\ ~Above
    BY <2>2, Roles DEF Unset, Holding
  <2> QED
    BY <2>1, <2>2
<1>3. Ordered'
  BY DEF Ordered
<1> QED
  BY <1>1, <1>2, <1>3

LEMMA NumberGet ==
  ASSUME TypeInv, OneCounter, Unset \/ Above, Ordered, NEW w \in Writers, Get(w)
  PROVE  OneCounter' /\ (Unset \/ Above)' /\ Ordered'
<1> USE NumberTypes, Roles
<1>1. /\ at[w] = "get" /\ at' = [at EXCEPT ![w] = IF w \in Sends THEN "store" ELSE "add"]
      /\ UNCHANGED <<rows, no, works, onLog, instance>>
      /\ counter' \in Counters /\ ctr' = [ctr EXCEPT ![w] = counter']
  BY NewCounter DEF Get, Goto, dbVars
<1>2. \A v \in Writers \ {w} : at'[v] = at[v] /\ ctr'[v] = ctr[v]
  BY <1>1
<1>3. at'[w] \in {"store", "add"} /\ ctr'[w] = counter' /\ (w \in Sends => at'[w] = "store")
  BY <1>1
<1>4. \A v \in Writers : Pending(v)' <=> Pending(v)
  BY <1>1, <1>2, <1>3 DEF Pending
<1>5. Ordered'
  BY <1>1, <1>4 DEF Ordered
<1>6. CASE counter # None
  <2>1. UNCHANGED <<counter, value>>
    BY <1>6 DEF Get
  <2>2. OneCounter'
    BY <1>1, <1>2, <1>3, <2>1, <1>6 DEF OneCounter, Numbering, CounterOf, Working
  <2>3. CASE Above
    BY <1>1, <1>4, <1>5, <2>1, <2>2, <2>3 DEF Above
  <2>4. CASE Unset
    <3>1. w \in Sends
      BY <1>1, <2>4 DEF Unset, Writers
    <3> QED
      BY <1>1, <1>2, <1>3, <1>5, <2>2, <2>4, <3>1 DEF Unset, Holding
  <2> QED
    BY <1>5, <2>2, <2>3, <2>4
<1>7. CASE counter = None
  <2>1. \A v \in Writers : ~Numbering(v)
    BY <1>7 DEF OneCounter
  <2>2. OneCounter'
    BY <1>1, <1>2, <1>3, <2>1 DEF OneCounter, Numbering, CounterOf, Working
  <2>3. Unset
    BY <1>7 DEF Above
  <2>4. w \in Sends
    BY <1>1, <2>3 DEF Unset, Writers
  <2> QED
    BY <1>1, <1>2, <1>3, <1>5, <2>2, <2>3, <2>4 DEF Unset, Holding
<1> QED
  BY <1>6, <1>7

LEMMA NumberAdd ==
  ASSUME TypeInv, OneCounter, Unset \/ Above, Ordered, NEW w \in Writers, Add(w)
  PROVE  OneCounter' /\ (Unset \/ Above)' /\ Ordered'
<1> USE NumberTypes, Roles
<1>1. /\ at[w] \in {"add", "running"} /\ counter # None /\ counter \in Counters
      /\ at' = [at EXCEPT ![w] = IF at[w] = "running" THEN "log" ELSE "create"]
      /\ value' = [value EXCEPT ![counter] = @ + 1]
      /\ no' = [no EXCEPT ![w] = value[counter] + 1]
      /\ UNCHANGED <<rows, counter, ctr, works, onLog, instance>>
  <2> DEFINE c == IF at[w] = "running" THEN onLog[works[w]] ELSE ctr[w]
  <2>1. at[w] \in {"add", "running"} /\ c = counter /\ counter # None
    BY DEF Add, OneCounter, Numbering, CounterOf, Working
  <2>2. /\ value' = [value EXCEPT ![c] = @ + 1] /\ no' = [no EXCEPT ![w] = value'[c]]
        /\ at' = [at EXCEPT ![w] = IF at[w] = "running" THEN "log" ELSE "create"]
        /\ UNCHANGED <<rows, counter, ctr, works, onLog, instance>>
    BY DEF Add, Added, Goto, dbVars, hubVars
  <2>3. counter \in Counters /\ value'[counter] = value[counter] + 1
    BY <2>1, <2>2
  <2> QED
    BY <2>1, <2>2, <2>3
<1>2. Above
  BY <1>1 DEF Unset, Holding
<1> DEFINE n == value[counter]
<1>3. /\ n \in Nat /\ value'[counter] = n + 1 /\ no'[w] = n + 1
      /\ \A v \in Writers \ {w} : at'[v] = at[v] /\ no'[v] = no[v]
      /\ at'[w] \in {"create", "log"} /\ (at'[w] = "log" <=> at[w] = "running")
  BY <1>1
<1>4. /\ \A r \in rows : r.no \in Nat /\ r.no <= n
      /\ \A v \in Writers : Pending(v) => no[v] <= n
      /\ \A v \in Writers : no[v] \in Nat
  BY <1>2 DEF Above
<1>5. ~Pending(w) /\ \A v \in Writers : Pending(v)' <=> (Pending(v) \/ v = w)
  BY <1>1, <1>3 DEF Pending
<1>6. \A v \in Writers : Numbering(v)' => Numbering(v) /\ CounterOf(v)' = CounterOf(v)
  BY <1>1, <1>3 DEF Numbering, CounterOf, Working
<1>7. OneCounter'
  BY <1>1, <1>6 DEF OneCounter
<1> HIDE DEF n
<1>8. Above'
  BY <1>1, <1>3, <1>4, <1>5 DEF Above
<1>9. Ordered'
  <2>1. ASSUME NEW u \in Writers, NEW v \in Writers, Pending(u)', Pending(v)', no'[u] = no'[v]
        PROVE  u = v
    BY <1>3, <1>4, <1>5, <2>1 DEF Ordered
  <2>2. ASSUME NEW v \in Writers, NEW r \in rows, Pending(v)'
        PROVE  r.no # no'[v] /\ (r.by = v => r.no < no'[v])
    BY <1>3, <1>4, <1>5, <2>2 DEF Ordered
  <2> QED
    BY <1>1, <2>1, <2>2 DEF Ordered
<1> QED
  BY <1>7, <1>8, <1>9

LEMMA NumberCreate ==
  ASSUME TypeInv, NumberInv, ~crossed, NEW w \in Writers, Create(w)
  PROVE  OneCounter' /\ (Unset \/ Above)' /\ Ordered'
<1> USE NumberTypes, Roles
<1>0. OneCounter /\ (Unset \/ Above) /\ Ordered /\ (\A r \in rows : r.id <= made) /\ made \in Nat
  BY Numbers DEF NumberInv
<1>1. /\ Pending(w) /\ rows' = rows \cup {Row(w)} /\ no' = [no EXCEPT ![w] = 0]
      /\ Row(w).no = no[w] /\ Row(w).id = made + 1 /\ Row(w).by = w
      /\ at'[w] \in {"index", "register", "saved"}
      /\ (at'[w] = "index" <=> at[w] = "log") /\ (at'[w] = "register" => at[w] = "create")
      /\ \A v \in Writers \ {w} : at'[v] = at[v] /\ no'[v] = no[v]
      /\ UNCHANGED <<counter, value, ctr, works, onLog, instance>>
  BY DEF Create, Created, Row, Goto, Pending, hubVars
<1> DEFINE new == Row(w)
<1> HIDE DEF new
<1>2. \A v \in Writers : Pending(v)' <=> (Pending(v) /\ v # w)
  BY <1>1 DEF Pending
<1>3. Above
  BY <1>0, <1>1 DEF Unset, Holding, Pending
<1>4. \A v \in Writers : Numbering(v)' => Numbering(v) /\ CounterOf(v)' = CounterOf(v)
  BY <1>1 DEF Numbering, CounterOf, Working, Pending
<1>5. OneCounter'
  BY <1>0, <1>1, <1>4 DEF OneCounter
<1>a. /\ rows' = rows \cup {new} /\ new.no = no[w] /\ new.id = made + 1 /\ new.by = w
  BY <1>1 DEF new
<1>6. Above'
  BY <1>1, <1>2, <1>3, <1>a DEF Above
<1>7. Ordered'
  <2>1. \A u, v \in Writers : Pending(u)' /\ Pending(v)' /\ no'[u] = no'[v] => u = v
    BY <1>0, <1>1, <1>2 DEF Ordered
  <2>2. ASSUME NEW v \in Writers, NEW r \in rows', Pending(v)'
        PROVE  r.no # no'[v] /\ (r.by = v => r.no < no'[v])
    BY <1>0, <1>1, <1>2, <1>a, <2>2 DEF Ordered
  <2>3. ASSUME NEW a \in rows', NEW b \in rows'
        PROVE  (a # b => a.no # b.no) /\ (a.by = b.by /\ a.id < b.id => a.no < b.no)
    <3>1. CASE a \in rows /\ b \in rows
      BY <1>0, <3>1 DEF Ordered
    <3>2. CASE a \in rows /\ b = new
      <4>1. a.no # no[w] /\ (a.by = w => a.no < no[w])
        BY <1>0, <1>1, <3>2 DEF Ordered
      <4> QED
        BY <1>a, <3>2, <4>1
    <3>3. CASE a = new /\ b \in rows
      <4>1. b.no # no[w] /\ b.id \in Nat /\ b.id <= made
        BY <1>0, <1>1, <3>3 DEF Ordered
      <4> QED
        BY <1>0, <1>a, <3>3, <4>1
    <3>4. CASE a = new /\ b = new
      BY <1>0, <1>a, <3>4
    <3> QED
      BY <1>a, <3>1, <3>2, <3>3, <3>4
  <2> QED
    BY <2>1, <2>2, <2>3 DEF Ordered
<1> QED
  BY <1>5, <1>6, <1>7

(* A send sets the counter: it is above everything, or was crossed.        *)
LEMMA NumberStore ==
  ASSUME TypeInv, OneCounter, Unset \/ Above, Ordered, NEW s \in Sends, Store(s), ~crossed'
  PROVE  OneCounter' /\ (Unset \/ Above)' /\ Ordered'
<1> USE NumberTypes, Roles
<1>1. /\ at[s] = "store" /\ at' = [at EXCEPT ![s] = "add"] /\ ctr[s] = counter
      /\ counter # None /\ counter \in Counters
      /\ value' = [value EXCEPT ![counter] = held[s]]
      /\ held[s] \in Nat /\ value[counter] \in Nat
      /\ ~(held[s] < value[counter]) /\ \A r \in rows : ~(held[s] < r.no)
      /\ UNCHANGED <<rows, counter, ctr, works, onLog, instance, no>>
  BY DEF Store, Goto, dbVars, hubVars, OneCounter, Numbering, CounterOf, Working
<1>2. \A v \in Writers : Pending(v)' <=> Pending(v)
  BY <1>1 DEF Pending
<1>3. \A v \in Writers : Numbering(v)' => Numbering(v) /\ CounterOf(v)' = CounterOf(v)
  BY <1>1 DEF Numbering, CounterOf, Working
<1>4. \A v \in Writers : Pending(v) => no[v] <= held[s]
  BY <1>1 DEF Unset, Above, Holding, Pending
<1>5. Above'
  <2>1. value'[counter] = held[s]
    BY <1>1
  <2> QED
    BY <1>1, <1>2, <1>4, <2>1 DEF Above
<1>6. OneCounter' /\ Ordered'
  BY <1>1, <1>2, <1>3 DEF OneCounter, Ordered
<1> QED
  BY <1>5, <1>6

LEMMA NumberRegister ==
  ASSUME TypeInv, OneCounter, Unset \/ Above, Ordered, NEW s \in Sends, Register(s)
  PROVE  OneCounter' /\ (Unset \/ Above)' /\ Ordered'
<1> USE NumberTypes, Roles
<1>1. PICK i \in Sends : /\ works' = [works EXCEPT ![s] = i]
                         /\ onLog' = [onLog EXCEPT ![i] = ctr[s]]
  BY InstanceThere
<1>2. /\ at[s] = "register" /\ at' = [at EXCEPT ![s] = "waiting"] /\ ctr[s] = counter
      /\ counter # None /\ ctr' = [ctr EXCEPT ![s] = None]
      /\ UNCHANGED <<rows, value, counter, no>>
  BY DEF Register, Goto, dbVars, OneCounter, Numbering, CounterOf, Working
<1>3. Above
  BY <1>2 DEF Unset, Holding
<1>4. \A v \in Writers : Pending(v)' <=> Pending(v)
  BY <1>2 DEF Pending
<1>5. Above' /\ Ordered'
  BY <1>2, <1>3, <1>4 DEF Above, Ordered
<1>6. ASSUME NEW v \in Writers, Numbering(v)' PROVE CounterOf(v)' = counter
  <2>1. onLog'[i] = counter /\ \A j \in Sends : onLog'[j] = onLog[j] \/ onLog'[j] = counter
    BY <1>1, <1>2
  <2>2. CASE v = s
    BY <1>1, <1>2, <2>1, <2>2 DEF CounterOf, Working
  <2>3. CASE v # s
    <3>1. Numbering(v) /\ at'[v] = at[v] /\ ctr'[v] = ctr[v] /\ (v \in Sends => works'[v] = works[v])
      BY <1>1, <1>2, <1>6, <2>3 DEF Numbering
    <3>2. CounterOf(v) = counter
      BY <3>1 DEF OneCounter
    <3>3. CASE at[v] \in Working
      BY <2>1, <3>1, <3>2, <3>3 DEF CounterOf
    <3>4. CASE at[v] \notin Working
      BY <3>1, <3>2, <3>4 DEF CounterOf
    <3> QED
      BY <3>3, <3>4
  <2> QED
    BY <2>2, <2>3
<1> QED
  BY <1>2, <1>5, <1>6 DEF OneCounter

LEMMA NumberSend ==
  ASSUME TypeInv, NumberInv, ~crossed, NEW s \in Sends,
         Begin(s) \/ Count(s) \/ Lock(s) \/ LogIndex(s) \/ End(s) \/ Pop(s)
  PROVE  OneCounter' /\ (Unset \/ Above)' /\ Ordered'
<1> USE NumberTypes, Roles
<1>0. OneCounter /\ (Unset \/ Above) /\ Ordered
  BY DEF NumberInv
<1>1. UNCHANGED <<rows, value, counter, no, instance, ctr, onLog>>
  BY DEF Begin, Count, Lock, LogIndex, End, Pop, dbVars, hubVars, localVars
<1>2. /\ \A v \in Writers \ {s} : at'[v] = at[v] /\ (v \in Sends => works'[v] = works[v])
      /\ \/ at[s] \in {"idle", "count", "pop"} /\ at'[s] \in {"count", "get", "done"}
         \/ at[s] \in {"waiting", "index"} /\ at'[s] = "running" /\ works' = works
         \/ at[s] = "running" /\ at'[s] \in {"done", "pop"}
  BY DEF Begin, Count, Lock, LogIndex, End, Pop, Goto, localVars
<1>3. ASSUME NEW v \in Writers
      PROVE  /\ Numbering(v)' => Numbering(v) /\ CounterOf(v)' = CounterOf(v)
             /\ Pending(v)' => Pending(v)
             /\ v \in Holding' => v \in Holding /\ (at[v] = "store" => at'[v] = "store")
             /\ v \in Posts /\ at'[v] = "get" => at[v] = "get" \/ Above
  <2>1. CASE v = s
    BY <1>1, <1>2, <2>1 DEF Numbering, CounterOf, Pending, Holding, Working
  <2>2. CASE v # s
    BY <1>1, <1>2, <2>2 DEF Numbering, CounterOf, Pending, Holding, Working
  <2> QED
    BY <2>1, <2>2
<1> QED
  BY <1>0, <1>1, <1>3, NumberFrame

(* A client posts to a session that runs, or has an instance: its counter  *)
(* was set when that was registered.                                       *)
LEMMA NumberPost ==
  ASSUME TypeInv, NumberInv, ~crossed, NEW p \in Posts, Post(p) \/ AppendToQueue(p)
  PROVE  OneCounter' /\ (Unset \/ Above)' /\ Ordered'
<1> USE NumberTypes, Roles
<1>0. OneCounter /\ (Unset \/ Above) /\ Ordered /\ (registered => instance # None)
  BY DEF NumberInv
<1>1. UNCHANGED <<rows, value, counter, no, instance, onLog, works>>
  BY DEF Post, AppendToQueue, dbVars, hubVars
<1>2. /\ \A v \in Writers \ {p} : at'[v] = at[v] /\ ctr'[v] = ctr[v]
      /\ \/ at[p] = "idle" /\ at'[p] = "get" /\ (registered \/ instance # None)
         \/ at[p] = "saved" /\ at'[p] = "done"
  BY DEF Post, AppendToQueue, Goto
<1>3. at'[p] = "get" => Above
  BY <1>0, <1>2 DEF Unset
<1>4. ASSUME NEW v \in Writers
      PROVE  /\ Numbering(v)' => Numbering(v) /\ CounterOf(v)' = CounterOf(v)
             /\ Pending(v)' => Pending(v)
             /\ v \in Holding' => v \in Holding /\ (at[v] = "store" => at'[v] = "store")
             /\ v \in Posts /\ at'[v] = "get" => at[v] = "get" \/ Above
  <2>1. CASE v = p
    BY <1>2, <1>3, <2>1 DEF Numbering, CounterOf, Pending, Holding, Working
  <2>2. CASE v # p
    BY <1>1, <1>2, <2>2 DEF Numbering, CounterOf, Pending, Holding, Working
  <2> QED
    BY <2>1, <2>2
<1> QED
  BY <1>0, <1>1, <1>4, NumberFrame

(* What forgets the session finds nobody who goes on with its counter.     *)
LEMMA NumberEvents ==
  ASSUME TypeInv, NumberInv, ~crossed, ~crossed',
         ClearStep \/ CleanupIdle \/ Restart \/ UNCHANGED vars
  PROVE  OneCounter' /\ (Unset \/ Above)' /\ Ordered'
<1> USE NumberTypes, Roles
<1>0. OneCounter /\ (Unset \/ Above) /\ Ordered
  BY DEF NumberInv
<1>1. CASE Cleanup \/ CleanupIdle
  <2>1. /\ UNCHANGED <<rows, no, at, ctr, works, onLog>> /\ instance' = None /\ ~UnderWay
    BY <1>1 DEF Cleanup, CleanupIdle, Forget, dbVars, writerVars, localVars
  <2>2. \A v \in Writers : ~Numbering(v) /\ ~Pending(v)
    BY <2>1 DEF UnderWay, Holding, Numbering, Pending, Working
  <2> QED
    BY <1>0, <2>1, <2>2
       DEF OneCounter, Unset, Ordered, UnderWay, Numbering, Pending, Holding
<1>2. CASE Restart
  <2>1. /\ rows' = rows /\ instance' = None /\ at' = [w \in Writers |-> "idle"]
    BY <1>2 DEF Restart, dbVars
  <2> QED
    BY <1>0, <2>1 DEF OneCounter, Unset, Ordered, Numbering, Pending, Holding, Working
<1>3. CASE Delete
  <2>1. rows' = {} /\ UNCHANGED <<no, value, counter, at, ctr, works, onLog, instance>>
    BY <1>3 DEF Delete, hubVars, writerVars, localVars
  <2> QED
    BY <1>0, <2>1 DEF OneCounter, Unset, Above, Ordered, Numbering, CounterOf, Pending, Holding
<1>4. CASE Select \/ Unindex \/ UNCHANGED vars
  <2>1. UNCHANGED <<rows, no, value, counter, at, ctr, works, onLog, instance>>
    BY <1>4 DEF Select, Unindex, vars, dbVars, hubVars, writerVars, localVars
  <2> QED
    BY <1>0, <2>1 DEF OneCounter, Unset, Above, Ordered, Numbering, CounterOf, Pending, Holding
<1> QED
  BY <1>1, <1>2, <1>3, <1>4 DEF ClearStep

LEMMA NumberNext == TypeInv /\ NumberInv /\ [Next]_vars => NumberInv'
<1> SUFFICES ASSUME TypeInv, NumberInv, [Next]_vars PROVE NumberInv'
  OBVIOUS
<1>1. ASSUME ~crossed' PROVE OneCounter' /\ (Unset \/ Above)' /\ Ordered'
  <2>0. ~crossed /\ OneCounter /\ (Unset \/ Above) /\ Ordered
    BY <1>1, NeverUncrossed DEF NumberInv
  <2>1. ASSUME NEW w \in Writers, Get(w) \/ Add(w) \/ Create(w)
        PROVE  OneCounter' /\ (Unset \/ Above)' /\ Ordered'
    BY <2>0, <2>1, NumberGet, NumberAdd, NumberCreate
  <2>2. ASSUME NEW s \in Sends, SendStep(s)
        PROVE  OneCounter' /\ (Unset \/ Above)' /\ Ordered'
    BY <1>1, <2>0, <2>2, NumberStore, NumberRegister, NumberSend DEF SendStep
  <2>3. ASSUME NEW p \in Posts, Post(p) \/ AppendToQueue(p)
        PROVE  OneCounter' /\ (Unset \/ Above)' /\ Ordered'
    BY <2>0, <2>3, NumberPost
  <2> QED
    BY <1>1, <2>0, <2>1, <2>2, <2>3, NumberEvents DEF Next
<1> QED
  BY <1>1, RegisteredNext, IdsNext DEF NumberInv

(* The messages of a conversation have numbers of their own, in the order  *)
(* in which each goroutine saved them, until the start of a run sets the   *)
(* counter back under another one that uses it, or the session is          *)
(* forgotten or restarted under a writer: whatever else is concurrent.     *)
THEOREM NumberingCorrect == Spec => []NumberingSound
<1>1. Spec => [](TypeInv /\ NumberInv)
  BY TypeInit, TypeNext, NumberInit, NumberNext, PTL DEF Spec
<1>2. NumberInv => NumberingSound
  BY DEF NumberInv, Ordered, NumberingSound
<1> QED
  BY <1>1, <1>2, PTL
=============================================================================
