------------------------------ MODULE FileStore ------------------------------
(***************************************************************************)
(* The files of one project: REST requests (api/files.go) and the text     *)
(* editor of an agent (tools/text_editor.go) on top of the file manager    *)
(* and its per-path locks (filemanager/), the rows of table project_files  *)
(* and the table of modification times.                                    *)
(*                                                                         *)
(* A path is a sequence of numbers, compared as strings are.  The content  *)
(* of a file is the number of the write it comes from, which is also its   *)
(* modification time, and whether that write is complete.                  *)
(***************************************************************************)
EXTENDS Integers, Sequences, SequencesExt, FiniteSets

CONSTANTS
  Paths,       \* the paths used, with every directory above them
  Requests,    \* goroutines that serve REST requests
  Agent,       \* the goroutine of an agent
  MaxOps,      \* bound on the operations
  MaxTracked   \* maxFileMtimes (500)

(* Where z, at or below x, is when x has become y.                         *)
Below(x, y, z) == y \o SubSeq(z, Len(x) + 1, Len(z))

ASSUME PathsAssumption == /\ Paths \subseteq (Seq(Nat) \ {<<>>})
                          /\ \A x \in Paths : Len(x) > 1 => Front(x) \in Paths
                          /\ \A x, y, z \in Paths :
                               Len(x) = Len(y) /\ IsPrefix(x, z) => Below(x, y, z) \in Paths
ASSUME ProcsAssumption == Agent \notin Requests
ASSUME BoundsAssumption == MaxOps \in Nat /\ MaxTracked \in Nat

VARIABLES
  fs,         \* the directory tree
  clock,      \* the number of writes so far
  rows,       \* how many rows a path has
  tracked,    \* fileMtimes.m, 0 for no entry
  pc,         \* where each goroutine is
  op,         \* its operation
  held,       \* how many of the locks it needs it has
  ok,         \* its operation has not failed
  got,        \* what it read, or is writing
  seen,       \* history: the version of a path that Agent last read or wrote
  strayed,    \* history: paths of which Agent tracked another file than it wrote
  ops,        \* operations begun
  disturbed   \* history: operations overlapped, or the editor failed to write

Procs  == Requests \cup {Agent}
shared == <<fs, clock, rows, tracked>>
ghosts == <<seen, strayed, ops, disturbed>>
vars   == <<fs, clock, rows, tracked, pc, op, held, ok, got, seen, strayed, ops, disturbed>>

Absent == [kind |-> "absent", v |-> 0, whole |-> TRUE]
Dir    == [kind |-> "dir", v |-> 0, whole |-> TRUE]
File(v, whole) == [kind |-> "file", v |-> v, whole |-> whole]

Under(x)  == {y \in Paths : IsPrefix(x, y)}
Above(x)  == {y \in Paths : IsStrictPrefix(y, x)}
IsDir(x)  == fs[x].kind = "dir"
IsFile(x) == fs[x].kind = "file"
Exists(x) == fs[x].kind # "absent"

RestKinds  == {"read", "create", "mkdir", "update", "upload", "delete", "move"}
ToolKinds  == {"toolRead", "write", "patch"}
WalkKinds  == {"search", "list"}
WriteKinds == {"create", "update", "upload", "write"}
Unlocked   == WalkKinds \cup {"mkdir"}
NoOp       == [kind |-> "none", path |-> <<>>, to |-> <<>>]
Shared(o)  == o.kind \in {"read", "toolRead"}

Less(x, y) ==
  \E n \in 1..Len(y) : /\ n <= Len(x) + 1
                       /\ \A k \in 1..(n - 1) : x[k] = y[k]
                       /\ n = Len(x) + 1 \/ x[n] < y[n]

(* The locks of an operation in the order it takes them.  Mutant: a move   *)
(* locks its source first.                                                 *)
LocksAsGiven(o) ==
  IF o.kind \in Unlocked THEN <<>> ELSE IF o.kind = "move" THEN <<o.path, o.to>> ELSE <<o.path>>
Locks(o) ==
  IF o.kind \in Unlocked THEN <<>>
  ELSE IF o.kind # "move" THEN <<o.path>>
  ELSE IF Less(o.to, o.path) THEN <<o.to, o.path>> ELSE <<o.path, o.to>>

Holds(p, x) == \E n \in 1..held[p] : Locks(op[p])[n] = x

(* An RWMutex per path.  Mutant: readers do not exclude writers.           *)
WriterFree(p, x) == \A q \in Procs \ {p} : Holds(q, x) => Shared(op[q]) \/ Shared(op[p])
LockFree(p, x)   == \A q \in Procs \ {p} : Holds(q, x) => Shared(op[q]) /\ Shared(op[p])

(* os.MkdirAll: works unless a file is in the way.                         *)
CanMake(x)  == \A y \in Above(x) \cup {x} : ~IsFile(y)
Made(t, xs) == [y \in Paths |-> IF y \in xs /\ t[y].kind = "absent" THEN Dir ELSE t[y]]

(* x with everything below it becomes y.                                   *)
Relocated(x, y) ==
  [z \in Paths |-> IF z \in Under(y) THEN fs[Below(y, x, z)]
                   ELSE IF z \in Under(x) THEN Absent ELSE fs[z]]

Init ==
  /\ fs = [x \in Paths |-> IF \E y \in Paths : IsStrictPrefix(x, y) /\ Head(x) = 1 THEN Dir
                           ELSE IF Head(x) = 1 THEN File(1, TRUE) ELSE Absent]
  /\ rows = [x \in Paths |-> IF Head(x) = 1 THEN 1 ELSE 0]
  /\ clock = 1
  /\ tracked = [x \in Paths |-> 0] /\ seen = [x \in Paths |-> 0]
  /\ pc = [p \in Procs |-> "idle"] /\ op = [p \in Procs |-> NoOp]
  /\ held = [p \in Procs |-> 0] /\ ok = [p \in Procs |-> TRUE]
  /\ got = [p \in Procs |-> Absent]
  /\ strayed = {} /\ ops = 0 /\ disturbed = FALSE

Goto(p, to) == pc' = [pc EXCEPT ![p] = to]
Fails(p)    == Goto(p, "unlock") /\ ok' = [ok EXCEPT ![p] = FALSE]

(* The operation is over, and what it knew is gone.                        *)
Finish(p) ==
  /\ Goto(p, "idle")
  /\ op' = [op EXCEPT ![p] = NoOp] /\ got' = [got EXCEPT ![p] = Absent]
  /\ ok' = [ok EXCEPT ![p] = TRUE]

-----------------------------------------------------------------------------
(* Begin an operation: its paths have passed ValidatePath.  A move stays   *)
(* on its level of the tree (a bound of the model).  The path of a walk is *)
(* where it is.                                                            *)
Entered(k) == IF k = "move" THEN "check" ELSE IF k = "mkdir" THEN "act"
              ELSE IF k \in WalkKinds THEN "walk" ELSE "lock"

Begin(p) ==
  /\ pc[p] = "idle" /\ ops < MaxOps /\ ops' = ops + 1
  /\ \E k \in (IF p = Agent THEN ToolKinds ELSE RestKinds \cup WalkKinds), x, y \in Paths :
       /\ IF k = "move" THEN Len(x) = Len(y) ELSE x = y
       /\ op' = [op EXCEPT ![p] = [kind |-> k, path |-> x, to |-> y]]
       /\ Goto(p, Entered(k))
  /\ disturbed' = (disturbed \/ \E q \in Procs \ {p} : pc[q] # "idle")
  /\ UNCHANGED <<shared, held, ok, got, seen, strayed>>

(* RenameFile before its locks: what is there, and the parent directory.   *)
Check(p) ==
  LET o == op[p] IN
  /\ pc[p] = "check"
  /\ IF Exists(o.path) /\ ~IsPrefix(o.path, o.to) /\ ~Exists(o.to)
        /\ \A y \in Above(o.to) : ~IsFile(y)
     THEN Goto(p, "lock") /\ fs' = Made(fs, Above(o.to)) /\ UNCHANGED ok
     ELSE Fails(p) /\ UNCHANGED fs
  /\ UNCHANGED <<clock, rows, tracked, op, held, got, ghosts>>

Lock(p) ==
  /\ pc[p] = "lock"
  /\ LockFree(p, Locks(op[p])[held[p] + 1])
  /\ held' = [held EXCEPT ![p] = @ + 1]
  /\ IF held[p] + 1 = Len(Locks(op[p])) THEN Goto(p, "act") ELSE UNCHANGED pc
  /\ UNCHANGED <<shared, op, ok, got, ghosts>>

Unlock(p) ==
  /\ pc[p] = "unlock"
  /\ held' = [held EXCEPT ![p] = 0]
  /\ IF ok[p] /\ op[p].kind \in RestKinds \ {"read"}
     THEN Goto(p, "rows") /\ UNCHANGED <<op, ok, got>> ELSE Finish(p)
  /\ UNCHANGED <<shared, ghosts>>

-----------------------------------------------------------------------------
(* With the locks.                                                         *)

(* trackFileMtime: one entry too many, and any one goes.                   *)
Track(x) ==
  LET t == [tracked EXCEPT ![x] = fs'[x].v]
      entries == {y \in Paths : t[y] # 0}
  IN  IF fs'[x].kind # "file" THEN UNCHANGED tracked
      ELSE IF Cardinality(entries) <= MaxTracked THEN tracked' = t
      ELSE \E y \in entries : tracked' = [t EXCEPT ![y] = 0]

Read(p) ==
  LET x == op[p].path IN
  /\ pc[p] = "act" /\ Shared(op[p])
  /\ UNCHANGED fs
  /\ IF ~IsFile(x) THEN Fails(p) /\ UNCHANGED <<tracked, got, seen, strayed>>
     ELSE /\ got' = [got EXCEPT ![p] = fs[x]] /\ Goto(p, "unlock") /\ UNCHANGED ok
          /\ IF p # Agent THEN UNCHANGED <<tracked, seen, strayed>>
             ELSE /\ Track(x) /\ seen' = [seen EXCEPT ![x] = fs[x].v]
                  /\ strayed' = strayed \ {x}
  /\ UNCHANGED <<clock, rows, op, held, ops, disturbed>>

(* executePatch goes on.  Mutant: also when the file has changed.          *)
NeverStale(x) == x \in Paths
NotStale(x)   == tracked[x] = 0 \/ ~Exists(x) \/ fs[x].v <= tracked[x]

MayWrite(o) == IF o.kind = "patch" THEN NotStale(o.path) /\ IsFile(o.path)
               ELSE ~IsDir(o.path) /\ \A y \in Above(o.path) : ~IsFile(y)

(* The file is opened and truncated.  A patch with lines that do not exist *)
(* fails, too, and so may any write.  A failed write of the editor makes a *)
(* row all the same.                                                       *)
StartWrite(p) ==
  LET o == op[p] IN
  /\ pc[p] = "act" /\ o.kind \in WriteKinds \cup {"patch"}
  /\ \/ /\ MayWrite(o)
        /\ clock' = clock + 1
        /\ fs' = [Made(fs, Above(o.path)) EXCEPT ![o.path] = File(clock + 1, FALSE)]
        /\ got' = [got EXCEPT ![p] = File(clock + 1, FALSE)]
        /\ Goto(p, "writing")
        /\ UNCHANGED <<ok, disturbed, rows>>
     \/ /\ Fails(p)
        /\ disturbed' = (disturbed \/ o.kind = "write")
        /\ rows' = IF o.kind = "write" /\ rows[o.path] = 0
                   THEN [rows EXCEPT ![o.path] = 1] ELSE rows
        /\ UNCHANGED <<fs, clock, got>>
  /\ UNCHANGED <<tracked, op, held, seen, strayed, ops>>

(* The rest is written, to the file that was opened, wherever it is now.   *)
(* The editor also tracks the path and sees to its row.                    *)
EndWrite(p) ==
  LET x == op[p].path
      v == got[p].v
  IN
  /\ pc[p] = "writing" /\ Goto(p, "unlock")
  /\ fs' = [y \in Paths |-> IF fs[y].v = v THEN File(v, TRUE) ELSE fs[y]]
  /\ IF p # Agent THEN UNCHANGED <<tracked, seen, strayed, rows>>
     ELSE /\ Track(x)
          /\ seen' = [seen EXCEPT ![x] = v]
          /\ strayed' = IF IsFile(x) /\ fs[x].v # v THEN strayed \cup {x} ELSE strayed \ {x}
          /\ rows' = [rows EXCEPT ![x] = IF @ = 0 THEN 1 ELSE @]
  /\ UNCHANGED <<clock, op, held, ok, got, ops, disturbed>>

MakeDir(p) ==
  LET x == op[p].path IN
  /\ pc[p] = "act" /\ op[p].kind = "mkdir"
  /\ IF CanMake(x) THEN fs' = Made(fs, Above(x) \cup {x}) /\ Goto(p, "unlock") /\ UNCHANGED ok
                   ELSE Fails(p) /\ UNCHANGED fs
  /\ UNCHANGED <<clock, rows, tracked, op, held, got, ghosts>>

(* os.RemoveAll.                                                           *)
Delete(p) ==
  /\ pc[p] = "act" /\ op[p].kind = "delete" /\ Goto(p, "unlock")
  /\ fs' = [y \in Paths |-> IF y \in Under(op[p].path) THEN Absent ELSE fs[y]]
  /\ UNCHANGED <<clock, rows, tracked, op, held, ok, got, ghosts>>

(* os.Rename: replaces a file by a file and an empty directory by a        *)
(* directory.                                                              *)
Rename(p) ==
  LET o == op[p]
      empty == \A y \in Under(o.to) \ {o.to} : ~Exists(y)
  IN
  /\ pc[p] = "act" /\ o.kind = "move"
  /\ IF /\ Exists(o.path) /\ \A y \in Above(o.to) : IsDir(y)
        /\ Exists(o.to) => fs[o.to].kind = fs[o.path].kind /\ empty
     THEN fs' = Relocated(o.path, o.to) /\ Goto(p, "unlock") /\ UNCHANGED ok
     ELSE Fails(p) /\ UNCHANGED fs
  /\ UNCHANGED <<clock, rows, tracked, op, held, got, ghosts>>

-----------------------------------------------------------------------------
(* A walk through the project looks at what is there without the locks.    *)

(* A search opens files; a list wants the size of directories, too.        *)
LooksAt(o, x) == IsFile(x) \/ (o.kind = "list" /\ IsDir(x))

Look(p) ==
  LET x == op[p].path IN
  /\ pc[p] = "walk" /\ Goto(p, "walked")
  /\ got' = IF LooksAt(op[p], x) THEN [got EXCEPT ![p] = fs[x]] ELSE got
  /\ UNCHANGED <<shared, op, held, ok, ghosts>>

(* In lexical order, over what the directories had when the walk came to   *)
(* them; enough matches end it.                                            *)
WalkOn(p) ==
  /\ pc[p] = "walked"
  /\ \/ /\ \E y \in {x \in Paths : Less(op[p].path, x)} :
             op' = [op EXCEPT ![p] = [@ EXCEPT !.path = y, !.to = y]]
        /\ Goto(p, "walk") /\ UNCHANGED <<ok, got>>
     \/ Finish(p)
  /\ UNCHANGED <<shared, held, ghosts>>

WalkStep(p) == Look(p) \/ WalkOn(p)

-----------------------------------------------------------------------------
(* After the locks: the rows.                                              *)

(* deleteProjectFile: the rows of the path and of what was below it.       *)
(* Mutants: of the path alone; one row each.                               *)
RowsWithoutPath(x) == [rows EXCEPT ![x] = 0]
RowsWithout(x)     == [y \in Paths |-> IF y \in Under(x) THEN 0 ELSE rows[y]]

RowsMoved(x, y) ==
  [z \in Paths |-> IF z \in Under(y) THEN rows[z] + rows[Below(y, x, z)]
                   ELSE IF z \in Under(x) THEN 0 ELSE rows[z]]

UpdateRows(p) ==
  LET o == op[p] IN
  /\ pc[p] = "rows" /\ Finish(p)
  /\ rows' = CASE o.kind \in {"create", "mkdir"} -> [rows EXCEPT ![o.path] = @ + 1]
               [] o.kind = "upload" -> [rows EXCEPT ![o.path] = 1]
               [] o.kind = "update" -> rows
               [] o.kind = "delete" -> RowsWithout(o.path)
               [] o.kind = "move"   -> RowsMoved(o.path, o.to)
  /\ UNCHANGED <<fs, clock, tracked, held, ghosts>>

Step(p) ==
  \/ Check(p) \/ Lock(p) \/ Unlock(p) \/ UpdateRows(p)
  \/ Read(p) \/ StartWrite(p) \/ EndWrite(p) \/ MakeDir(p) \/ Delete(p) \/ Rename(p)
  \/ WalkStep(p)

Next == \E p \in Procs : Begin(p) \/ Step(p)

Spec == Init /\ [][Next]_vars

-----------------------------------------------------------------------------
(* Properties.                                                             *)

Contents == [kind : {"absent", "dir", "file"}, v : Nat, whole : BOOLEAN]
Ops      == {NoOp} \cup [kind : RestKinds \cup ToolKinds \cup WalkKinds, path : Paths, to : Paths]

(* Every variable stays in its type.                                       *)
TypeOK ==
  /\ fs \in [Paths -> Contents] /\ clock \in Nat /\ rows \in [Paths -> Nat]
  /\ tracked \in [Paths -> Nat] /\ seen \in [Paths -> Nat] /\ strayed \subseteq Paths
  /\ pc \in [Procs -> {"idle", "check", "lock", "act", "writing", "unlock", "rows",
                   "walk", "walked"}]
  /\ op \in [Procs -> Ops] /\ held \in [Procs -> 0..2] /\ ok \in [Procs -> BOOLEAN]
  /\ got \in [Procs -> Contents] /\ ops \in 0..MaxOps /\ disturbed \in BOOLEAN

(* A read returns half of a write only if the file is written under        *)
(* another path just then: its directory was moved, and a move locks the   *)
(* directory and not what is in it.  Nothing half-written stays behind:    *)
(* even a walk, which has no lock, meets half of a write only while the    *)
(* rest of it is still to come.                                            *)
NoTornRead ==
  [][\A p \in Procs : op[p].kind \in {"read", "toolRead"} \cup WalkKinds
                      /\ got'[p] # got[p] /\ ~got'[p].whole =>
       \E q \in Procs : /\ pc[q] = "writing" /\ got[q].v = got'[p].v
                        /\ Shared(op[p]) => op[q].path # op[p].path]_vars

(* A patch of a tracked path never replaces content that is newer than     *)
(* what this agent has read or written there, whoever else writes, deletes *)
(* or moves files (with one agent: all of them share the table): but if    *)
(* its last write was overtaken by a move that put a newer file in the     *)
(* place of the one it wrote, whose time it then tracked.                  *)
PatchOverSeen ==
  [][pc[Agent] = "act" /\ pc'[Agent] = "writing" /\ op[Agent].kind = "patch"
       => LET x == op[Agent].path IN
                tracked[x] = 0 \/ fs[x].v <= seen[x] \/ x \in strayed]_vars

(* Operations one after the other leave no row behind without its file,    *)
(* whatever they create, move and delete, unless the editor failed to      *)
(* write.                                                                  *)
NoGhostRows ==
  ~disturbed /\ (\A p \in Procs : pc[p] = "idle")
    => \A x \in Paths : rows[x] > 0 => Exists(x)

(* Locks are never waited for in a circle: as long as an operation is      *)
(* going on, one of them can take its next step.                           *)
NoDeadlock ==
  (\E p \in Procs : pc[p] # "idle") =>
    \E p \in Procs : /\ pc[p] # "idle"
                     /\ pc[p] = "lock" => LockFree(p, Locks(op[p])[held[p] + 1])
=============================================================================
