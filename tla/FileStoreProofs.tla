--------------------------- MODULE FileStoreProofs ---------------------------
(***************************************************************************)
(* Every property of FileStore, for any set of paths that is closed under  *)
(* parents and moves, any number of requests and operations, and any size  *)
(* of the table of times.                                                  *)
(*                                                                         *)
(* TypeInv adds to the types where an operation can be and which locks it  *)
(* has there.  NoTornRead follows from LockInv (two hold a lock only if    *)
(* both read) and VersionInv (what is not whole is being written);         *)
(* PatchOverSeen from SeenInv (a tracked time is not newer than what the   *)
(* agent has seen).  NoGhostRows needs that the directory tree is one      *)
(* (TreeInv), that without overlap one operation is at work (AloneInv) and *)
(* which operation will see to a row without a file (RowsInv).  NoDeadlock *)
(* follows from the order of the locks: of the operations that wait with a *)
(* lock, a finite set, one has the greatest.                               *)
(***************************************************************************)
EXTENDS FileStore, SequenceTheorems, FiniteSetTheorems, TLAPS

-----------------------------------------------------------------------------
(* Paths.                                                                  *)

LEMMA PathIs ==
  ASSUME NEW x \in Paths
  PROVE  x \in Seq(Nat) /\ Len(x) \in Nat \ {0}
BY PathsAssumption, EmptySeq, LenProperties

(* A prefix, element by element.                                           *)
LEMMA PrefixIs ==
  ASSUME NEW x \in Paths, NEW y \in Paths
  PROVE  IsPrefix(x, y) <=> /\ Len(x) <= Len(y)
                            /\ \A k \in 1..Len(x) : x[k] = y[k]
<1>1. x \in Seq(Nat) /\ y \in Seq(Nat) /\ Len(x) \in Nat \ {0} /\ Len(y) \in Nat \ {0}
  BY PathIs
<1>2. ASSUME Len(x) <= Len(y)
      PROVE  SubSeq(x, 1, Len(x)) = SubSeq(y, 1, Len(x)) <=> \A k \in 1..Len(x) : x[k] = y[k]
  BY <1>1, <1>2
<1> QED
  BY <1>1, <1>2 DEF IsPrefix

LEMMA PathEqual ==
  ASSUME NEW x \in Paths, NEW y \in Paths, Len(x) = Len(y),
         \A k \in 1..Len(x) : x[k] = y[k]
  PROVE  x = y
BY PathIs, SeqEqual

(* What is below one path, and what is above it.                           *)
LEMMA UnderIs ==
  ASSUME NEW x \in Paths, NEW y \in Paths, Len(x) = Len(y)
  PROVE  /\ x \in Under(x) /\ Under(x) \subseteq Paths
         /\ \A z \in Under(x), w \in Paths : IsPrefix(z, w) => w \in Under(x)
         /\ x # y => Under(x) \cap Under(y) = {}
         /\ \A w \in Under(x), z \in Paths :
              IsStrictPrefix(z, w) => z \in Under(x) \/ z \in Above(x)
         /\ Above(x) \cap Under(y) = {}
<1>0. \A z \in Paths : Len(z) \in Nat \ {0}
  BY PathIs
<1>1. x \in Under(x) /\ Under(x) \subseteq Paths
  BY <1>0, PrefixIs DEF Under
<1>2. ASSUME NEW z \in Under(x), NEW w \in Paths, IsPrefix(z, w) PROVE w \in Under(x)
  BY <1>0, <1>2, PrefixIs DEF Under
<1>3. ASSUME NEW z \in Under(x) \cap Under(y) PROVE x = y
  BY <1>0, PrefixIs, PathEqual DEF Under
<1>4. ASSUME NEW w \in Under(x), NEW z \in Paths, IsStrictPrefix(z, w)
      PROVE  z \in Under(x) \/ z \in Above(x)
  <2>1. CASE Len(x) <= Len(z)
    BY <1>0, <1>4, <2>1, PrefixIs DEF Under, IsStrictPrefix
  <2>2. CASE Len(z) < Len(x)
    BY <1>0, <1>4, <2>2, PrefixIs DEF Under, Above, IsStrictPrefix
  <2> QED
    BY <1>0, <2>1, <2>2
<1>5. ASSUME NEW z \in Above(x) \cap Under(y) PROVE FALSE
  BY <1>0, PrefixIs, PathEqual DEF Under, Above, IsStrictPrefix
<1> QED
  BY <1>1, <1>2, <1>3, <1>4, <1>5

LEMMA BelowSeq ==
  ASSUME NEW x \in Seq(Nat), NEW y \in Seq(Nat), NEW z \in Seq(Nat),
         Len(x) = Len(y), Len(x) <= Len(z)
  PROVE  /\ Len(Below(x, y, z)) = Len(z)
         /\ \A k \in 1..Len(z) : Below(x, y, z)[k] = IF k <= Len(x) THEN y[k] ELSE z[k]
BY DEF Below

(* A move takes what is below x to below y, and keeps its order.           *)
LEMMA BelowIs ==
  ASSUME NEW x \in Paths, NEW y \in Paths, Len(x) = Len(y), NEW z \in Under(x)
  PROVE  /\ Below(x, y, z) \in Under(y)
         /\ Len(Below(x, y, z)) = Len(z)
         /\ \A k \in 1..Len(z) : Below(x, y, z)[k] = IF k <= Len(x) THEN y[k] ELSE z[k]
         /\ Below(y, x, Below(x, y, z)) = z
         /\ Below(x, y, x) = y
<1> DEFINE b == Below(x, y, z)
<1>1. z \in Paths /\ IsPrefix(x, z)
  BY DEF Under
<1>2. x \in Seq(Nat) /\ y \in Seq(Nat) /\ z \in Seq(Nat) /\ Len(x) \in Nat /\ Len(z) \in Nat
      /\ Len(x) <= Len(z)
  BY <1>1, PathIs, PrefixIs
<1>3. b \in Paths
  BY <1>1, PathsAssumption
<1>4. Len(b) = Len(z) /\ \A k \in 1..Len(z) : b[k] = IF k <= Len(x) THEN y[k] ELSE z[k]
  BY <1>2, BelowSeq
<1> HIDE DEF b
<1>5. b \in Under(y)
  <2>1. Len(y) <= Len(b) /\ \A k \in 1..Len(y) : y[k] = b[k]
    BY <1>2, <1>4
  <2> QED
    BY <1>3, <2>1, PrefixIs DEF Under
<1>6. Below(y, x, b) = z
  <2>1. Below(y, x, b) \in Paths
    BY <1>3, <1>5, PathsAssumption DEF Under
  <2>2. \A k \in 1..Len(x) : x[k] = z[k]
    BY <1>1, PrefixIs
  <2>3. b \in Seq(Nat)
    BY <1>3, PathIs
  <2>4. Len(Below(y, x, b)) = Len(b)
        /\ \A k \in 1..Len(b) : Below(y, x, b)[k] = IF k <= Len(y) THEN x[k] ELSE b[k]
    BY <1>2, <1>4, <2>3, BelowSeq
  <2>5. \A k \in 1..Len(z) : Below(y, x, b)[k] = z[k]
    BY <1>2, <1>4, <2>2, <2>4
  <2> QED
    BY <1>1, <1>4, <2>1, <2>4, <2>5, PathEqual
<1>7. Below(x, y, x) = y
  <2>1. Below(x, y, x) \in Paths
    BY <1>2, PrefixIs, PathsAssumption
  <2>2. Len(Below(x, y, x)) = Len(y) /\ \A k \in 1..Len(y) : Below(x, y, x)[k] = y[k]
    BY <1>2, BelowSeq
  <2> QED
    BY <2>1, <2>2, PathEqual
<1> QED
  BY <1>4, <1>5, <1>6, <1>7 DEF b

LEMMA BelowOrder ==
  ASSUME NEW x \in Paths, NEW y \in Paths, Len(x) = Len(y),
         NEW z \in Under(x), NEW w \in Under(x), IsStrictPrefix(z, w)
  PROVE  IsStrictPrefix(Below(x, y, z), Below(x, y, w))
<1> DEFINE b == Below(x, y, z)
           c == Below(x, y, w)
<1>1. b \in Paths /\ c \in Paths /\ z \in Paths /\ w \in Paths
  BY BelowIs DEF Under
<1>2. Len(b) = Len(z) /\ Len(c) = Len(w) /\ Len(z) \in Nat /\ Len(w) \in Nat
  BY <1>1, BelowIs, PathIs
<1>3. Len(z) <= Len(w) /\ \A k \in 1..Len(z) : z[k] = w[k]
  BY <1>1, PrefixIs DEF IsStrictPrefix
<1>4. \A k \in 1..Len(z) : b[k] = c[k]
  BY <1>2, <1>3, BelowIs
<1>5. b # c
  BY BelowIs DEF IsStrictPrefix
<1> HIDE DEF b, c
<1>6. IsPrefix(b, c)
  BY <1>1, <1>2, <1>3, <1>4, PrefixIs
<1> QED
  BY <1>5, <1>6 DEF IsStrictPrefix, b, c

-----------------------------------------------------------------------------
(* Types, and where an operation can be.                                   *)

Kinds(p) == IF p = Agent THEN ToolKinds ELSE RestKinds \cup WalkKinds

ProcInv(p) ==
  LET o == op[p] IN
  /\ pc[p] = "idle" => o = NoOp /\ held[p] = 0
  /\ pc[p] # "idle" => o.kind \in Kinds(p) /\ o.path \in Paths /\ o.to \in Paths
                       /\ Len(o.path) = Len(o.to)
  /\ pc[p] = "check" => o.kind = "move"
  /\ pc[p] = "lock" => o.kind \notin Unlocked /\ held[p] < Len(Locks(o))
  /\ pc[p] \in {"check", "rows", "walk", "walked"} => held[p] = 0
  /\ pc[p] \in {"walk", "walked"} => o.kind \in WalkKinds
  /\ pc[p] \in {"act", "writing"} => held[p] = Len(Locks(o))
  /\ held[p] <= Len(Locks(o))
  /\ pc[p] = "writing" => o.kind \in WriteKinds \cup {"patch"}
  /\ pc[p] = "rows" => o.kind \in RestKinds \ {"read"}
  /\ pc[p] # "unlock" => ok[p]

StoreTypes ==
  /\ fs \in [Paths -> Contents] /\ clock \in Nat /\ rows \in [Paths -> Nat]
  /\ tracked \in [Paths -> Nat] /\ seen \in [Paths -> Nat] /\ strayed \subseteq Paths
  /\ got \in [Procs -> Contents]

ProcTypes ==
  /\ pc \in [Procs -> {"idle", "check", "lock", "act", "writing", "unlock", "rows",
                   "walk", "walked"}]
  /\ op \in [Procs -> Ops] /\ held \in [Procs -> 0..2] /\ ok \in [Procs -> BOOLEAN]
  /\ ops \in 0..MaxOps /\ disturbed \in BOOLEAN
  /\ \A p \in Procs : ProcInv(p)

TypeInv == StoreTypes /\ ProcTypes

LEMMA LocksIs ==
  ASSUME NEW o
  PROVE  /\ Len(Locks(o)) = IF o.kind \in Unlocked THEN 0 ELSE IF o.kind = "move" THEN 2 ELSE 1
         /\ \A n \in 1..Len(Locks(o)) : Locks(o)[n] \in {o.path, o.to}
         /\ o.kind \notin Unlocked \cup {"move"} => Locks(o)[1] = o.path
BY DEF Locks, Unlocked, WalkKinds

LEMMA TypeInit == Init => TypeInv
<1> SUFFICES ASSUME Init PROVE TypeInv
  OBVIOUS
<1>1. StoreTypes
  BY DEF Init, StoreTypes, Contents, Absent, Dir, File
<1>2. ProcTypes
  <2>1. /\ pc = [p \in Procs |-> "idle"] /\ op = [p \in Procs |-> NoOp]
        /\ held = [p \in Procs |-> 0] /\ ok = [p \in Procs |-> TRUE]
        /\ ops = 0 /\ disturbed = FALSE
    BY DEF Init
  <2>2. ASSUME NEW p \in Procs PROVE ProcInv(p)
    <3>1. pc[p] = "idle" /\ op[p] = NoOp /\ held[p] = 0 /\ ok[p]
      BY <2>1
    <3>2. Len(Locks(NoOp)) \in Nat
      BY LocksIs
    <3> QED
      BY <3>1, <3>2 DEF ProcInv
  <2>3. NoOp \in Ops /\ ops \in 0..MaxOps
    BY <2>1, BoundsAssumption DEF Ops
  <2>4. op \in [Procs -> Ops]
    BY <2>1, <2>3
  <2>5. pc \in [Procs -> {"idle", "check", "lock", "act", "writing", "unlock", "rows",
                         "walk", "walked"}]
    BY <2>1
  <2>6. held \in [Procs -> 0..2]
    BY <2>1
  <2>7. ok \in [Procs -> BOOLEAN] /\ disturbed \in BOOLEAN
    BY <2>1
  <2> QED
    BY <2>2, <2>3, <2>4, <2>5, <2>6, <2>7 DEF ProcTypes
<1> QED
  BY <1>1, <1>2 DEF TypeInv

(* A walk changes nothing but where it is and what it has just seen.       *)
LEMMA WalkIs ==
  ASSUME TypeInv, NEW p \in Procs, WalkStep(p)
  PROVE  /\ fs' = fs /\ clock' = clock /\ rows' = rows /\ tracked' = tracked /\ held' = held
         /\ seen' = seen /\ strayed' = strayed /\ ops' = ops /\ disturbed' = disturbed
         /\ ok' = ok /\ held[p] = 0
         /\ pc[p] \in {"walk", "walked"} /\ op[p].kind \in WalkKinds
         /\ \E to \in {"walk", "walked", "idle"} : Goto(p, to)
         /\ \A q \in Procs \ {p} : pc'[q] = pc[q] /\ op'[q] = op[q] /\ got'[q] = got[q]
         /\ op' \in [Procs -> Ops] /\ ProcInv(p)'
         /\ got' \in [Procs -> Contents] /\ got'[p] \in {got[p], Absent, fs[op[p].path]}
<1>0. /\ fs \in [Paths -> Contents] /\ got \in [Procs -> Contents] /\ op \in [Procs -> Ops]
      /\ held \in [Procs -> 0..2] /\ ok \in [Procs -> BOOLEAN] /\ DOMAIN pc = Procs
      /\ ProcInv(p) /\ Absent \in Contents /\ NoOp \in Ops
  BY DEF TypeInv, StoreTypes, ProcTypes, Contents, Absent, Ops
<1>1. /\ fs' = fs /\ clock' = clock /\ rows' = rows /\ tracked' = tracked /\ held' = held
      /\ seen' = seen /\ strayed' = strayed /\ ops' = ops /\ disturbed' = disturbed
      /\ pc[p] \in {"walk", "walked"}
  BY DEF WalkStep, Look, WalkOn, shared, ghosts
<1>2. /\ held[p] = 0 /\ ok[p] /\ op[p].kind \in WalkKinds /\ op[p].kind \in Kinds(p)
      /\ op[p].path \in Paths
  BY <1>0, <1>1 DEF ProcInv
<1>3. CASE Look(p)
  <2>1. /\ op' = op /\ ok' = ok /\ Goto(p, "walked")
        /\ got' = got \/ got' = [got EXCEPT ![p] = fs[op[p].path]]
    BY <1>3 DEF Look
  <2>2. ProcInv(p)'
    BY <1>0, <1>1, <1>2, <2>1 DEF ProcInv, Goto, Kinds
  <2> QED
    BY <1>0, <1>1, <1>2, <2>1, <2>2 DEF Goto
<1>4. CASE WalkOn(p) /\ Goto(p, "walk")
  <2>1. PICK y \in Paths : op' = [op EXCEPT ![p] = [@ EXCEPT !.path = y, !.to = y]]
    BY <1>0, <1>4 DEF WalkOn, Finish, Goto
  <2>2. ok' = ok /\ got' = got
    BY <1>0, <1>4 DEF WalkOn, Finish, Goto
  <2>3. op[p] \in [kind : WalkKinds, path : Paths, to : Paths]
    BY <1>0, <1>2 DEF Ops, WalkKinds, NoOp
  <2>4. op'[p] = [kind |-> op[p].kind, path |-> y, to |-> y]
    BY <1>0, <2>1, <2>3
  <2>5. op'[p] \in Ops
    BY <1>2, <2>4 DEF Ops
  <2>6. ProcInv(p)'
    <3>1. /\ op'[p].kind = op[p].kind /\ op'[p].path = y /\ op'[p].to = y
          /\ pc'[p] = "walk" /\ held'[p] = 0 /\ ok'[p]
      BY <1>0, <1>1, <1>2, <1>4, <2>2, <2>4 DEF Goto
    <3>2. 0 <= Len(Locks(op'[p]))
      BY LocksIs
    <3> QED
      BY <1>2, <3>1, <3>2 DEF ProcInv, Kinds
  <2>7. op' \in [Procs -> Ops]
    BY <1>0, <2>1, <2>5
  <2> QED
    BY <1>0, <1>1, <1>2, <1>4, <2>1, <2>2, <2>6, <2>7 DEF Goto
<1>5. CASE WalkOn(p) /\ Finish(p)
  <2>1. /\ Goto(p, "idle") /\ op' = [op EXCEPT ![p] = NoOp]
        /\ got' = [got EXCEPT ![p] = Absent] /\ ok' = [ok EXCEPT ![p] = TRUE]
    BY <1>5 DEF Finish
  <2>2. ok' = ok
    BY <1>0, <1>2, <2>1
  <2>3. ProcInv(p)'
    <3>1. op'[p] = NoOp /\ pc'[p] = "idle" /\ held'[p] = 0 /\ ok'[p]
      BY <1>0, <1>1, <1>2, <2>1 DEF Goto
    <3>2. 0 <= Len(Locks(op'[p]))
      BY LocksIs
    <3> QED
      BY <3>1, <3>2 DEF ProcInv
  <2> QED
    BY <1>0, <1>1, <1>2, <2>1, <2>2, <2>3 DEF Goto
<1> QED
  BY <1>3, <1>4, <1>5 DEF WalkStep, WalkOn

LEMMA TrackType ==
  ASSUME NEW x \in Paths, fs' \in [Paths -> Contents], tracked \in [Paths -> Nat], Track(x)
  PROVE  /\ tracked' \in [Paths -> Nat]
         /\ \A y \in Paths : \/ tracked'[y] \in {0, tracked[y]}
                             \/ y = x /\ fs'[x].kind = "file" /\ tracked'[y] = fs'[x].v
         /\ fs'[x].kind = "file" => tracked'[x] \in {0, fs'[x].v}
         /\ fs'[x].kind # "file" => tracked' = tracked
<1>1. CASE fs'[x].kind # "file"
  BY <1>1 DEF Track
<1>2. CASE fs'[x].kind = "file"
  <2> DEFINE t == [tracked EXCEPT ![x] = fs'[x].v]
  <2>1. t \in [Paths -> Nat]
    BY DEF Contents
  <2>2. tracked' = t \/ \E y \in Paths : tracked' = [t EXCEPT ![y] = 0]
    BY <1>2 DEF Track
  <2>3. \A y \in Paths : t[y] = IF y = x THEN fs'[x].v ELSE tracked[y]
    OBVIOUS
  <2> HIDE DEF t
  <2> QED
    BY <1>2, <2>1, <2>2, <2>3
<1> QED
  BY <1>1, <1>2

LEMMA StoreNext == TypeInv /\ [Next]_vars => StoreTypes'
<1> SUFFICES ASSUME TypeInv, [Next]_vars PROVE StoreTypes'
  OBVIOUS
<1> USE DEF StoreTypes, Contents
<1>0. /\ fs \in [Paths -> Contents] /\ clock \in Nat /\ rows \in [Paths -> Nat]
      /\ tracked \in [Paths -> Nat] /\ seen \in [Paths -> Nat] /\ strayed \subseteq Paths
      /\ got \in [Procs -> Contents] /\ Absent \in Contents /\ Dir \in Contents
      /\ \A p \in Procs : pc[p] # "idle" => op[p].path \in Paths /\ op[p].to \in Paths
                                            /\ Len(op[p].path) = Len(op[p].to)
  BY DEF TypeInv, ProcTypes, ProcInv, Absent, Dir
<1>1. ASSUME NEW xs PROVE Made(fs, xs) \in [Paths -> Contents]
  BY <1>0 DEF Made
<1>2. ASSUME NEW p \in Procs, Begin(p) PROVE StoreTypes'
  BY <1>0, <1>2 DEF Begin, shared
<1>3. ASSUME NEW p \in Procs, Check(p) PROVE StoreTypes'
  BY <1>0, <1>1, <1>3 DEF Check, ghosts
<1>4. ASSUME NEW p \in Procs, Lock(p) PROVE StoreTypes'
  BY <1>0, <1>4 DEF Lock, shared, ghosts
<1>5. ASSUME NEW p \in Procs, Unlock(p) PROVE StoreTypes'
  BY <1>0, <1>5 DEF Unlock, Finish, shared, ghosts
<1>6. ASSUME NEW p \in Procs, UpdateRows(p) PROVE StoreTypes'
  <2> DEFINE o == op[p]
  <2>1. pc[p] = "rows" /\ o.path \in Paths /\ o.to \in Paths /\ Len(o.path) = Len(o.to)
        /\ o.kind \in {"create", "mkdir", "update", "upload", "delete", "move"}
    BY <1>0, <1>6 DEF UpdateRows, TypeInv, ProcTypes, ProcInv, RestKinds
  <2>2. RowsWithout(o.path) \in [Paths -> Nat]
    BY <1>0 DEF RowsWithout
  <2>3. RowsMoved(o.path, o.to) \in [Paths -> Nat]
    <3>1. \A z \in Under(o.to) : Below(o.to, o.path, z) \in Paths
      BY <2>1, BelowIs DEF Under
    <3> HIDE DEF o
    <3>2. ASSUME NEW z \in Paths
          PROVE  (IF z \in Under(o.to) THEN rows[z] + rows[Below(o.to, o.path, z)]
                  ELSE IF z \in Under(o.path) THEN 0 ELSE rows[z]) \in Nat
      BY <1>0, <3>1
    <3> QED
      BY <3>2 DEF RowsMoved
  <2>4. rows' \in [Paths -> Nat]
    <3>1. CASE o.kind \in {"create", "mkdir"}
      <4>1. rows' = [rows EXCEPT ![o.path] = @ + 1]
        BY <1>6, <3>1 DEF UpdateRows
      <4> QED
        BY <1>0, <2>1, <4>1
    <3>2. CASE o.kind = "upload"
      BY <1>0, <1>6, <2>1, <3>2 DEF UpdateRows
    <3>3. CASE o.kind = "update"
      BY <1>0, <1>6, <2>1, <3>3 DEF UpdateRows
    <3>4. CASE o.kind = "delete"
      BY <1>0, <1>6, <2>2, <3>4 DEF UpdateRows
    <3>5. CASE o.kind = "move"
      BY <1>0, <1>6, <2>3, <3>5 DEF UpdateRows
    <3> QED
      BY <2>1, <3>1, <3>2, <3>3, <3>4, <3>5
  <2> QED
    BY <1>0, <1>6, <2>4 DEF UpdateRows, Finish, ghosts
<1>7. ASSUME NEW p \in Procs, Read(p) PROVE StoreTypes'
  <2>1. pc[p] # "idle" /\ op[p].path \in Paths
    BY <1>0, <1>7 DEF Read
  <2>2. fs' = fs /\ clock' = clock /\ rows' = rows /\ got' \in [Procs -> Contents]
        /\ seen' \in [Paths -> Nat] /\ strayed' \subseteq Paths
    BY <1>0, <1>7, <2>1 DEF Read
  <2>3. tracked' = tracked \/ Track(op[p].path)
    BY <1>7 DEF Read
  <2> QED
    BY <1>0, <2>1, <2>2, <2>3, TrackType
<1>8. ASSUME NEW p \in Procs, StartWrite(p) PROVE StoreTypes'
  <2>1. pc[p] # "idle" /\ op[p].path \in Paths
    BY <1>0, <1>8 DEF StartWrite
  <2>2. File(clock + 1, FALSE) \in Contents
    BY <1>0 DEF File
  <2>3. fs' \in [Paths -> Contents] /\ clock' \in Nat /\ got' \in [Procs -> Contents]
    <3>1. CASE Fails(p) /\ UNCHANGED <<fs, clock, got>>
      BY <1>0, <3>1
    <3>2. CASE /\ clock' = clock + 1
               /\ fs' = [Made(fs, Above(op[p].path)) EXCEPT ![op[p].path] = File(clock + 1, FALSE)]
               /\ got' = [got EXCEPT ![p] = File(clock + 1, FALSE)]
      <4> DEFINE t == Made(fs, Above(op[p].path))
                 f == File(clock + 1, FALSE)
      <4>1. t \in [Paths -> Contents]
        BY <1>1
      <4> HIDE DEF t, f
      <4>2. f \in Contents
        BY <2>2 DEF f
      <4>3. fs' = [t EXCEPT ![op[p].path] = f] /\ got' = [got EXCEPT ![p] = f]
        BY <3>2 DEF t, f
      <4>4. got \in [Procs -> Contents] /\ op[p].path \in Paths /\ clock \in Nat
        BY <1>0, <2>1
      <4> HIDE DEF Contents
      <4>5. fs' \in [Paths -> Contents]
        BY <4>1, <4>2, <4>3
      <4>6. got' \in [Procs -> Contents]
        BY <4>2, <4>3, <4>4
      <4>7. clock' \in Nat
        BY <3>2, <4>4
      <4> QED
        BY <4>5, <4>6, <4>7
    <3> QED
      BY <1>8, <3>1, <3>2 DEF StartWrite
  <2>4. rows' = rows \/ rows' = [rows EXCEPT ![op[p].path] = 1]
    BY <1>8 DEF StartWrite
  <2> QED
    <3>1. rows' \in [Paths -> Nat]
      <4>1. rows \in [Paths -> Nat] /\ op[p].path \in Paths
        BY <1>0, <2>1
      <4> QED
        BY <2>4, <4>1
    <3>2. UNCHANGED <<tracked, seen, strayed>>
      BY <1>8 DEF StartWrite
    <3> QED
      BY <1>0, <2>3, <3>1, <3>2
<1>9. ASSUME NEW p \in Procs, EndWrite(p) PROVE StoreTypes'
  <2>1. pc[p] # "idle" /\ op[p].path \in Paths
    BY <1>0, <1>9 DEF EndWrite
  <2>0. got[p].v \in Nat
    BY <1>0
  <2>2. fs' \in [Paths -> Contents] /\ clock' = clock /\ got' = got
    BY <1>0, <1>9, <2>0 DEF EndWrite, File
  <2>4. rows' \in [Paths -> Nat] /\ seen' \in [Paths -> Nat] /\ strayed' \subseteq Paths
    <3>1. /\ rows' = rows \/ rows' = [rows EXCEPT ![op[p].path] = IF @ = 0 THEN 1 ELSE @]
          /\ seen' = seen \/ seen' = [seen EXCEPT ![op[p].path] = got[p].v]
          /\ strayed' \in {strayed, strayed \cup {op[p].path}, strayed \ {op[p].path}}
      BY <1>9 DEF EndWrite
    <3>2. rows' \in [Paths -> Nat]
      <4>1. rows \in [Paths -> Nat] /\ op[p].path \in Paths
        BY <1>0, <2>1
      <4> QED
        BY <3>1, <4>1
    <3>3. seen' \in [Paths -> Nat]
      BY <1>0, <2>0, <2>1, <3>1
    <3> QED
      BY <1>0, <2>1, <3>1, <3>2, <3>3
  <2>3. tracked' = tracked \/ Track(op[p].path)
    BY <1>9 DEF EndWrite
  <2> QED
    BY <1>0, <2>1, <2>2, <2>3, <2>4, TrackType
<1>10. ASSUME NEW p \in Procs, MakeDir(p) PROVE StoreTypes'
  BY <1>0, <1>1, <1>10 DEF MakeDir, ghosts
<1>11. ASSUME NEW p \in Procs, Delete(p) PROVE StoreTypes'
  BY <1>0, <1>11 DEF Delete, ghosts
<1>12. ASSUME NEW p \in Procs, Rename(p) PROVE StoreTypes'
  <2>1. pc[p] # "idle" /\ op[p].path \in Paths /\ op[p].to \in Paths
        /\ Len(op[p].path) = Len(op[p].to)
    BY <1>0, <1>12 DEF Rename
  <2>2. Relocated(op[p].path, op[p].to) \in [Paths -> Contents]
    <3>1. \A z \in Under(op[p].to) : Below(op[p].to, op[p].path, z) \in Paths
      BY <2>1, BelowIs DEF Under
    <3> QED
      BY <1>0, <3>1 DEF Relocated
  <2> QED
    BY <1>0, <1>12, <2>2 DEF Rename, ghosts
<1>13. CASE UNCHANGED vars
  BY <1>0, <1>13 DEF vars
<1>14. ASSUME NEW p \in Procs, WalkStep(p) PROVE StoreTypes'
  BY <1>0, <1>14, WalkIs
<1> QED
  BY <1>2, <1>3, <1>4, <1>5, <1>6, <1>7, <1>8, <1>9, <1>10, <1>11, <1>12, <1>13, <1>14
     DEF Next, Step

LEMMA ProcNext == TypeInv /\ [Next]_vars => ProcTypes'
<1> SUFFICES ASSUME TypeInv, [Next]_vars PROVE ProcTypes'
  OBVIOUS
<1> DEFINE Points == {"idle", "check", "lock", "act", "writing", "unlock", "rows",
                       "walk", "walked"}
<1>0. /\ pc \in [Procs -> Points] /\ op \in [Procs -> Ops] /\ held \in [Procs -> 0..2]
      /\ ok \in [Procs -> BOOLEAN] /\ ops \in 0..MaxOps /\ disturbed \in BOOLEAN
      /\ \A p \in Procs : ProcInv(p)
  BY DEF TypeInv, ProcTypes
<1>1. ASSUME pc' \in [Procs -> Points], op' \in [Procs -> Ops], held' \in [Procs -> 0..2],
             ok' \in [Procs -> BOOLEAN], ops' \in 0..MaxOps, disturbed' \in BOOLEAN,
             \A p \in Procs : ProcInv(p)'
      PROVE  ProcTypes'
  BY <1>1 DEF ProcTypes
<1>19. /\ \A p \in Procs, to \in Points : Goto(p, to) => pc' \in [Procs -> Points]
       /\ \A p \in Procs : op' = [op EXCEPT ![p] = NoOp] => op' \in [Procs -> Ops]
       /\ \A p \in Procs, b \in BOOLEAN : ok' = [ok EXCEPT ![p] = b] => ok' \in [Procs -> BOOLEAN]
       /\ \A p \in Procs, n \in 0..2 : held' = [held EXCEPT ![p] = n] => held' \in [Procs -> 0..2]
  BY <1>0 DEF Goto, Ops
<1> HIDE DEF Points
<1>20. Points = {"idle", "check", "lock", "act", "writing", "unlock", "rows", "walk", "walked"}
  BY DEF Points
(* Only the goroutine that takes the step changes its place.               *)
<1>2. ASSUME NEW p \in Procs, Begin(p) \/ Step(p), NEW q \in Procs, q # p
      PROVE  pc'[q] = pc[q] /\ op'[q] = op[q] /\ held'[q] = held[q] /\ ok'[q] = ok[q]
  <2>1. CASE WalkStep(p)
    BY <1>2, <2>1, WalkIs
  <2>2. CASE ~WalkStep(p)
    BY <1>0, <1>2, <2>2 DEF Begin, Step, Check, Lock, Unlock, UpdateRows, Read, StartWrite,
                  EndWrite, MakeDir, Delete, Rename, Goto, Fails, Finish
  <2> QED
    BY <2>1, <2>2
<1>3. ASSUME NEW p \in Procs, NEW q \in Procs,
             pc'[q] = pc[q] /\ op'[q] = op[q] /\ held'[q] = held[q] /\ ok'[q] = ok[q]
      PROVE  ProcInv(q)'
  BY <1>0, <1>3 DEF ProcInv, Kinds, Locks
<1>4. ASSUME NEW p \in Procs, Begin(p) \/ Step(p), ProcInv(p)'
      PROVE  \A q \in Procs : ProcInv(q)'
  BY <1>2, <1>3, <1>4
<1>5. NoOp \in Ops /\ Len(Locks(NoOp)) \in Nat
  BY LocksIs DEF Ops
<1>6. ASSUME NEW p \in Procs, Begin(p) PROVE ProcTypes'
  <2>1. PICK k \in Kinds(p), x \in Paths, y \in Paths :
          /\ Len(x) = Len(y)
          /\ op' = [op EXCEPT ![p] = [kind |-> k, path |-> x, to |-> y]]
          /\ Goto(p, Entered(k))
    BY <1>6 DEF Begin, Kinds
  <2>2. [kind |-> k, path |-> x, to |-> y] \in Ops
    BY DEF Ops, Kinds
  <2>3. pc[p] = "idle" /\ held[p] = 0 /\ ok[p] /\ held' = held /\ ok' = ok
        /\ ops' = ops + 1 /\ ops < MaxOps /\ disturbed' \in BOOLEAN
    BY <1>0, <1>6 DEF Begin, ProcInv
  <2>4. ProcInv(p)'
    <3>1. op'[p] = [kind |-> k, path |-> x, to |-> y]
          /\ pc'[p] = Entered(k)
      BY <1>0, <2>1 DEF Goto
    <3>2. Len(Locks([kind |-> k, path |-> x, to |-> y])) = IF k \in Unlocked THEN 0 ELSE IF k = "move" THEN 2 ELSE 1
      <4> DEFINE o == [kind |-> k, path |-> x, to |-> y]
      <4>1. o.kind = k
        OBVIOUS
      <4> HIDE DEF o
      <4>2. Len(Locks(o)) = IF k \in Unlocked THEN 0 ELSE IF k = "move" THEN 2 ELSE 1
        BY <4>1, LocksIs
      <4> QED
        BY <4>2 DEF o
    <3> QED
      BY <2>1, <2>3, <3>1, <3>2 DEF ProcInv, Kinds, Goto, Entered, Unlocked, WalkKinds
  <2>5. pc' \in [Procs -> Points]
    BY <1>19, <1>20, <2>1 DEF Entered
  <2>6. op' \in [Procs -> Ops]
    BY <1>0, <2>1, <2>2
  <2>7. ops' \in 0..MaxOps
    BY <1>0, <2>3, BoundsAssumption
  <2> QED
    BY <1>0, <1>1, <1>4, <1>6, <2>3, <2>4, <2>5, <2>6, <2>7
<1>7. ASSUME NEW p \in Procs, Check(p) PROVE ProcTypes'
  <2>1. op'= op /\ held' = held /\ ops' = ops /\ disturbed' = disturbed /\ pc[p] = "check"
        /\ \/ Goto(p, "lock") /\ ok' = ok
           \/ Goto(p, "unlock") /\ ok' = [ok EXCEPT ![p] = FALSE]
    BY <1>7 DEF Check, Fails, ghosts
  <2>2. Len(Locks(op[p])) = 2
    BY <1>0, <2>1, LocksIs DEF ProcInv, Unlocked, WalkKinds
  <2>3. ProcInv(p)'
    BY <1>0, <2>1, <2>2, LocksIs DEF ProcInv, Goto, Kinds
  <2>4. pc' \in [Procs -> Points] /\ ok' \in [Procs -> BOOLEAN]
    BY <1>0, <1>19, <1>20, <2>1
  <2> QED
    BY <1>0, <1>1, <1>4, <1>7, <2>1, <2>3, <2>4 DEF Step
<1>8. ASSUME NEW p \in Procs, Lock(p) PROVE ProcTypes'
  <2>1. /\ op' = op /\ ok' = ok /\ ops' = ops /\ disturbed' = disturbed /\ pc[p] = "lock"
        /\ held' = [held EXCEPT ![p] = @ + 1]
        /\ IF held[p] + 1 = Len(Locks(op[p])) THEN Goto(p, "act") ELSE pc' = pc
    BY <1>8 DEF Lock, ghosts
  <2>2. held[p] < Len(Locks(op[p])) /\ Len(Locks(op[p])) \in {1, 2} /\ held[p] \in Nat
    BY <1>0, <2>1, LocksIs DEF ProcInv, Unlocked, WalkKinds
  <2>3. ProcInv(p)'
    BY <1>0, <2>1, <2>2 DEF ProcInv, Goto, Kinds
  <2>4. held' \in [Procs -> 0..2]
    <3>1. held[p] + 1 \in 0..2
      <4> DEFINE n == Len(Locks(op[p]))
      <4>1. held[p] < n /\ n \in {1, 2} /\ held[p] \in Nat
        BY <2>2
      <4> HIDE DEF n
      <4> QED
        BY <4>1
    <3> QED
      BY <1>19, <2>1, <3>1
  <2>5. pc' \in [Procs -> Points]
    BY <1>0, <1>19, <1>20, <2>1
  <2> QED
    BY <1>0, <1>1, <1>4, <1>8, <2>1, <2>3, <2>4, <2>5 DEF Step
<1>9. ASSUME NEW p \in Procs, Unlock(p) PROVE ProcTypes'
  <2>1. /\ ops' = ops /\ disturbed' = disturbed /\ pc[p] = "unlock"
        /\ held' = [held EXCEPT ![p] = 0]
        /\ \/ ok[p] /\ op[p].kind \in RestKinds \ {"read"} /\ Goto(p, "rows") /\ op' = op /\ ok' = ok
           \/ Goto(p, "idle") /\ op' = [op EXCEPT ![p] = NoOp] /\ ok' = [ok EXCEPT ![p] = TRUE]
    BY <1>9 DEF Unlock, Finish, ghosts
  <2>2. ProcInv(p)'
    BY <1>0, <1>5, <2>1, LocksIs DEF ProcInv, Goto, Kinds
  <2>3. pc' \in [Procs -> Points] /\ op' \in [Procs -> Ops]
    BY <1>0, <1>19, <1>20, <2>1
  <2>4. ok' \in [Procs -> BOOLEAN] /\ held' \in [Procs -> 0..2]
    <3>1. held' \in [Procs -> 0..2]
      BY <1>0, <2>1
    <3> QED
      BY <1>0, <1>19, <2>1, <3>1
  <2> QED
    BY <1>0, <1>1, <1>4, <1>9, <2>1, <2>2, <2>3, <2>4 DEF Step
<1>10. ASSUME NEW p \in Procs, UpdateRows(p) PROVE ProcTypes'
  <2>1. /\ ops' = ops /\ disturbed' = disturbed /\ pc[p] = "rows" /\ held' = held
        /\ Goto(p, "idle") /\ op' = [op EXCEPT ![p] = NoOp] /\ ok' = [ok EXCEPT ![p] = TRUE]
    BY <1>10 DEF UpdateRows, Finish, ghosts
  <2>2. ProcInv(p)'
    BY <1>0, <1>5, <2>1 DEF ProcInv, Goto, Kinds
  <2>3. pc' \in [Procs -> Points] /\ op' \in [Procs -> Ops]
    BY <1>0, <1>19, <1>20, <2>1
  <2>4. ok' \in [Procs -> BOOLEAN] /\ held' \in [Procs -> 0..2]
    BY <1>0, <1>19, <2>1
  <2> QED
    BY <1>0, <1>1, <1>4, <1>10, <2>1, <2>2, <2>3, <2>4 DEF Step
(* The steps with the locks held.                                          *)
<1>11. ASSUME NEW p \in Procs, op' = op, held' = held, ops' = ops, disturbed' \in BOOLEAN,
              pc[p] \in {"act", "writing"}, Step(p),
              \/ Goto(p, "unlock") /\ ok' = ok
              \/ Fails(p)
              \/ Goto(p, "writing") /\ ok' = ok /\ op[p].kind \in WriteKinds \cup {"patch"}
                 /\ pc[p] = "act"
       PROVE  ProcTypes'
  <2>1. ProcInv(p)'
    BY <1>0, <1>11 DEF ProcInv, Goto, Kinds, Fails
  <2>2. pc' \in [Procs -> Points]
    BY <1>11, <1>19, <1>20 DEF Fails
  <2>3. ok' \in [Procs -> BOOLEAN]
    BY <1>0, <1>11, <1>19 DEF Fails
  <2> QED
    BY <1>0, <1>1, <1>4, <1>11, <2>1, <2>2, <2>3
<1>12. ASSUME NEW p \in Procs, Read(p) PROVE ProcTypes'
  BY <1>0, <1>11, <1>12 DEF Read, Step
<1>13. ASSUME NEW p \in Procs, StartWrite(p) PROVE ProcTypes'
  BY <1>0, <1>11, <1>13 DEF StartWrite, Step
<1>14. ASSUME NEW p \in Procs, EndWrite(p) PROVE ProcTypes'
  BY <1>0, <1>11, <1>14 DEF EndWrite, Step
<1>15. ASSUME NEW p \in Procs, MakeDir(p) PROVE ProcTypes'
  BY <1>0, <1>11, <1>15 DEF MakeDir, Step, ghosts
<1>16. ASSUME NEW p \in Procs, Delete(p) PROVE ProcTypes'
  BY <1>0, <1>11, <1>16 DEF Delete, Step, ghosts
<1>17. ASSUME NEW p \in Procs, Rename(p) PROVE ProcTypes'
  BY <1>0, <1>11, <1>17 DEF Rename, Step, ghosts
<1>18. CASE UNCHANGED vars
  BY <1>0, <1>1, <1>3, <1>18 DEF vars
<1>21. ASSUME NEW p \in Procs, WalkStep(p) PROVE ProcTypes'
  <2>1. pc' \in [Procs -> Points]
    BY <1>19, <1>20, <1>21, WalkIs
  <2> QED
    BY <1>0, <1>1, <1>4, <1>21, <2>1, WalkIs DEF Step
<1> QED
  BY <1>6, <1>7, <1>8, <1>9, <1>10, <1>12, <1>13, <1>14, <1>15, <1>16, <1>17, <1>18, <1>21
     DEF Next, Step

LEMMA TypeNext == TypeInv /\ [Next]_vars => TypeInv'
BY StoreNext, ProcNext DEF TypeInv

(* Every variable stays in its type, for any set of paths that is closed   *)
(* under parents and moves, and any number of requests.                    *)
THEOREM TypeCorrect == Spec => []TypeOK
<1>1. TypeInv => TypeOK
  BY DEF TypeInv, StoreTypes, ProcTypes, TypeOK
<1> QED
  BY <1>1, TypeInit, TypeNext, PTL DEF Spec

-----------------------------------------------------------------------------
(* Locks: two operations hold the same one only if both read.              *)

LockInv ==
  \A p \in Procs : \A q \in Procs \ {p} : \A x \in Paths :
    Holds(p, x) /\ Holds(q, x) => Shared(op[p]) /\ Shared(op[q])

LEMMA LockNext == TypeInv /\ LockInv /\ [Next]_vars => LockInv'
<1> SUFFICES ASSUME TypeInv, LockInv, [Next]_vars PROVE LockInv'
  OBVIOUS
<1>0. /\ op \in [Procs -> Ops] /\ held \in [Procs -> 0..2]
      /\ \A p \in Procs : pc[p] \in {"idle", "rows"} => held[p] = 0
  BY DEF TypeInv, ProcTypes, ProcInv
<1>1. CASE op' = op /\ held' = held
  BY <1>1 DEF LockInv, Holds, Shared
(* Who holds nothing afterwards is no one's conflict.                      *)
<1>2. ASSUME NEW p \in Procs, held'[p] = 0,
             \A q \in Procs \ {p} : op'[q] = op[q] /\ held'[q] = held[q]
      PROVE  LockInv'
  <2>1. \A x \in Paths : ~Holds(p, x)'
    BY <1>2 DEF Holds
  <2>2. \A q \in Procs \ {p}, x \in Paths :
          Holds(q, x)' = Holds(q, x) /\ Shared(op[q])' = Shared(op[q])
    BY <1>2 DEF Holds, Shared, Locks
  <2> QED
    BY <2>1, <2>2 DEF LockInv
<1>3. ASSUME NEW p \in Procs, Begin(p) PROVE LockInv'
  <2>1. held'[p] = 0 /\ \A q \in Procs \ {p} : op'[q] = op[q] /\ held'[q] = held[q]
    BY <1>0, <1>3 DEF Begin
  <2> QED
    BY <1>2, <2>1
<1>4. ASSUME NEW p \in Procs, Unlock(p) PROVE LockInv'
  <2>1. held'[p] = 0 /\ \A q \in Procs \ {p} : op'[q] = op[q] /\ held'[q] = held[q]
    BY <1>0, <1>4 DEF Unlock, Finish
  <2> QED
    BY <1>2, <2>1
<1>5. ASSUME NEW p \in Procs, UpdateRows(p) PROVE LockInv'
  <2>1. held'[p] = 0 /\ \A q \in Procs \ {p} : op'[q] = op[q] /\ held'[q] = held[q]
    BY <1>0, <1>5 DEF UpdateRows, Finish
  <2> QED
    BY <1>2, <2>1
<1>6. ASSUME NEW p \in Procs, Lock(p) PROVE LockInv'
  <2> DEFINE new == Locks(op[p])[held[p] + 1]
  <2>1. op' = op /\ held' = [held EXCEPT ![p] = held[p] + 1] /\ LockFree(p, new)
    BY <1>6 DEF Lock
  <2>2. \A x \in Paths : Holds(p, x)' => Holds(p, x) \/ x = new
    BY <1>0, <2>1 DEF Holds, Locks
  <2>3. \A q \in Procs \ {p}, x \in Paths : Holds(q, x)' = Holds(q, x)
    BY <1>0, <2>1 DEF Holds, Locks
  <2>4. \A q \in Procs \ {p} : Holds(q, new) => Shared(op[q]) /\ Shared(op[p])
    BY <2>1 DEF LockFree
  <2>5. \A q \in Procs : Shared(op[q])' = Shared(op[q])
    BY <2>1 DEF Shared
  <2> HIDE DEF new
  <2>6. ASSUME NEW q \in Procs \ {p}, NEW x \in Paths, Holds(p, x)', Holds(q, x)'
        PROVE  Shared(op[p]) /\ Shared(op[q])
    BY <2>2, <2>3, <2>4, <2>6 DEF LockInv
  <2>7. ASSUME NEW r \in Procs \ {p}, NEW q \in Procs \ {r, p}, NEW x \in Paths,
               Holds(r, x)', Holds(q, x)'
        PROVE  Shared(op[r]) /\ Shared(op[q])
    BY <2>3, <2>7 DEF LockInv
  <2> QED
    BY <2>5, <2>6, <2>7 DEF LockInv
<1>7. ASSUME NEW p \in Procs,
             \/ Check(p) \/ Read(p) \/ StartWrite(p) \/ EndWrite(p)
             \/ MakeDir(p) \/ Delete(p) \/ Rename(p)
      PROVE  LockInv'
  BY <1>1, <1>7 DEF Check, Read, StartWrite, EndWrite, MakeDir, Delete, Rename
<1>8. ASSUME NEW p \in Procs, WalkStep(p) PROVE LockInv'
  BY <1>2, <1>8, WalkIs
<1> QED
  BY <1>1, <1>3, <1>4, <1>5, <1>6, <1>7, <1>8 DEF Next, Step, vars

-----------------------------------------------------------------------------
(* Versions: a write has a number of its own, and what is not whole is     *)
(* being written.                                                          *)

WritersInv ==
  /\ \A p \in Procs : pc[p] = "writing" => got[p].v \in 1..clock
  /\ \A p, q \in Procs : pc[p] = "writing" /\ pc[q] = "writing" /\ got[p].v = got[q].v
                          => p = q

FilesInv ==
  \A x \in Paths :
    /\ fs[x].v <= clock
    /\ fs[x].kind # "file" => fs[x].v = 0
    /\ ~fs[x].whole => \E q \in Procs : pc[q] = "writing" /\ got[q].v = fs[x].v

VersionInv == WritersInv /\ FilesInv

LEMMA VersionNext == TypeInv /\ VersionInv /\ [Next]_vars => VersionInv'
<1> SUFFICES ASSUME TypeInv, VersionInv, [Next]_vars PROVE VersionInv'
  OBVIOUS
<1>0. /\ fs \in [Paths -> Contents] /\ clock \in Nat /\ got \in [Procs -> Contents]
      /\ \A p \in Procs : pc[p] # "idle" => op[p].path \in Paths /\ op[p].to \in Paths
                                            /\ Len(op[p].path) = Len(op[p].to)
      /\ DOMAIN pc = Procs
  BY DEF TypeInv, StoreTypes, ProcTypes, ProcInv
(* Nothing is written, and what is there was there before.                 *)
<1>1. ASSUME clock' = clock,
             \A p \in Procs : pc'[p] = "writing" <=> pc[p] = "writing",
             \A p \in Procs : pc[p] = "writing" => got'[p] = got[p],
             \A x \in Paths : fs'[x] \in {Absent, Dir} \cup {fs[y] : y \in Paths}
      PROVE  VersionInv'
  <2>1. WritersInv'
    BY <1>1 DEF VersionInv, WritersInv
  <2>2. ASSUME NEW x \in Paths
        PROVE  /\ fs'[x].v <= clock
               /\ fs'[x].kind # "file" => fs'[x].v = 0
               /\ ~fs'[x].whole => \E q \in Procs : pc'[q] = "writing" /\ got'[q].v = fs'[x].v
    <3>1. CASE fs'[x] \in {Absent, Dir}
      BY <1>0, <3>1 DEF Absent, Dir
    <3>2. ASSUME NEW y \in Paths, fs'[x] = fs[y]
          PROVE  /\ fs'[x].v <= clock
                 /\ fs'[x].kind # "file" => fs'[x].v = 0
                 /\ ~fs'[x].whole => \E q \in Procs : pc'[q] = "writing" /\ got'[q].v = fs'[x].v
      BY <1>1, <3>2 DEF VersionInv, FilesInv
    <3> QED
      BY <1>1, <3>1, <3>2
  <2>3. FilesInv'
    BY <1>1, <2>2 DEF FilesInv
  <2> QED
    BY <2>1, <2>3 DEF VersionInv
<1>2. ASSUME NEW p \in Procs, Begin(p) PROVE VersionInv'
  <2>1. clock' = clock /\ fs' = fs /\ got' = got /\ pc[p] = "idle"
        /\ \E to \in {"check", "act", "lock", "walk"} : Goto(p, to)
    BY <1>2 DEF Begin, Entered, shared
  <2> QED
    BY <1>0, <1>1, <2>1 DEF Goto
<1>3. ASSUME NEW p \in Procs, Lock(p) PROVE VersionInv'
  <2>1. clock' = clock /\ fs' = fs /\ got' = got /\ pc[p] = "lock"
        /\ (Goto(p, "act") \/ pc' = pc)
    BY <1>3 DEF Lock, shared
  <2> QED
    BY <1>0, <1>1, <2>1 DEF Goto
<1>4. ASSUME NEW p \in Procs, Unlock(p) \/ UpdateRows(p) PROVE VersionInv'
  <2>1. /\ clock' = clock /\ fs' = fs /\ pc[p] \in {"unlock", "rows"}
        /\ got' = got \/ got' = [got EXCEPT ![p] = Absent]
        /\ \E to \in {"idle", "rows"} : Goto(p, to)
    BY <1>4 DEF Unlock, UpdateRows, Finish, shared
  <2> QED
    BY <1>0, <1>1, <2>1 DEF Goto
<1>5. ASSUME NEW p \in Procs, Read(p) PROVE VersionInv'
  <2>1. /\ clock' = clock /\ fs' = fs /\ pc[p] = "act" /\ Goto(p, "unlock")
        /\ got' = got \/ got' = [got EXCEPT ![p] = fs[op[p].path]]
    BY <1>5 DEF Read, Fails
  <2> QED
    BY <1>0, <1>1, <2>1 DEF Goto
<1>6. ASSUME NEW p \in Procs, NEW xs, clock' = clock, got' = got, pc[p] \in {"act", "check"},
             \E to \in {"lock", "unlock"} : Goto(p, to),
             fs' = Made(fs, xs) \/ fs' = fs
      PROVE  VersionInv'
  BY <1>0, <1>1, <1>6 DEF Goto, Made
<1>7. ASSUME NEW p \in Procs, Check(p) \/ MakeDir(p) PROVE VersionInv'
  <2>1. \/ /\ pc[p] = "check" /\ clock' = clock /\ got' = got
           /\ Goto(p, "lock") \/ Goto(p, "unlock")
           /\ fs' = Made(fs, Above(op[p].to)) \/ fs' = fs
        \/ /\ pc[p] = "act" /\ clock' = clock /\ got' = got /\ Goto(p, "unlock")
           /\ fs' = Made(fs, Above(op[p].path) \cup {op[p].path}) \/ fs' = fs
    BY <1>7 DEF Check, MakeDir, Fails
  <2> QED
    BY <1>6, <2>1
<1>8. ASSUME NEW p \in Procs, Delete(p) PROVE VersionInv'
  <2>1. /\ clock' = clock /\ got' = got /\ pc[p] = "act" /\ Goto(p, "unlock")
        /\ \A x \in Paths : fs'[x] \in {Absent, fs[x]}
    BY <1>8 DEF Delete
  <2> QED
    BY <1>0, <1>1, <2>1 DEF Goto
<1>9. ASSUME NEW p \in Procs, Rename(p) PROVE VersionInv'
  <2>1. /\ clock' = clock /\ got' = got /\ pc[p] = "act" /\ Goto(p, "unlock")
        /\ fs' = fs \/ fs' = Relocated(op[p].path, op[p].to)
    BY <1>9 DEF Rename, Fails
  <2>2. \A z \in Under(op[p].to) : Below(op[p].to, op[p].path, z) \in Paths
    BY <1>0, <2>1, BelowIs DEF Under
  <2>3. \A x \in Paths : fs'[x] \in {Absent} \cup {fs[y] : y \in Paths}
    BY <2>1, <2>2 DEF Relocated
  <2> QED
    BY <1>0, <1>1, <2>1, <2>3 DEF Goto
<1>10. ASSUME NEW p \in Procs, StartWrite(p) PROVE VersionInv'
  <2> DEFINE x == op[p].path
             n == clock + 1
             f == File(n, FALSE)
  <2>1. CASE Fails(p) /\ UNCHANGED <<fs, clock, got>>
    <3>1. pc[p] = "act" /\ Goto(p, "unlock")
      BY <1>10, <2>1 DEF StartWrite, Fails
    <3> QED
      BY <1>0, <1>1, <2>1, <3>1 DEF Goto
  <2>2. CASE /\ clock' = n /\ fs' = [Made(fs, Above(x)) EXCEPT ![x] = f]
             /\ got' = [got EXCEPT ![p] = f] /\ Goto(p, "writing")
    <3>1. pc[p] = "act" /\ x \in Paths /\ clock \in Nat /\ n = clock + 1 /\ clock' = n
      BY <1>0, <1>10, <2>2 DEF StartWrite
    <3>2. pc'[p] = "writing" /\ \A q \in Procs \ {p} : pc'[q] = pc[q]
      BY <1>0, <2>2 DEF Goto
    <3>3. got'[p] = f /\ \A q \in Procs \ {p} : got'[q] = got[q]
      BY <1>0, <2>2
    <3>4. f.v = n /\ f.kind = "file" /\ n \in 1..n
      BY <3>1 DEF File
    <3>5. \A y \in Paths : fs'[y] \in IF y = x THEN {f} ELSE {Dir, fs[y]}
      BY <1>0, <2>2 DEF Made
    <3> HIDE DEF x, n, f
    <3>6. \A q \in Procs : pc[q] = "writing" => q # p /\ got[q].v \in 1..clock
      BY <3>1 DEF VersionInv, WritersInv
    <3>7. WritersInv'
      <4>1. ASSUME NEW q \in Procs, pc'[q] = "writing"
            PROVE  got'[q].v \in 1..n /\ (q # p => got'[q].v # n)
        <5>1. CASE q = p
          BY <3>1, <3>3, <3>4, <5>1
        <5>2. CASE q # p
          <6>1. got'[q].v \in 1..clock
            BY <3>2, <3>3, <3>6, <4>1, <5>2
          <6> QED
            BY <3>1, <5>2, <6>1
        <5> QED
          BY <5>1, <5>2
      <4>2. ASSUME NEW q \in Procs, NEW r \in Procs, pc'[q] = "writing", pc'[r] = "writing",
                   got'[q].v = got'[r].v, q # r
            PROVE  FALSE
        <5>1. CASE q # p /\ r # p
          BY <3>2, <3>3, <4>2, <5>1 DEF VersionInv, WritersInv
        <5> QED
          BY <3>3, <3>4, <4>1, <4>2, <5>1
      <4> QED
        BY <3>1, <4>1, <4>2 DEF WritersInv
    <3>8. ASSUME NEW y \in Paths
          PROVE  /\ fs'[y].v <= n
                 /\ fs'[y].kind # "file" => fs'[y].v = 0
                 /\ ~fs'[y].whole => \E q \in Procs : pc'[q] = "writing" /\ got'[q].v = fs'[y].v
      <4>1. CASE fs'[y] = f
        <5>1. fs'[y].v = n /\ fs'[y].kind = "file" /\ n <= n
          BY <3>1, <3>4, <4>1
        <5>2. pc'[p] = "writing" /\ got'[p].v = fs'[y].v
          BY <3>2, <3>3, <3>4, <5>1
        <5> QED
          BY <5>1, <5>2
      <4>2. CASE fs'[y] = Dir
        BY <3>1, <4>2 DEF Dir
      <4>3. CASE fs'[y] = fs[y]
        <5>1. /\ fs[y].v <= clock
              /\ fs[y].kind # "file" => fs[y].v = 0
              /\ ~fs[y].whole => \E q \in Procs : pc[q] = "writing" /\ got[q].v = fs[y].v
          BY DEF VersionInv, FilesInv
        <5>2. fs[y].v \in Nat
          BY <1>0 DEF Contents
        <5>3. fs[y].v <= n
          BY <3>1, <5>1, <5>2
        <5> QED
          BY <3>2, <3>3, <3>6, <4>3, <5>1, <5>3
      <4> QED
        BY <3>5, <4>1, <4>2, <4>3
    <3>9. FilesInv'
      BY <3>1, <3>8 DEF FilesInv
    <3> QED
      BY <3>7, <3>9 DEF VersionInv
  <2> QED
    BY <1>10, <2>1, <2>2 DEF StartWrite
<1>11. ASSUME NEW p \in Procs, EndWrite(p) PROVE VersionInv'
  <2> DEFINE v == got[p].v
  <2>1. /\ pc[p] = "writing" /\ clock' = clock /\ got' = got
        /\ pc'[p] = "unlock" /\ \A q \in Procs \ {p} : pc'[q] = pc[q]
        /\ \A y \in Paths : fs'[y] = IF fs[y].v = v THEN File(v, TRUE) ELSE fs[y]
    BY <1>0, <1>11 DEF EndWrite, Goto
  <2>2. v \in 1..clock
    BY <2>1 DEF VersionInv, WritersInv
  <2> HIDE DEF v
  <2>3. WritersInv'
    BY <2>1 DEF VersionInv, WritersInv
  <2>4. ASSUME NEW y \in Paths
        PROVE  /\ fs'[y].v <= clock
               /\ fs'[y].kind # "file" => fs'[y].v = 0
               /\ ~fs'[y].whole => \E q \in Procs : pc'[q] = "writing" /\ got'[q].v = fs'[y].v
    <3>1. CASE fs[y].v = v
      BY <1>0, <2>1, <2>2, <3>1 DEF File
    <3>2. CASE fs[y].v # v
      <4>1. fs'[y] = fs[y]
        BY <2>1, <3>2
      <4>2. /\ fs[y].v <= clock
            /\ fs[y].kind # "file" => fs[y].v = 0
            /\ ~fs[y].whole => \E q \in Procs : pc[q] = "writing" /\ got[q].v = fs[y].v
        BY DEF VersionInv, FilesInv
      <4> QED
        BY <2>1, <3>2, <4>1, <4>2 DEF v
    <3> QED
      BY <3>1, <3>2
  <2>5. FilesInv'
    BY <2>1, <2>4 DEF FilesInv
  <2> QED
    BY <2>3, <2>5 DEF VersionInv
<1>12. CASE UNCHANGED vars
  BY <1>1, <1>12 DEF vars
<1>13. ASSUME NEW p \in Procs, WalkStep(p) PROVE VersionInv'
  <2>1. \A q \in Procs : (pc'[q] = "writing" <=> pc[q] = "writing") /\ (q # p => got'[q] = got[q])
    BY <1>0, <1>13, WalkIs DEF Goto
  <2>2. fs' = fs /\ clock' = clock /\ pc[p] # "writing"
    BY <1>13, WalkIs
  <2> QED
    BY <1>1, <2>1, <2>2
<1> QED
  BY <1>2, <1>3, <1>4, <1>5, <1>7, <1>8, <1>9, <1>10, <1>11, <1>12, <1>13 DEF Next, Step

(* What the table of times says is no newer than what the agent has seen,  *)
(* and older than what it is writing.                                      *)
SeenInv ==
  \A x \in Paths : /\ tracked[x] <= clock
                   /\ x \notin strayed => tracked[x] <= seen[x]
                   /\ pc[Agent] = "writing" => tracked[x] < got[Agent].v

LEMMA SeenNext == TypeInv /\ VersionInv /\ SeenInv /\ [Next]_vars => SeenInv'
<1> SUFFICES ASSUME TypeInv, VersionInv, SeenInv, [Next]_vars PROVE SeenInv'
  OBVIOUS
<1>0. /\ fs \in [Paths -> Contents] /\ clock \in Nat /\ got \in [Procs -> Contents]
      /\ tracked \in [Paths -> Nat] /\ seen \in [Paths -> Nat] /\ strayed \subseteq Paths
      /\ \A p \in Procs : pc[p] # "idle" => op[p].path \in Paths
      /\ DOMAIN pc = Procs /\ Agent \in Procs
      /\ \A p \in Procs : got[p].v \in Nat
      /\ \A x \in Paths : fs[x].v \in Nat
  BY DEF TypeInv, StoreTypes, ProcTypes, ProcInv, Procs, Contents
<1>20. fs' \in [Paths -> Contents]
  BY StoreNext DEF StoreTypes
(* The table stays, and the agent does not start to write.                 *)
<1>1. ASSUME clock' = clock, tracked' = tracked, seen' = seen, strayed' = strayed,
             pc'[Agent] = "writing" => pc[Agent] = "writing" /\ got'[Agent] = got[Agent]
      PROVE  SeenInv'
  BY <1>1 DEF SeenInv
<1>2. ASSUME NEW p \in Procs,
             \/ Begin(p) \/ Check(p) \/ Lock(p) \/ Unlock(p) \/ UpdateRows(p)
             \/ MakeDir(p) \/ Delete(p) \/ Rename(p)
      PROVE  SeenInv'
  <2>1. /\ clock' = clock /\ tracked' = tracked /\ seen' = seen /\ strayed' = strayed
        /\ \A q \in Procs \ {p} : got'[q] = got[q] /\ pc'[q] = pc[q]
        /\ pc'[p] = "writing" => (pc[p] = "writing" /\ got'[p] = got[p])
    <3>1. /\ clock' = clock /\ tracked' = tracked /\ seen' = seen /\ strayed' = strayed
          /\ got' = got \/ got' = [got EXCEPT ![p] = Absent]
      BY <1>2 DEF Begin, Check, Lock, Unlock, UpdateRows, MakeDir, Delete, Rename, Fails, Finish,
                  shared, ghosts
    <3>2. (pc' = pc /\ got' = got)
          \/ \E to \in {"check", "act", "lock", "walk", "unlock", "idle", "rows"} : Goto(p, to)
      BY <1>2 DEF Begin, Check, Lock, Unlock, UpdateRows, MakeDir, Delete, Rename, Fails, Finish,
                  Entered
    <3> QED
      BY <1>0, <3>1, <3>2 DEF Goto
  <2> QED
    BY <1>0, <1>1, <2>1
<1>3. ASSUME NEW p \in Procs, p # Agent, Read(p) \/ StartWrite(p) \/ EndWrite(p) PROVE SeenInv'
  <2>1. /\ clock' \in {clock, clock + 1}
        /\ tracked' = tracked /\ seen' = seen /\ strayed' = strayed
        /\ got'[Agent] = got[Agent] /\ pc'[Agent] = pc[Agent]
    BY <1>0, <1>3 DEF Read, StartWrite, EndWrite, Goto, Fails
  <2> QED
    BY <1>0, <2>1 DEF SeenInv
<1>4. ASSUME Read(Agent) PROVE SeenInv'
  <2> DEFINE x == op[Agent].path
  <2>1. pc'[Agent] = "unlock" /\ clock' = clock /\ fs' = fs /\ x \in Paths
    BY <1>0, <1>4 DEF Read, Goto, Fails
  <2>2. CASE tracked' = tracked /\ seen' = seen /\ strayed' = strayed
    BY <1>1, <2>1, <2>2
  <2>3. CASE IsFile(x) /\ Track(x) /\ seen' = [seen EXCEPT ![x] = fs[x].v]
             /\ strayed' = strayed \ {x}
    <3>1. /\ \A y \in Paths : tracked'[y] \in {0, tracked[y]}
                                 \/ (y = x /\ tracked'[y] = fs[x].v)
          /\ tracked'[x] \in {0, fs[x].v} /\ tracked' \in [Paths -> Nat]
      BY <1>0, <1>20, <2>1, <2>3, TrackType DEF IsFile
    <3>2. fs[x].v <= clock
      BY <2>1 DEF VersionInv, FilesInv
    <3>3. seen'[x] = fs[x].v /\ \A y \in Paths \ {x} : seen'[y] = seen[y]
      BY <1>0, <2>1, <2>3
    <3> HIDE DEF x
    <3>4. ASSUME NEW y \in Paths
          PROVE  tracked'[y] <= clock /\ (y \notin strayed' => tracked'[y] <= seen'[y])
      <4>1. tracked[y] <= clock /\ (y \notin strayed => tracked[y] <= seen[y])
        BY DEF SeenInv
      <4>2. CASE y = x
        BY <1>0, <2>1, <3>1, <3>2, <3>3, <4>2
      <4>3. CASE y # x
        BY <1>0, <2>3, <3>1, <3>3, <4>1, <4>3
      <4> QED
        BY <4>2, <4>3
    <3> QED
      BY <2>1, <3>4 DEF SeenInv
  <2> QED
    BY <1>4, <2>2, <2>3 DEF Read
<1>5. ASSUME StartWrite(Agent) PROVE SeenInv'
  <2>1. tracked' = tracked /\ seen' = seen /\ strayed' = strayed
    BY <1>5 DEF StartWrite
  <2>2. CASE clock' = clock /\ Fails(Agent)
    BY <1>0, <1>1, <2>1, <2>2 DEF Fails, Goto
  <2>3. CASE clock' = clock + 1 /\ got' = [got EXCEPT ![Agent] = File(clock + 1, FALSE)]
    <3>1. got'[Agent].v = clock + 1
      BY <1>0, <2>3 DEF File
    <3>2. ASSUME NEW x \in Paths
          PROVE  /\ tracked[x] <= clock + 1 /\ tracked[x] < clock + 1
                 /\ x \notin strayed => tracked[x] <= seen[x]
      BY <1>0 DEF SeenInv
    <3> QED
      BY <2>1, <2>3, <3>1, <3>2 DEF SeenInv
  <2> QED
    BY <1>5, <2>2, <2>3 DEF StartWrite
<1>6. ASSUME EndWrite(Agent) PROVE SeenInv'
  <2> DEFINE x == op[Agent].path
             v == got[Agent].v
  <2>1. /\ pc[Agent] = "writing" /\ pc'[Agent] = "unlock" /\ clock' = clock /\ x \in Paths
        /\ \A y \in Paths : fs'[y] = IF fs[y].v = v THEN File(v, TRUE) ELSE fs[y]
        /\ Track(x) /\ seen' = [seen EXCEPT ![x] = v]
        /\ strayed' = IF IsFile(x) /\ fs[x].v # v THEN strayed \cup {x} ELSE strayed \ {x}
    BY <1>0, <1>6 DEF EndWrite, Goto
  <2>2. v \in 1..clock
    BY <1>0, <2>1 DEF VersionInv, WritersInv
  <2>3. /\ \A y \in Paths : tracked'[y] \in {0, tracked[y]}
                               \/ (y = x /\ fs'[x].kind = "file" /\ tracked'[y] = fs'[x].v)
        /\ fs'[x].kind # "file" => tracked' = tracked
        /\ fs'[x].kind = "file" => tracked'[x] \in {0, fs'[x].v}
    BY <1>0, <1>20, <2>1, TrackType
  <2>4. fs'[x].v <= clock
    BY <1>0, <2>1, VersionNext DEF VersionInv, FilesInv
  <2>5. fs'[x].kind = "file" /\ x \notin strayed' => fs'[x].v = v
    BY <2>1 DEF IsFile, File
  <2>6. seen'[x] = v /\ \A y \in Paths \ {x} : seen'[y] = seen[y]
    BY <1>0, <2>1
  <2>7. /\ \A y \in Paths : tracked[y] <= clock /\ (y \notin strayed => tracked[y] <= seen[y])
        /\ tracked[x] < v
    BY <2>1 DEF SeenInv
  <2> HIDE DEF x, v
  <2>8. ASSUME NEW y \in Paths
        PROVE  tracked'[y] <= clock /\ (y \notin strayed' => tracked'[y] <= seen'[y])
    <3>1. CASE y # x
      BY <1>0, <2>1, <2>3, <2>6, <2>7, <3>1
    <3>2. CASE y = x /\ fs'[x].kind = "file"
      BY <1>0, <2>2, <2>3, <2>4, <2>5, <2>6, <3>2
    <3>3. CASE y = x /\ fs'[x].kind # "file"
      BY <1>0, <2>2, <2>3, <2>6, <2>7, <3>3
    <3> QED
      BY <3>1, <3>2, <3>3
  <2> QED
    BY <2>1, <2>8 DEF SeenInv
<1>7. CASE UNCHANGED vars
  BY <1>1, <1>7 DEF vars
<1>8. ASSUME NEW p \in Procs, WalkStep(p) PROVE SeenInv'
  <2>1. pc'[Agent] = "writing" => pc[Agent] = "writing" /\ got'[Agent] = got[Agent]
    BY <1>0, <1>8, WalkIs DEF Goto
  <2> QED
    BY <1>1, <1>8, <2>1, WalkIs
<1> QED
  BY <1>2, <1>3, <1>4, <1>5, <1>6, <1>7, <1>8 DEF Next, Step

-----------------------------------------------------------------------------
(* What a read and a patch find.                                           *)

StoreInv == TypeInv /\ LockInv /\ VersionInv /\ SeenInv

LEMMA StoreInit == Init => StoreInv
<1> SUFFICES ASSUME Init PROVE StoreInv
  OBVIOUS
<1>1. /\ pc = [p \in Procs |-> "idle"] /\ held = [p \in Procs |-> 0]
      /\ clock = 1 /\ tracked = [x \in Paths |-> 0] /\ seen = [x \in Paths |-> 0]
      /\ \A x \in Paths : fs[x] \in {Absent, Dir, File(1, TRUE)}
  BY DEF Init
<1>2. LockInv
  BY <1>1 DEF LockInv, Holds
<1>3. VersionInv
  BY <1>1 DEF VersionInv, WritersInv, FilesInv, Absent, Dir, File
<1>4. SeenInv
  BY <1>1 DEF SeenInv, Procs
<1> QED
  BY <1>2, <1>3, <1>4, TypeInit DEF StoreInv

LEMMA StoreInvNext == StoreInv /\ [Next]_vars => StoreInv'
BY TypeNext, LockNext, VersionNext, SeenNext DEF StoreInv

(* What a write holds while it writes, and a read while it reads.          *)
LEMMA HoldsIts ==
  ASSUME TypeInv, NEW p \in Procs, pc[p] \in {"act", "writing"},
         op[p].kind \notin Unlocked \cup {"move"}
  PROVE  Holds(p, op[p].path)
<1>1. held[p] = Len(Locks(op[p]))
  BY DEF TypeInv, ProcTypes, ProcInv
<1>2. held[p] = 1 /\ Locks(op[p])[1] = op[p].path
  BY <1>1, LocksIs
<1> QED
  BY <1>2 DEF Holds

(* Whoever reads and writes at once, an agent or a request never gets half *)
(* of a file, unless that file is being written under another path; and a  *)
(* walk only while the file is being written.                              *)
THEOREM NoTornReads == Spec => NoTornRead
<1> DEFINE A == \A p \in Procs : op[p].kind \in {"read", "toolRead"} \cup WalkKinds
                               /\ got'[p] # got[p] /\ ~got'[p].whole =>
                  \E q \in Procs : /\ pc[q] = "writing" /\ got[q].v = got'[p].v
                                   /\ Shared(op[p]) => op[q].path # op[p].path
<1>1. StoreInv /\ [Next]_vars => A
  <2> SUFFICES ASSUME StoreInv, [Next]_vars, NEW p \in Procs,
                      op[p].kind \in {"read", "toolRead"} \cup WalkKinds,
                      got'[p] # got[p], ~got'[p].whole
               PROVE  \E q \in Procs : /\ pc[q] = "writing" /\ got[q].v = got'[p].v
                                       /\ Shared(op[p]) => op[q].path # op[p].path
    OBVIOUS
  <2>0. /\ got \in [Procs -> Contents] /\ TypeInv
        /\ \A q \in Procs : pc[q] = "writing" => op[q].kind \in WriteKinds \cup {"patch"}
        /\ \A q \in Procs : pc[q] # "idle" => op[q].path \in Paths
    BY DEF StoreInv, TypeInv, StoreTypes, ProcTypes, ProcInv
  <2>1. ASSUME NEW q \in Procs, Begin(q) \/ Step(q), ~Read(q), ~WalkStep(q) PROVE FALSE
    <3>1. \/ got' = got \/ got' = [got EXCEPT ![q] = Absent]
          \/ StartWrite(q) /\ \E f : got' = [got EXCEPT ![q] = f]
      BY <2>1 DEF Begin, Step, Check, Lock, Unlock, UpdateRows, StartWrite, EndWrite, MakeDir,
                  Delete, Rename, Finish, shared
    <3>2. StartWrite(q) => op[q].kind \notin {"read", "toolRead"} \cup WalkKinds
      BY DEF StartWrite, WriteKinds, WalkKinds
    <3> QED
      BY <2>0, <3>1, <3>2 DEF Absent
  <2>2. PICK r \in Procs : Read(r) \/ WalkStep(r)
    BY <2>1 DEF Next, vars
  <2>3. r = p
    <3>1. Read(r) => r = p
      BY <2>0 DEF Read
    <3>2. WalkStep(r) => r = p
      BY <2>0, WalkIs
    <3> QED
      BY <2>2, <3>1, <3>2
  <2> DEFINE x == op[p].path
  <2>4. got'[p] = fs[x] /\ x \in Paths /\ pc[p] # "writing" /\ (Shared(op[p]) => Read(p))
    <3>1. CASE Read(p)
      BY <2>0, <3>1 DEF Read
    <3>2. CASE WalkStep(p)
      <4>1. /\ pc[p] \in {"walk", "walked"} /\ op[p].kind \in WalkKinds
            /\ got'[p] \in {got[p], Absent, fs[x]}
        BY <2>0, <3>2, WalkIs
      <4> QED
        BY <2>0, <4>1 DEF Absent, Shared, WalkKinds
    <3> QED
      BY <2>2, <2>3, <3>1, <3>2
  <2>5. PICK q \in Procs : pc[q] = "writing" /\ got[q].v = fs[x].v
    BY <2>4 DEF StoreInv, VersionInv, FilesInv
  <2>6. q # p /\ op[q].kind \in WriteKinds \cup {"patch"}
    BY <2>0, <2>4, <2>5
  <2>7. ASSUME Shared(op[p]) PROVE op[q].path # x
    <3>1. Holds(p, x)
      <4>1. pc[p] = "act"
        BY <2>4, <2>7 DEF Read
      <4> QED
        BY <2>0, <2>7, <4>1, HoldsIts DEF Shared, Unlocked, WalkKinds
    <3>2. Holds(q, op[q].path)
      BY <2>0, <2>5, <2>6, HoldsIts DEF WriteKinds, Unlocked, WalkKinds
    <3> QED
      BY <2>4, <2>6, <3>1, <3>2 DEF StoreInv, LockInv, Shared, WriteKinds
  <2> QED
    BY <2>4, <2>5, <2>7
<1> QED
  BY <1>1, StoreInit, StoreInvNext, PTL DEF Spec, NoTornRead

(* A patch never replaces content that the agent has not seen, but where a *)
(* move had overtaken its last write.                                      *)
THEOREM PatchOverSeenOnly == Spec => PatchOverSeen
<1> DEFINE A == pc[Agent] = "act" /\ pc'[Agent] = "writing" /\ op[Agent].kind = "patch"
                  => LET x == op[Agent].path IN
                       tracked[x] = 0 \/ fs[x].v <= seen[x] \/ x \in strayed
<1>1. StoreInv /\ [Next]_vars => A
  <2> SUFFICES ASSUME StoreInv, [Next]_vars, pc[Agent] = "act", pc'[Agent] = "writing",
                      op[Agent].kind = "patch",
                      tracked[op[Agent].path] # 0, op[Agent].path \notin strayed
               PROVE  fs[op[Agent].path].v <= seen[op[Agent].path]
    OBVIOUS
  <2>0. Agent \in Procs /\ DOMAIN pc = Procs /\ op[Agent].path \in Paths
        /\ fs \in [Paths -> Contents] /\ tracked \in [Paths -> Nat] /\ seen \in [Paths -> Nat]
    BY DEF Procs, StoreInv, TypeInv, StoreTypes, ProcTypes, ProcInv
  <2>1. StartWrite(Agent)
    <3>1. ASSUME NEW q \in Procs, Begin(q) \/ Step(q), ~StartWrite(q) PROVE FALSE
      <4>1. pc' = pc \/ \E to \in {"check", "act", "lock", "walk", "walked", "unlock", "idle", "rows"} :
                           Goto(q, to)
        BY <3>1 DEF Begin, Step, Check, Lock, Unlock, UpdateRows, Read, EndWrite, MakeDir,
                    Delete, Rename, Fails, Finish, Entered, WalkStep, Look, WalkOn
      <4> QED
        BY <2>0, <4>1 DEF Goto
    <3>2. PICK q \in Procs : StartWrite(q)
      BY <3>1 DEF Next, vars
    <3>3. q = Agent
      <4>1. \E to \in {"writing", "unlock"} : Goto(q, to)
        BY <3>2 DEF StartWrite, Fails
      <4> QED
        BY <2>0, <4>1 DEF Goto
    <3> QED
      BY <3>2, <3>3
  <2>2. NotStale(op[Agent].path) /\ IsFile(op[Agent].path)
    BY <2>0, <2>1 DEF StartWrite, MayWrite, Fails, Goto
  <2>3. fs[op[Agent].path].v <= tracked[op[Agent].path]
    BY <2>2 DEF NotStale, IsFile, Exists
  <2>4. tracked[op[Agent].path] <= seen[op[Agent].path]
    BY <2>0 DEF StoreInv, SeenInv
  <2>5. fs[op[Agent].path].v \in Nat
    BY <2>0 DEF Contents
  <2> QED
    BY <2>0, <2>3, <2>4, <2>5
<1> QED
  BY <1>1, StoreInit, StoreInvNext, PTL DEF Spec, PatchOverSeen

-----------------------------------------------------------------------------
(* The tree: what exists is in a directory.                                *)

TreeInv == \A x, y \in Paths : IsStrictPrefix(x, y) /\ Exists(y) => IsDir(x)

LEMMA StrictPrefixes ==
  ASSUME NEW x \in Paths, NEW y \in Paths, NEW z \in Paths, IsStrictPrefix(x, y)
  PROVE  /\ IsStrictPrefix(y, z) => IsStrictPrefix(x, z)
         /\ ~IsStrictPrefix(y, x)
         /\ Head(x) = Head(y)
<1>0. /\ x \in Seq(Nat) /\ y \in Seq(Nat) /\ z \in Seq(Nat)
      /\ Len(x) \in Nat \ {0} /\ Len(y) \in Nat \ {0} /\ Len(z) \in Nat \ {0}
  BY PathIs
<1>1. x # y /\ Len(x) <= Len(y) /\ \A k \in 1..Len(x) : x[k] = y[k]
  BY PrefixIs DEF IsStrictPrefix
<1>2. ~IsStrictPrefix(y, x)
  BY <1>0, <1>1, PrefixIs, PathEqual DEF IsStrictPrefix
<1>3. ASSUME IsStrictPrefix(y, z) PROVE IsStrictPrefix(x, z)
  <2>1. Len(y) <= Len(z) /\ \A k \in 1..Len(y) : y[k] = z[k]
    BY <1>3, PrefixIs DEF IsStrictPrefix
  <2>2. Len(x) <= Len(z) /\ \A k \in 1..Len(x) : x[k] = z[k]
    BY <1>0, <1>1, <2>1
  <2>3. IsPrefix(x, z)
    BY <2>2, PrefixIs
  <2>4. x # z
    BY <1>2, <1>3
  <2> QED
    BY <2>3, <2>4 DEF IsStrictPrefix
<1>4. Head(x) = Head(y)
  BY <1>0, <1>1
<1> QED
  BY <1>2, <1>3, <1>4

(* Directories are made where no file is, with all above them.             *)
LEMMA MadeIs ==
  ASSUME fs \in [Paths -> Contents], TreeInv, NEW xs, xs \subseteq Paths,
         \A y \in xs : ~IsFile(y),
         \A x \in Paths, y \in xs : IsStrictPrefix(x, y) => x \in xs
  PROVE  /\ \A x \in Paths : Made(fs, xs)[x] \in {fs[x], Dir}
         /\ \A x \in xs : Made(fs, xs)[x].kind = "dir"
         /\ \A x \in Paths \ xs : Made(fs, xs)[x] = fs[x]
         /\ \A x \in Paths : Exists(x) => Made(fs, xs)[x] = fs[x]
         /\ \A x, y \in Paths : IsStrictPrefix(x, y) /\ Made(fs, xs)[y].kind # "absent"
                               => Made(fs, xs)[x].kind = "dir"
<1> DEFINE t == Made(fs, xs)
<1>1. \A x \in Paths : t[x] = IF x \in xs /\ fs[x].kind = "absent" THEN Dir ELSE fs[x]
  BY DEF Made
<1>2. Dir.kind = "dir" /\ \A x \in Paths : fs[x].kind \in {"absent", "dir", "file"}
  BY DEF Dir, Contents
<1> HIDE DEF t
<1>3. \A x \in xs : t[x].kind = "dir"
  BY <1>1, <1>2 DEF IsFile
<1>4. ASSUME NEW x \in Paths, NEW y \in Paths, IsStrictPrefix(x, y), t[y].kind # "absent"
      PROVE  t[x].kind = "dir"
  <2>1. CASE y \in xs
    BY <1>3, <1>4, <2>1
  <2>2. CASE y \notin xs
    BY <1>1, <1>2, <1>4, <2>2 DEF TreeInv, Exists, IsDir
  <2> QED
    BY <2>1, <2>2
<1> QED
  BY <1>1, <1>3, <1>4 DEF t, Exists

LEMMA AboveClosed ==
  ASSUME NEW z \in Paths
  PROVE  /\ Above(z) \subseteq Paths
         /\ \A x \in Paths, y \in Above(z) : IsStrictPrefix(x, y) => x \in Above(z)
         /\ \A x \in Paths, y \in Above(z) \cup {z} : IsStrictPrefix(x, y) => x \in Above(z) \cup {z}
         /\ z \notin Above(z)
BY StrictPrefixes DEF Above, IsStrictPrefix

(* What a write that starts, and a move, make of the tree.                 *)
LEMMA WriteIs ==
  ASSUME fs \in [Paths -> Contents], TreeInv, NEW x \in Paths, NEW f, f.kind = "file",
         ~IsDir(x), \A y \in Above(x) : ~IsFile(y),
         fs' = [Made(fs, Above(x)) EXCEPT ![x] = f]
  PROVE  /\ TreeInv'
         /\ \A y \in Paths : Exists(y) => Exists(y)'
         /\ Exists(x)'
<1> DEFINE t == Made(fs, Above(x))
<1>1. /\ \A y \in Above(x) : t[y].kind = "dir"
      /\ \A y \in Paths : Exists(y) => t[y] = fs[y]
      /\ \A y \in Paths \ Above(x) : t[y] = fs[y]
      /\ \A y, z \in Paths : IsStrictPrefix(y, z) /\ t[z].kind # "absent" => t[y].kind = "dir"
  BY MadeIs, AboveClosed
<1>2. \A y \in Paths : fs'[y] = IF y = x THEN f ELSE t[y]
  BY DEF Made
<1> HIDE DEF t
<1>3. ASSUME NEW y \in Paths, NEW z \in Paths, IsStrictPrefix(y, z), fs'[z].kind # "absent"
      PROVE  fs'[y].kind = "dir"
  <2>1. CASE z = x
    <3>1. y \in Above(x) /\ y # x
      BY <1>3, <2>1, AboveClosed DEF Above
    <3> QED
      BY <1>1, <1>2, <3>1
  <2>2. CASE z # x /\ y # x
    BY <1>1, <1>2, <1>3, <2>2
  <2>3. CASE z # x /\ y = x
    <3>1. x \notin Above(x) /\ t[x].kind = "dir"
      BY <1>1, <1>2, <1>3, <2>3, AboveClosed
    <3> QED
      BY <1>1, <3>1 DEF IsDir
  <2> QED
    BY <2>1, <2>2, <2>3
<1> QED
  BY <1>1, <1>2, <1>3 DEF TreeInv, Exists, IsDir

LEMMA RelocatedIs ==
  ASSUME fs \in [Paths -> Contents], TreeInv,
         NEW x \in Paths, NEW y \in Paths, Len(x) = Len(y),
         \A z \in Above(y) : IsDir(z), fs' = Relocated(x, y)
  PROVE  /\ TreeInv'
         /\ \A z \in Under(y) : Below(y, x, z) \in Paths /\ fs'[z] = fs[Below(y, x, z)]
         /\ fs'[y] = fs[x]
         /\ \A z \in Paths : z \notin Under(x) /\ z \notin Under(y) => fs'[z] = fs[z]
<1>1. \A z \in Under(y) : Below(y, x, z) \in Under(x)
  BY BelowIs
<1>2. Below(y, x, y) = x /\ y \in Under(y) /\ Under(x) \subseteq Paths /\ Under(y) \subseteq Paths
  BY BelowIs, UnderIs
<1>3. /\ \A z \in Under(y) : fs'[z] = fs[Below(y, x, z)]
      /\ \A z \in Paths : z \notin Under(y) => fs'[z] = IF z \in Under(x) THEN Absent ELSE fs[z]
  BY <1>2 DEF Relocated
<1>4. Absent.kind = "absent"
  BY DEF Absent
<1>5. ASSUME NEW w \in Paths, NEW z \in Paths, IsStrictPrefix(w, z), fs'[z].kind # "absent"
      PROVE  fs'[w].kind = "dir"
  <2>1. CASE z \in Under(y) /\ w \in Under(y)
    <3>1. IsStrictPrefix(Below(y, x, w), Below(y, x, z))
      BY <1>5, <2>1, BelowOrder
    <3> QED
      BY <1>1, <1>2, <1>3, <1>5, <2>1, <3>1 DEF TreeInv, Exists, IsDir
  <2>2. CASE z \in Under(y) /\ w \notin Under(y)
    <3>1. w \in Above(y) /\ w \notin Under(x)
      BY <1>5, <2>2, UnderIs
    <3> QED
      BY <1>3, <2>2, <3>1 DEF IsDir
  <2>3. CASE z \notin Under(y)
    <3>1. z \notin Under(x) /\ fs[z].kind # "absent"
      BY <1>3, <1>4, <1>5, <2>3
    <3>2. w \notin Under(x) /\ w \notin Under(y)
      BY <1>5, <2>3, <3>1, UnderIs DEF IsStrictPrefix
    <3> QED
      BY <1>3, <1>5, <3>1, <3>2 DEF TreeInv, Exists, IsDir
  <2> QED
    BY <2>1, <2>2, <2>3
<1> QED
  BY <1>1, <1>2, <1>3, <1>5 DEF TreeInv, Exists, IsDir

LEMMA TreeInit == Init => TreeInv
<1> SUFFICES ASSUME Init, NEW x \in Paths, NEW y \in Paths, IsStrictPrefix(x, y), Exists(y)
             PROVE  IsDir(x)
  BY DEF TreeInv
<1>1. Head(y) = 1
  BY DEF Init, Exists, Absent
<1>2. Head(x) = 1
  BY <1>1, StrictPrefixes
<1> QED
  BY <1>2 DEF Init, IsDir, Dir

LEMMA TreeNext == TypeInv /\ VersionInv /\ TreeInv /\ [Next]_vars => TreeInv'
<1> SUFFICES ASSUME TypeInv, VersionInv, TreeInv, [Next]_vars PROVE TreeInv'
  OBVIOUS
<1>0. /\ fs \in [Paths -> Contents] /\ clock \in Nat /\ got \in [Procs -> Contents]
      /\ \A p \in Procs : pc[p] # "idle" => op[p].path \in Paths /\ op[p].to \in Paths
                                            /\ Len(op[p].path) = Len(op[p].to)
  BY DEF TypeInv, StoreTypes, ProcTypes, ProcInv
<1>1. CASE fs' = fs
  BY <1>1 DEF TreeInv, Exists, IsDir
<1>2. ASSUME NEW xs, xs \subseteq Paths, \A y \in xs : ~IsFile(y), fs' = Made(fs, xs),
             \A x \in Paths, y \in xs : IsStrictPrefix(x, y) => x \in xs
      PROVE  TreeInv'
  BY <1>0, <1>2, MadeIs DEF TreeInv, Exists, IsDir
<1>3. ASSUME NEW p \in Procs, Check(p) PROVE TreeInv'
  <2>1. CASE fs' = Made(fs, Above(op[p].to)) /\ \A y \in Above(op[p].to) : ~IsFile(y)
    <3>1. op[p].to \in Paths
      BY <1>0, <1>3 DEF Check
    <3> QED
      BY <1>2, <2>1, <3>1, AboveClosed
  <2> QED
    BY <1>1, <1>3, <2>1 DEF Check
<1>4. ASSUME NEW p \in Procs, MakeDir(p) PROVE TreeInv'
  <2> DEFINE x == op[p].path
  <2>1. CASE fs' = Made(fs, Above(x) \cup {x}) /\ CanMake(x)
    <3>1. x \in Paths
      BY <1>0, <1>4 DEF MakeDir
    <3>2. \A y \in Above(x) \cup {x} : ~IsFile(y)
      BY <2>1 DEF CanMake
    <3> HIDE DEF x
    <3> QED
      BY <1>2, <2>1, <3>1, <3>2, AboveClosed
  <2> QED
    BY <1>1, <1>4, <2>1 DEF MakeDir
<1>5. ASSUME NEW p \in Procs, StartWrite(p) PROVE TreeInv'
  <2> DEFINE x == op[p].path
             f == File(clock + 1, FALSE)
  <2>1. CASE MayWrite(op[p]) /\ fs' = [Made(fs, Above(x)) EXCEPT ![x] = f]
    <3>1. x \in Paths
      BY <1>0, <1>5 DEF StartWrite
    <3>2. f.kind = "file"
      BY DEF File
    <3>3. ~IsDir(x) /\ \A y \in Above(x) : ~IsFile(y)
      <4>1. CASE op[p].kind = "patch"
        <5>1. IsFile(x)
          BY <2>1, <4>1 DEF MayWrite
        <5>2. \A y \in Above(x) : IsDir(y)
          BY <3>1, <5>1 DEF TreeInv, Above, IsFile, Exists
        <5> QED
          BY <5>1, <5>2 DEF IsFile, IsDir
      <4>2. CASE op[p].kind # "patch"
        BY <2>1, <4>2 DEF MayWrite
      <4> QED
        BY <4>1, <4>2
    <3> HIDE DEF x, f
    <3> QED
      BY <1>0, <2>1, <3>1, <3>2, <3>3, WriteIs
  <2> QED
    BY <1>1, <1>5, <2>1 DEF StartWrite
<1>6. ASSUME NEW p \in Procs, EndWrite(p) PROVE TreeInv'
  <2>1. got[p].v \in 1..clock
    BY <1>6 DEF EndWrite, VersionInv, WritersInv
  <2>2. \A y \in Paths : fs'[y].kind = fs[y].kind
    BY <1>0, <1>6, <2>1 DEF EndWrite, VersionInv, FilesInv, File
  <2> QED
    BY <2>2 DEF TreeInv, Exists, IsDir
<1>7. ASSUME NEW p \in Procs, Delete(p) PROVE TreeInv'
  <2>1. op[p].path \in Paths /\ Absent.kind = "absent"
        /\ \A y \in Paths : fs'[y] = IF y \in Under(op[p].path) THEN Absent ELSE fs[y]
    BY <1>0, <1>7 DEF Delete, Absent
  <2>2. \A x, y \in Paths : IsStrictPrefix(x, y) /\ x \in Under(op[p].path) => y \in Under(op[p].path)
    BY <2>1, UnderIs DEF IsStrictPrefix
  <2> QED
    BY <2>1, <2>2 DEF TreeInv, Exists, IsDir
<1>8. ASSUME NEW p \in Procs, Rename(p) PROVE TreeInv'
  <2>1. CASE fs' = Relocated(op[p].path, op[p].to) /\ \A y \in Above(op[p].to) : IsDir(y)
    <3>1. op[p].path \in Paths /\ op[p].to \in Paths /\ Len(op[p].path) = Len(op[p].to)
      BY <1>0, <1>8 DEF Rename
    <3> QED
      BY <1>0, <2>1, <3>1, RelocatedIs
  <2> QED
    BY <1>1, <1>8, <2>1 DEF Rename
<1>9. ASSUME NEW p \in Procs, Begin(p) \/ Lock(p) \/ Unlock(p) \/ UpdateRows(p) \/ Read(p)
      PROVE  TreeInv'
  BY <1>1, <1>9 DEF Begin, Lock, Unlock, UpdateRows, Read, shared
<1>10. ASSUME NEW p \in Procs, WalkStep(p) PROVE TreeInv'
  BY <1>1, <1>10, WalkIs
<1> QED
  BY <1>1, <1>3, <1>4, <1>5, <1>6, <1>7, <1>8, <1>9, <1>10 DEF Next, Step, vars

-----------------------------------------------------------------------------
(* Rows: while no operation overlaps another, a row has its file, but      *)
(* while a delete or a move that is done has yet to see to it.             *)

AloneInv == ~disturbed => \A p, q \in Procs : pc[p] # "idle" /\ pc[q] # "idle" => p = q

Acted(p) == pc[p] \in {"unlock", "rows"} /\ ok[p]

(* A row without its file, and the operation that will see to it.          *)
LeftBy(p, x) == Acted(p) /\ op[p].kind \in {"delete", "move"} /\ x \in Under(op[p].path)

(* What the rows that an operation will make rely on.                      *)
RowsOf(p) ==
  /\ Acted(p) /\ op[p].kind \in {"create", "mkdir", "upload"} => Exists(op[p].path)
  /\ pc[p] = "writing" => Exists(op[p].path)
  /\ op[p].kind = "move" /\ (Acted(p) \/ pc[p] \in {"lock", "act"}) => op[p].path # op[p].to
  /\ Acted(p) /\ op[p].kind = "move" =>
       \A z \in Under(op[p].to) : rows[Below(op[p].to, op[p].path, z)] > 0 => Exists(z)

RowsInv ==
  ~disturbed => /\ \A x \in Paths : rows[x] > 0 /\ ~Exists(x) => \E p \in Procs : LeftBy(p, x)
                /\ \A p \in Procs : RowsOf(p)

LEMMA AloneNext == TypeInv /\ AloneInv /\ [Next]_vars => AloneInv'
<1> SUFFICES ASSUME TypeInv, AloneInv, [Next]_vars PROVE AloneInv'
  OBVIOUS
<1>0. DOMAIN pc = Procs
  BY DEF TypeInv, ProcTypes
<1>1. ASSUME NEW p \in Procs, Begin(p) PROVE AloneInv'
  <2>1. /\ disturbed' = (disturbed \/ \E q \in Procs \ {p} : pc[q] # "idle")
        /\ \A q \in Procs \ {p} : pc'[q] = pc[q]
    BY <1>0, <1>1 DEF Begin, Goto
  <2> QED
    BY <2>1 DEF AloneInv
<1>2. ASSUME NEW p \in Procs, Step(p) PROVE AloneInv'
  <2>1. pc[p] # "idle" /\ (disturbed => disturbed') /\ \A q \in Procs \ {p} : pc'[q] = pc[q]
    <3>1. pc[p] # "idle" /\ (disturbed => disturbed')
      <4>1. pc[p] # "idle"
        BY <1>2 DEF Step, Check, Lock, Unlock, UpdateRows, Read, StartWrite, EndWrite, MakeDir,
                    Delete, Rename, WalkStep, Look, WalkOn
      <4>2. ASSUME ~disturbed' PROVE ~disturbed
        <5>1. CASE StartWrite(p)
          BY <4>2, <5>1 DEF StartWrite
        <5>2. CASE ~StartWrite(p)
          <6>1. disturbed' = disturbed
            BY <1>2, <5>2 DEF Step, Check, Lock, Unlock, UpdateRows, Read, EndWrite, MakeDir,
                              Delete, Rename, ghosts, WalkStep, Look, WalkOn
          <6> QED
            BY <4>2, <6>1
        <5> QED
          BY <5>1, <5>2
      <4> QED
        BY <4>1, <4>2
    <3>2. pc' = pc \/ \E to \in {"lock", "act", "writing", "unlock", "rows", "idle", "walk", "walked"} :
                         Goto(p, to)
      BY <1>2 DEF Step, Check, Lock, Unlock, UpdateRows, Read, StartWrite, EndWrite, MakeDir,
                  Delete, Rename, Fails, Finish, WalkStep, Look, WalkOn
    <3> QED
      BY <1>0, <3>1, <3>2 DEF Goto
  <2> QED
    BY <2>1 DEF AloneInv
<1>3. CASE UNCHANGED vars
  BY <1>3 DEF vars, AloneInv
<1> QED
  BY <1>1, <1>2, <1>3 DEF Next

LEMMA RowsNext ==
  TypeInv /\ VersionInv /\ TreeInv /\ AloneInv /\ RowsInv /\ [Next]_vars => RowsInv'
<1> SUFFICES ASSUME TypeInv, VersionInv, TreeInv, AloneInv, RowsInv, [Next]_vars, ~disturbed'
             PROVE  RowsInv'
  BY DEF RowsInv
<1>0. /\ fs \in [Paths -> Contents] /\ clock \in Nat /\ got \in [Procs -> Contents]
      /\ rows \in [Paths -> Nat] /\ DOMAIN pc = Procs
      /\ ok \in [Procs -> BOOLEAN] /\ op \in [Procs -> Ops]
      /\ \A p \in Procs : pc[p] # "idle" => op[p].path \in Paths /\ op[p].to \in Paths
                                            /\ Len(op[p].path) = Len(op[p].to)
  BY DEF TypeInv, StoreTypes, ProcTypes, ProcInv
<1>1. ~disturbed /\ \A p \in Procs : Begin(p) => \A q \in Procs \ {p} : pc[q] = "idle"
  <2>1. ASSUME NEW p \in Procs, Begin(p) PROVE ~disturbed /\ \A q \in Procs \ {p} : pc[q] = "idle"
    BY <2>1 DEF Begin
  <2>2. ASSUME NEW p \in Procs, StartWrite(p) PROVE ~disturbed
    BY <2>2 DEF StartWrite
  <2>3. ASSUME NEW p \in Procs, Step(p), ~StartWrite(p) PROVE ~disturbed
    <3>1. disturbed' = disturbed
      BY <2>3 DEF Step, Check, Lock, Unlock, UpdateRows, Read, EndWrite, MakeDir, Delete, Rename,
                  ghosts, WalkStep, Look, WalkOn
    <3> QED
      BY <3>1
  <2>4. ASSUME UNCHANGED vars PROVE ~disturbed
    BY <2>4 DEF vars
  <2> QED
    BY <2>1, <2>2, <2>3, <2>4 DEF Next
(* The one that steps is alone, and nothing else relies on the rows.       *)
<1>2. ASSUME NEW p \in Procs, Begin(p) \/ Step(p), RowsOf(p)',
             \A x \in Paths : rows'[x] > 0 /\ ~Exists(x)' => LeftBy(p, x)'
      PROVE  RowsInv'
  <2>1. \A q \in Procs \ {p} : pc[q] = "idle"
    BY <1>1, <1>2 DEF AloneInv, Step, Check, Lock, Unlock, UpdateRows, Read, StartWrite, EndWrite,
                      MakeDir, Delete, Rename, WalkStep, Look, WalkOn
  <2>2. \A q \in Procs \ {p} : pc'[q] = "idle"
    <3>1. pc' = pc \/ \E to \in {"check", "lock", "act", "writing", "unlock", "rows", "idle",
                                  "walk", "walked"} : Goto(p, to)
      BY <1>2 DEF Begin, Step, Check, Lock, Unlock, UpdateRows, Read, StartWrite, EndWrite, MakeDir,
                  Delete, Rename, Fails, Finish, Entered, WalkStep, Look, WalkOn
    <3> QED
      BY <1>0, <2>1, <3>1 DEF Goto
  <2>3. \A q \in Procs \ {p} : op'[q] = op[q]
    BY <1>0, <1>2 DEF Begin, Step, Check, Lock, Unlock, UpdateRows, Read, StartWrite, EndWrite,
                      MakeDir, Delete, Rename, Finish, WalkStep, Look, WalkOn
  <2>4. \A q \in Procs \ {p} : RowsOf(q)'
    BY <2>2 DEF RowsOf, Acted
  <2> QED
    BY <1>2, <2>4 DEF RowsInv
<1>3. ASSUME NEW p \in Procs, Begin(p) \/ Step(p), ~Acted(p), NEW x \in Paths, rows[x] > 0
      PROVE  Exists(x)
  <2>1. \A q \in Procs \ {p} : pc[q] = "idle"
    BY <1>1, <1>3 DEF AloneInv, Step, Check, Lock, Unlock, UpdateRows, Read, StartWrite, EndWrite,
                      MakeDir, Delete, Rename, WalkStep, Look, WalkOn
  <2>2. \A q \in Procs : ~LeftBy(q, x)
    BY <1>3, <2>1 DEF LeftBy, Acted
  <2> QED
    BY <1>1, <1>3, <2>2 DEF RowsInv
(* Before the operation has acted nothing is left over, and afterwards     *)
(* neither if what existed still exists.                                   *)
<1>4. ASSUME NEW p \in Procs, Begin(p) \/ Step(p), ~Acted(p), rows' = rows, RowsOf(p)',
             \A x \in Paths : Exists(x) => Exists(x)'
      PROVE  RowsInv'
  BY <1>2, <1>3, <1>4
<1>5. ASSUME NEW p \in Procs, Begin(p) PROVE RowsInv'
  <2>1. rows' = rows /\ fs' = fs /\ ok' = ok /\ pc[p] = "idle"
    BY <1>5 DEF Begin, shared
  <2>2. PICK k \in RestKinds \cup ToolKinds \cup WalkKinds, x \in Paths, y \in Paths :
          /\ IF k = "move" THEN Len(x) = Len(y) ELSE x = y
          /\ op' = [op EXCEPT ![p] = [kind |-> k, path |-> x, to |-> y]]
          /\ Goto(p, Entered(k))
    BY <1>5 DEF Begin
  <2>3. op'[p].kind = k /\ pc'[p] = Entered(k)
    BY <1>0, <2>2 DEF Goto
  <2>4. RowsOf(p)'
    BY <2>3 DEF RowsOf, Acted, Entered
  <2> QED
    BY <1>4, <1>5, <2>1, <2>4 DEF Acted, Exists
<1>6. ASSUME NEW p \in Procs, Check(p) PROVE RowsInv'
  <2> DEFINE y == op[p].to
  <2>1. pc[p] = "check" /\ rows' = rows /\ op' = op /\ y \in Paths /\ op[p].path \in Paths
    BY <1>0, <1>6 DEF Check
  <2>2. CASE fs' = fs /\ Fails(p)
    <3>1. RowsOf(p)'
      BY <1>0, <2>2 DEF RowsOf, Acted, Fails, Goto
    <3> QED
      BY <1>4, <1>6, <2>1, <2>2, <3>1 DEF Acted, Exists, Step
  <2>3. CASE /\ fs' = Made(fs, Above(y)) /\ \A z \in Above(y) : ~IsFile(z)
             /\ Goto(p, "lock") /\ ~IsPrefix(op[p].path, y)
    <3>1. op[p].path # y
      BY <2>1, <2>3, PathIs, PrefixIs
    <3>2. RowsOf(p)'
      BY <1>0, <2>1, <2>3, <3>1 DEF RowsOf, Acted, Goto
    <3>3. \A x \in Paths : Exists(x) => fs'[x] = fs[x]
      BY <1>0, <2>1, <2>3, MadeIs, AboveClosed
    <3> QED
      BY <1>4, <1>6, <2>1, <3>2, <3>3 DEF Acted, Exists, Step
  <2> QED
    BY <1>6, <2>2, <2>3 DEF Check
<1>7. ASSUME NEW p \in Procs, Lock(p) PROVE RowsInv'
  <2>1. /\ pc[p] = "lock" /\ rows' = rows /\ fs' = fs /\ op' = op /\ ok' = ok
        /\ pc' = pc \/ Goto(p, "act")
    BY <1>7 DEF Lock, shared
  <2>2. RowsOf(p)'
    BY <1>0, <1>1, <2>1 DEF RowsInv, RowsOf, Acted, Goto
  <2> QED
    BY <1>4, <1>7, <2>1, <2>2 DEF Acted, Exists, Step
<1>8. ASSUME NEW p \in Procs, Unlock(p) PROVE RowsInv'
  <2>1. pc[p] = "unlock" /\ rows' = rows /\ fs' = fs
    BY <1>8 DEF Unlock, shared
  <2>2. CASE Goto(p, "rows") /\ op' = op /\ ok' = ok
    <3>1. pc'[p] = "rows" /\ op'[p] = op[p] /\ ok'[p] = ok[p] /\ (Acted(p)' <=> Acted(p))
      BY <1>0, <2>1, <2>2 DEF Goto, Acted
    <3>2. RowsOf(p)'
      BY <1>1, <2>1, <2>2, <3>1 DEF RowsInv, RowsOf, Exists
    <3>3. ASSUME NEW x \in Paths, rows'[x] > 0, ~Exists(x)' PROVE LeftBy(p, x)'
      <4>1. PICK q \in Procs : LeftBy(q, x)
        BY <1>1, <2>1, <3>3 DEF RowsInv, Exists
      <4>2. q = p
        BY <1>1, <2>1, <4>1 DEF AloneInv, LeftBy, Acted
      <4> QED
        BY <3>1, <4>1, <4>2 DEF LeftBy
    <3> QED
      BY <1>2, <1>8, <3>2, <3>3 DEF Step
  <2>3. CASE /\ Goto(p, "idle") /\ op' = [op EXCEPT ![p] = NoOp]
             /\ ~(ok[p] /\ op[p].kind \in RestKinds \ {"read"})
    <3>1. RowsOf(p)'
      BY <1>0, <2>3 DEF RowsOf, Acted, Goto, NoOp
    <3>2. ASSUME NEW x \in Paths, rows'[x] > 0, ~Exists(x)' PROVE FALSE
      <4>1. PICK q \in Procs : LeftBy(q, x)
        BY <1>1, <2>1, <3>2 DEF RowsInv, Exists
      <4>2. q = p
        BY <1>1, <2>1, <4>1 DEF AloneInv, LeftBy, Acted
      <4> QED
        BY <2>3, <4>1, <4>2 DEF LeftBy, Acted, RestKinds
    <3> QED
      BY <1>2, <1>8, <3>1, <3>2 DEF Step
  <2> QED
    BY <1>8, <2>2, <2>3 DEF Unlock, Finish
<1>9. ASSUME NEW p \in Procs, UpdateRows(p) PROVE RowsInv'
  <2> DEFINE o == op[p]
  <2>1. /\ pc[p] = "rows" /\ fs' = fs /\ Goto(p, "idle") /\ op' = [op EXCEPT ![p] = NoOp]
        /\ o.kind \in {"create", "mkdir", "update", "upload", "delete", "move"}
        /\ o.path \in Paths /\ o.to \in Paths /\ Len(o.path) = Len(o.to) /\ Acted(p)
    BY <1>0, <1>9 DEF UpdateRows, Finish, TypeInv, ProcTypes, ProcInv, RestKinds, Acted
  <2>2. RowsOf(p)'
    BY <1>0, <2>1 DEF RowsOf, Acted, Goto, NoOp
  <2>3. ASSUME NEW x \in Paths, rows[x] > 0, ~Exists(x)
        PROVE  o.kind \in {"delete", "move"} /\ x \in Under(o.path)
    <3>1. PICK q \in Procs : LeftBy(q, x)
      BY <1>1, <2>3 DEF RowsInv
    <3>2. q = p
      BY <1>1, <2>1, <3>1 DEF AloneInv, LeftBy, Acted
    <3> QED
      BY <3>1, <3>2 DEF LeftBy
  <2>4. RowsOf(p)
    BY <1>1 DEF RowsInv
  <2>5. ASSUME NEW x \in Paths, rows'[x] > 0 PROVE Exists(x)
    <3>1. CASE o.kind \in {"create", "mkdir"}
      <4>1. rows' = [rows EXCEPT ![o.path] = @ + 1]
        BY <1>9, <3>1 DEF UpdateRows
      <4>2. x = o.path \/ rows'[x] = rows[x]
        BY <1>0, <2>1, <4>1
      <4> QED
        BY <2>1, <2>3, <2>4, <2>5, <3>1, <4>2 DEF RowsOf
    <3>2. CASE o.kind = "upload"
      <4>1. rows' = [rows EXCEPT ![o.path] = 1]
        BY <1>9, <3>2 DEF UpdateRows
      <4>2. x = o.path \/ rows'[x] = rows[x]
        BY <1>0, <2>1, <4>1
      <4> QED
        BY <2>1, <2>3, <2>4, <2>5, <3>2, <4>2 DEF RowsOf
    <3>3. CASE o.kind = "update"
      <4>1. rows' = rows
        BY <1>9, <3>3 DEF UpdateRows
      <4> QED
        BY <2>3, <2>5, <3>3, <4>1
    <3>4. CASE o.kind = "delete"
      <4>1. rows' = RowsWithout(o.path)
        BY <1>9, <3>4 DEF UpdateRows
      <4>2. rows'[x] = IF x \in Under(o.path) THEN 0 ELSE rows[x]
        BY <4>1 DEF RowsWithout
      <4> QED
        BY <2>3, <2>5, <4>2
    <3>5. CASE o.kind = "move"
      <4>1. rows' = RowsMoved(o.path, o.to)
        BY <1>9, <3>5 DEF UpdateRows
      <4>2. rows'[x] = IF x \in Under(o.to) THEN rows[x] + rows[Below(o.to, o.path, x)]
                       ELSE IF x \in Under(o.path) THEN 0 ELSE rows[x]
        BY <4>1 DEF RowsMoved
      <4>3. /\ o.path # o.to
            /\ \A z \in Under(o.to) : rows[Below(o.to, o.path, z)] > 0 => Exists(z)
        BY <2>1, <2>4, <3>5 DEF RowsOf
      <4>4. Under(o.path) \cap Under(o.to) = {}
        BY <2>1, <4>3, UnderIs
      <4>5. x \in Under(o.to) => Below(o.to, o.path, x) \in Paths
        BY <2>1, BelowIs, UnderIs
      <4> HIDE DEF o
      <4>6. CASE x \in Under(o.to)
        <5>1. rows[x] > 0 \/ rows[Below(o.to, o.path, x)] > 0
          BY <1>0, <2>5, <4>2, <4>5, <4>6
        <5> QED
          BY <2>3, <4>3, <4>4, <4>6, <5>1
      <4>7. CASE x \notin Under(o.to)
        BY <2>3, <2>5, <4>2, <4>7
      <4> QED
        BY <4>6, <4>7
    <3> QED
      BY <2>1, <3>1, <3>2, <3>3, <3>4, <3>5
  <2> QED
    BY <1>2, <1>9, <2>1, <2>2, <2>5 DEF Step, Exists
<1>10. ASSUME NEW p \in Procs, Read(p) PROVE RowsInv'
  <2>1. pc[p] = "act" /\ rows' = rows /\ fs' = fs /\ op' = op /\ pc'[p] = "unlock"
        /\ op[p].kind \in {"read", "toolRead"}
    BY <1>0, <1>10 DEF Read, Fails, Goto, Shared
  <2>2. RowsOf(p)'
    BY <2>1 DEF RowsOf
  <2> QED
    BY <1>4, <1>10, <2>1, <2>2 DEF Acted, Exists, Step
<1>11. ASSUME NEW p \in Procs, StartWrite(p) PROVE RowsInv'
  <2> DEFINE x == op[p].path
             f == File(clock + 1, FALSE)
  <2>1. pc[p] = "act" /\ op' = op /\ x \in Paths /\ op[p].kind \in WriteKinds \cup {"patch"}
    BY <1>0, <1>11 DEF StartWrite
  <2>2. CASE Fails(p) /\ rows' = rows /\ fs' = fs
    <3>1. RowsOf(p)'
      BY <1>0, <2>2 DEF RowsOf, Acted, Fails, Goto
    <3> QED
      BY <1>4, <1>11, <2>1, <2>2, <3>1 DEF Acted, Exists, Step
  <2>3. CASE /\ MayWrite(op[p]) /\ fs' = [Made(fs, Above(x)) EXCEPT ![x] = f]
             /\ Goto(p, "writing") /\ rows' = rows
    <3>2. f.kind = "file"
      BY DEF File
    <3>3. ~IsDir(x) /\ \A y \in Above(x) : ~IsFile(y)
      <4>1. CASE op[p].kind = "patch"
        <5>1. IsFile(x)
          BY <2>3, <4>1 DEF MayWrite
        <5>2. \A y \in Above(x) : IsDir(y)
          BY <2>1, <5>1 DEF TreeInv, Above, IsFile, Exists
        <5> QED
          BY <5>1, <5>2 DEF IsFile, IsDir
      <4>2. CASE op[p].kind # "patch"
        BY <2>3, <4>2 DEF MayWrite
      <4> QED
        BY <4>1, <4>2
    <3>4. fs'[x].kind # "absent" /\ \A y \in Paths : Exists(y) => Exists(y)'
      <4> HIDE DEF x, f
      <4> QED
        BY <1>0, <2>1, <2>3, <3>2, <3>3, WriteIs DEF Exists
    <3>5. pc'[p] = "writing"
      BY <1>0, <2>3 DEF Goto
    <3>6. RowsOf(p)'
      BY <2>1, <3>4, <3>5 DEF RowsOf, Acted, Exists
    <3> QED
      BY <1>4, <1>11, <2>1, <2>3, <3>4, <3>6 DEF Acted, Step
  <2>4. CASE Fails(p) /\ op[p].kind = "write"
    <3>1. pc'[p] # "writing"
      BY <1>0, <2>4 DEF Fails, Goto
    <3>2. ~Goto(p, "writing")
      BY <1>0, <3>1 DEF Goto
    <3> QED
      BY <1>11, <2>4, <3>2 DEF StartWrite
  <2> QED
    BY <1>11, <2>2, <2>3, <2>4 DEF StartWrite
<1>12. ASSUME NEW p \in Procs, EndWrite(p) PROVE RowsInv'
  <2> DEFINE x == op[p].path
  <2>1. /\ pc[p] = "writing" /\ op' = op /\ x \in Paths /\ pc'[p] = "unlock"
        /\ op[p].kind \in WriteKinds \cup {"patch"}
        /\ rows' = rows \/ rows' = [rows EXCEPT ![x] = IF @ = 0 THEN 1 ELSE @]
    BY <1>0, <1>12 DEF EndWrite, Goto, TypeInv, ProcTypes, ProcInv
  <2>2. got[p].v \in 1..clock
    BY <2>1 DEF VersionInv, WritersInv
  <2>3. \A y \in Paths : fs'[y].kind = fs[y].kind
    BY <1>0, <1>12, <2>2 DEF EndWrite, VersionInv, FilesInv, File
  <2>4. Exists(x)
    BY <1>1, <2>1 DEF RowsInv, RowsOf
  <2>5. Exists(x)' /\ \A y \in Paths : Exists(y)' = Exists(y)
    BY <2>1, <2>3, <2>4 DEF Exists
  <2>6. RowsOf(p)'
    BY <2>1, <2>5 DEF RowsOf, WriteKinds
  <2>7. \A y \in Paths : y = x \/ rows'[y] = rows[y]
    BY <1>0, <2>1
  <2>8. ~Acted(p)
    BY <2>1 DEF Acted
  <2>9. ASSUME NEW y \in Paths, rows'[y] > 0 PROVE Exists(y)
    BY <1>3, <1>12, <2>4, <2>7, <2>8, <2>9 DEF Step
  <2> QED
    BY <1>2, <1>12, <2>5, <2>6, <2>9 DEF Step
<1>13. ASSUME NEW p \in Procs, MakeDir(p) PROVE RowsInv'
  <2> DEFINE x == op[p].path
  <2>1. pc[p] = "act" /\ rows' = rows /\ op' = op /\ x \in Paths /\ op[p].kind = "mkdir"
    BY <1>0, <1>13 DEF MakeDir
  <2>2. CASE fs' = fs /\ Fails(p)
    <3>1. RowsOf(p)'
      BY <1>0, <2>2 DEF RowsOf, Acted, Fails, Goto
    <3> QED
      BY <1>4, <1>13, <2>1, <2>2, <3>1 DEF Acted, Exists, Step
  <2>3. CASE fs' = Made(fs, Above(x) \cup {x}) /\ CanMake(x) /\ Goto(p, "unlock")
    <3>0. \A y \in Above(x) \cup {x} : ~IsFile(y)
      BY <2>3 DEF CanMake
    <3>3. fs'[x].kind = "dir" /\ \A y \in Paths : Exists(y) => fs'[y] = fs[y]
      <4> HIDE DEF x
      <4> QED
        BY <1>0, <2>1, <2>3, <3>0, MadeIs, AboveClosed
    <3>4. Exists(x)' /\ \A y \in Paths : Exists(y) => Exists(y)'
      BY <2>1, <3>3 DEF Exists
    <3>5. RowsOf(p)'
      BY <1>0, <2>1, <2>3, <3>4 DEF RowsOf, Acted, Goto
    <3> QED
      BY <1>4, <1>13, <2>1, <3>4, <3>5 DEF Acted, Step
  <2> QED
    BY <1>13, <2>2, <2>3 DEF MakeDir
<1>14. ASSUME NEW p \in Procs, Delete(p) PROVE RowsInv'
  <2> DEFINE x == op[p].path
  <2>1. /\ pc[p] = "act" /\ rows' = rows /\ op' = op /\ x \in Paths /\ pc'[p] = "unlock"
        /\ op[p].kind = "delete" /\ ok' = ok
        /\ \A y \in Paths : fs'[y] = IF y \in Under(x) THEN Absent ELSE fs[y]
    BY <1>0, <1>14 DEF Delete, Goto
  <2>2. ok[p]
    BY <2>1 DEF TypeInv, ProcTypes, ProcInv
  <2>3. RowsOf(p)'
    BY <2>1 DEF RowsOf
  <2>4. ASSUME NEW y \in Paths, rows'[y] > 0, ~Exists(y)' PROVE LeftBy(p, y)'
    <3>1. Exists(y)
      BY <1>3, <1>14, <2>1, <2>4 DEF Acted, Step
    <3>2. y \in Under(x)
      BY <2>1, <2>4, <3>1 DEF Exists
    <3> QED
      BY <2>1, <2>2, <3>2 DEF LeftBy, Acted
  <2> QED
    BY <1>2, <1>14, <2>3, <2>4 DEF Step
<1>15. ASSUME NEW p \in Procs, Rename(p) PROVE RowsInv'
  <2> DEFINE x == op[p].path
             y == op[p].to
  <2>1. /\ pc[p] = "act" /\ rows' = rows /\ op' = op /\ x \in Paths /\ y \in Paths
        /\ Len(x) = Len(y) /\ op[p].kind = "move"
    BY <1>0, <1>15 DEF Rename
  <2>2. x # y /\ ok[p]
    BY <1>1, <2>1 DEF RowsInv, RowsOf, TypeInv, ProcTypes, ProcInv
  <2>3. \A z \in Paths : rows[z] > 0 => Exists(z)
    BY <1>3, <1>15, <2>1 DEF Acted, Step
  <2>4. CASE fs' = fs /\ Fails(p)
    <3>1. RowsOf(p)'
      BY <1>0, <2>4 DEF RowsOf, Acted, Fails, Goto
    <3> QED
      BY <1>4, <1>15, <2>1, <2>4, <3>1 DEF Acted, Exists, Step
  <2>5. CASE /\ fs' = Relocated(x, y) /\ Goto(p, "unlock") /\ ok' = ok
             /\ Exists(x) /\ \A z \in Above(y) : IsDir(z)
             /\ Exists(y) => \A z \in Under(y) \ {y} : ~Exists(z)
    <3>1. pc'[p] = "unlock"
      BY <1>0, <2>5 DEF Goto
    <3>2. /\ \A z \in Under(y) : Below(y, x, z) \in Paths /\ fs'[z] = fs[Below(y, x, z)]
          /\ fs'[y] = fs[x]
          /\ \A z \in Paths : z \notin Under(x) /\ z \notin Under(y) => fs'[z] = fs[z]
      BY <1>0, <2>1, <2>5, RelocatedIs
    <3>3. ASSUME NEW z \in Under(y), rows[Below(y, x, z)] > 0 PROVE Exists(z)'
      BY <2>3, <3>2, <3>3 DEF Exists
    <3>4. RowsOf(p)'
      BY <2>1, <2>2, <3>1, <3>3 DEF RowsOf
    <3>5. ASSUME NEW z \in Paths, rows'[z] > 0, ~Exists(z)' PROVE LeftBy(p, z)'
      <4>1. Exists(z)
        BY <2>1, <2>3, <3>5
      <4>2. CASE z \in Under(y)
        <5>1. CASE z = y
          BY <2>5, <3>2, <3>5, <5>1 DEF Exists
        <5>2. CASE z # y
          <6>1. IsStrictPrefix(y, z)
            BY <4>2, <5>2 DEF Under, IsStrictPrefix
          <6>2. Exists(y)
            BY <2>1, <4>1, <6>1 DEF TreeInv, IsDir, Exists
          <6> QED
            BY <2>5, <4>1, <4>2, <5>2, <6>2
        <5> QED
          BY <5>1, <5>2
      <4>3. CASE z \notin Under(y)
        <5>1. z \in Under(x)
          BY <3>2, <3>5, <4>1, <4>3 DEF Exists
        <5> QED
          BY <2>1, <2>2, <2>5, <3>1, <5>1 DEF LeftBy, Acted
      <4> QED
        BY <4>2, <4>3
    <3> QED
      BY <1>2, <1>15, <3>4, <3>5 DEF Step
  <2> QED
    BY <1>15, <2>4, <2>5 DEF Rename
<1>16. CASE UNCHANGED vars
  BY <1>16 DEF vars, RowsInv, RowsOf, LeftBy, Acted, Exists
<1>17. ASSUME NEW p \in Procs, WalkStep(p) PROVE RowsInv'
  <2>1. /\ fs' = fs /\ rows' = rows /\ pc[p] \in {"walk", "walked"}
        /\ pc'[p] \in {"walk", "walked", "idle"}
    BY <1>0, <1>17, WalkIs DEF Goto
  <2>2. op'[p].kind # "move"
    <3>1. ProcInv(p)'
      BY <1>17, WalkIs
    <3> QED
      BY <2>1, <3>1 DEF ProcInv, WalkKinds, NoOp
  <2>3. RowsOf(p)'
    BY <2>1, <2>2 DEF RowsOf, Acted
  <2> QED
    BY <1>4, <1>17, <2>1, <2>3 DEF Acted, Exists, Step
<1> QED
  BY <1>5, <1>6, <1>7, <1>8, <1>9, <1>10, <1>11, <1>12, <1>13, <1>14, <1>15, <1>16, <1>17
     DEF Next, Step

(* Operations one after the other leave no row behind without its file,    *)
(* however many there are.                                                 *)
THEOREM NoGhostRowsLeft == Spec => []NoGhostRows
<1> DEFINE I == TypeInv /\ VersionInv /\ TreeInv /\ AloneInv /\ RowsInv
<1>1. Init => I
  <2> SUFFICES ASSUME Init PROVE I
    OBVIOUS
  <2>1. /\ pc = [p \in Procs |-> "idle"] /\ op = [p \in Procs |-> NoOp]
        /\ \A x \in Paths : rows[x] > 0 => Head(x) = 1
    BY DEF Init
  <2>2. \A x \in Paths : rows[x] > 0 => Exists(x)
    BY <2>1 DEF Init, Exists, Dir, File
  <2>3. AloneInv /\ RowsInv
    BY <2>1, <2>2 DEF AloneInv, RowsInv, RowsOf, Acted
  <2> QED
    BY <2>3, TypeInit, StoreInit, TreeInit DEF StoreInv
<1>2. I /\ [Next]_vars => I'
  BY TypeNext, VersionNext, TreeNext, AloneNext, RowsNext
<1>3. I => NoGhostRows
  BY DEF NoGhostRows, RowsInv, LeftBy, Acted
<1> QED
  BY <1>1, <1>2, <1>3, PTL DEF Spec

-----------------------------------------------------------------------------
(* Locks again: no circle of waiting.                                      *)

(* A set of numbers that is not empty has a least one.                     *)
LEMMA LeastOf ==
  ASSUME NEW S, S \subseteq Nat, S # {}
  PROVE  \E n \in S : \A m \in S : n <= m
<1> DEFINE T == {1..n : n \in S}
<1>1. IsWellFoundedOn(StrictSubsetOrdering(Nat), FiniteSubsetsOf(Nat))
  BY FS_StrictSubsetOrderingWellFounded
<1>2. T \subseteq FiniteSubsetsOf(Nat)
  <2>1. ASSUME NEW n \in S PROVE 1..n \in SUBSET Nat /\ IsFiniteSet(1..n)
    <3>1. n \in Int
      OBVIOUS
    <3>2. IsFiniteSet(1..n)
      BY <3>1, FS_Interval
    <3> QED
      BY <3>1, <3>2
  <2> QED
    BY <2>1 DEF FiniteSubsetsOf
<1>3. T # {}
  OBVIOUS
<1> HIDE DEF T
<1>4. PICK t \in T : \A u \in T : ~(<<u, t>> \in StrictSubsetOrdering(Nat))
  BY <1>1, <1>2, <1>3, WFMin
<1>5. PICK n \in S : t = 1..n
  BY DEF T
<1>6. ASSUME NEW m \in S, m < n PROVE FALSE
  <2>1. 1..m \in T /\ 1..n \in T
    BY DEF T
  <2>2. 1..m \subseteq 1..n /\ n \in 1..n /\ n \notin 1..m /\ 1..m \in SUBSET Nat /\ 1..n \in SUBSET Nat
    BY <1>6
  <2>3. 1..m # 1..n
    BY <2>2
  <2>4. <<1..m, 1..n>> \in StrictSubsetOrdering(Nat)
    BY <2>2, <2>3 DEF StrictSubsetOrdering
  <2> QED
    BY <1>4, <1>5, <2>1, <2>4
<1> QED
  BY <1>6

(* Less is a strict total order of the paths of one length.                *)
LEMMA LessIs ==
  ASSUME NEW x \in Paths, NEW y \in Paths, NEW z \in Paths, Len(x) = Len(y)
  PROVE  /\ ~Less(x, x)
         /\ x # y => Less(x, y) \/ Less(y, x)
         /\ Less(x, y) /\ Less(y, z) => Less(x, z)
<1> DEFINE l == Len(x)
           m == Len(z)
           Before(u, v, n) == u[n] < v[n] /\ \A k \in 1..(n - 1) : u[k] = v[k]
<1>1. x \in Seq(Nat) /\ y \in Seq(Nat) /\ z \in Seq(Nat)
  BY PathIs
<1>2. l \in Nat /\ m \in Nat /\ Len(y) = l
  BY PathIs
<1>3. /\ \A k \in 1..l : x[k] \in Nat /\ y[k] \in Nat
      /\ \A k \in 1..m : z[k] \in Nat
  BY <1>1, <1>2
<1>4. /\ Less(x, x) => \E n \in 1..l : Before(x, x, n)
      /\ Less(x, y) <=> \E n \in 1..l : Before(x, y, n)
      /\ Less(y, x) <=> \E n \in 1..l : Before(y, x, n)
  <2>1. ASSUME NEW u, NEW v, Len(u) = l, Len(v) = l
        PROVE  Less(u, v) <=> \E n \in 1..l : Before(u, v, n)
    <3>1. \A n \in 1..l : n <= l + 1 /\ n # l + 1
      BY <1>2
    <3> HIDE DEF l
    <3> QED
      BY <2>1, <3>1 DEF Less
  <2> QED
    BY <1>2, <2>1
<1>5. /\ Less(y, z) => \E n \in 1..m : /\ n <= l + 1 /\ (n <= l => y[n] < z[n])
                                       /\ \A k \in 1..(n - 1) : y[k] = z[k]
      /\ \A n \in 1..l : n \in 1..m /\ Before(x, z, n) => Less(x, z)
      /\ l < m /\ (\A k \in 1..l : x[k] = z[k]) => Less(x, z)
  <2> HIDE DEF l, m
  <2>1. Len(x) = l /\ Len(y) = l /\ Len(z) = m
    BY <1>2 DEF l, m
  <2>2. ASSUME Less(y, z)
        PROVE  \E n \in 1..m : /\ n <= l + 1 /\ (n <= l => y[n] < z[n])
                              /\ \A k \in 1..(n - 1) : y[k] = z[k]
    <3>1. PICK n \in 1..m : /\ n <= l + 1 /\ (n = l + 1 \/ y[n] < z[n])
                           /\ \A k \in 1..(n - 1) : y[k] = z[k]
      BY <2>1, <2>2 DEF Less
    <3> QED
      BY <1>2, <3>1
  <2>3. ASSUME NEW n \in 1..l, n \in 1..m, Before(x, z, n) PROVE Less(x, z)
    <3>1. n <= l + 1
      BY <1>2
    <3> QED
      BY <2>1, <2>3, <3>1 DEF Less
  <2>4. ASSUME l < m, \A k \in 1..l : x[k] = z[k] PROVE Less(x, z)
    <3>1. l + 1 \in 1..m /\ l + 1 <= l + 1 /\ l + 1 - 1 = l
      BY <1>2, <2>4
    <3> QED
      BY <2>1, <2>4, <3>1 DEF Less
  <2> QED
    BY <2>2, <2>3, <2>4
<1>6. x # y => \E n \in 1..l : x[n] # y[n]
  BY PathEqual
<1> HIDE DEF l, m
<1>7. ~Less(x, x)
  BY <1>2, <1>3, <1>4
<1>8. ASSUME x # y PROVE Less(x, y) \/ Less(y, x)
  <2> DEFINE S == {k \in 1..l : x[k] # y[k]}
  <2>1. S \subseteq Nat /\ S # {}
    BY <1>2, <1>6, <1>8
  <2>2. PICK n \in S : \A k \in S : n <= k
    <3> HIDE DEF S
    <3> QED
      BY <2>1, LeastOf
  <2>3. n \in 1..l /\ x[n] # y[n] /\ \A k \in 1..(n - 1) : x[k] = y[k]
    BY <1>2, <2>2
  <2>4. x[n] < y[n] \/ y[n] < x[n]
    BY <1>3, <2>3
  <2> QED
    BY <1>4, <2>3, <2>4
<1>9. ASSUME Less(x, y), Less(y, z) PROVE Less(x, z)
  <2>1. PICK n \in 1..l : Before(x, y, n)
    BY <1>4, <1>9
  <2>2. PICK i \in 1..m : /\ i <= l + 1 /\ (i <= l => y[i] < z[i])
                         /\ \A k \in 1..(i - 1) : y[k] = z[k]
    BY <1>5, <1>9
  <2>3. CASE i < n
    <3>1. i \in 1..l /\ Before(x, z, i)
      BY <1>2, <2>1, <2>2, <2>3
    <3> QED
      BY <1>5, <2>2, <3>1
  <2>4. CASE n < i
    <3>1. n \in 1..m /\ Before(x, z, n)
      BY <1>2, <2>1, <2>2, <2>4
    <3> QED
      BY <1>5, <2>1, <3>1
  <2>5. CASE n = i
    <3>1. n \in 1..m /\ Before(x, z, n)
      BY <1>2, <1>3, <2>1, <2>2, <2>5
    <3> QED
      BY <1>5, <2>1, <3>1
  <2> QED
    BY <1>2, <2>1, <2>2, <2>3, <2>4, <2>5
<1> QED
  BY <1>7, <1>8, <1>9

(* A move that takes locks is a move to another place.                     *)
MovesInv == \A p \in Procs : pc[p] \in {"lock", "act"} /\ op[p].kind = "move" => op[p].path # op[p].to

BusyInv == IsFiniteSet({p \in Procs : pc[p] # "idle"})

LEMMA MovesNext == TypeInv /\ MovesInv /\ [Next]_vars => MovesInv'
<1> SUFFICES ASSUME TypeInv, MovesInv, [Next]_vars PROVE MovesInv'
  OBVIOUS
<1>0. DOMAIN pc = Procs /\ DOMAIN op = Procs
  BY DEF TypeInv, ProcTypes
<1>1. ASSUME NEW p \in Procs, Begin(p) PROVE MovesInv'
  <2>1. PICK k \in RestKinds \cup ToolKinds \cup WalkKinds, x \in Paths, y \in Paths :
          /\ op' = [op EXCEPT ![p] = [kind |-> k, path |-> x, to |-> y]]
          /\ Goto(p, Entered(k))
    BY <1>1 DEF Begin
  <2>2. op'[p].kind = k /\ pc'[p] = Entered(k)
    BY <1>0, <2>1 DEF Goto
  <2>3. \A q \in Procs \ {p} : op'[q] = op[q] /\ pc'[q] = pc[q]
    BY <1>0, <2>1 DEF Goto
  <2> QED
    BY <2>2, <2>3 DEF MovesInv, Entered
<1>2. ASSUME NEW p \in Procs, Check(p) PROVE MovesInv'
  <2>1. /\ op' = op /\ op[p].path \in Paths /\ op[p].to \in Paths
        /\ \/ Goto(p, "unlock")
           \/ Goto(p, "lock") /\ ~IsPrefix(op[p].path, op[p].to)
    BY <1>2 DEF Check, Fails, TypeInv, ProcTypes, ProcInv
  <2>2. IsPrefix(op[p].path, op[p].path)
    BY <2>1, PathIs, PrefixIs
  <2> QED
    BY <1>0, <2>1, <2>2 DEF MovesInv, Goto
<1>3. ASSUME NEW p \in Procs, Lock(p) PROVE MovesInv'
  <2>1. op' = op /\ pc[p] = "lock" /\ (pc' = pc \/ Goto(p, "act"))
    BY <1>3 DEF Lock
  <2> QED
    BY <1>0, <2>1 DEF MovesInv, Goto
<1>6. ASSUME NEW p \in Procs, WalkStep(p) PROVE MovesInv'
  <2>1. /\ \E to \in {"walk", "walked", "idle"} : Goto(p, to)
        /\ \A q \in Procs \ {p} : op'[q] = op[q] /\ pc'[q] = pc[q]
    BY <1>6, WalkIs
  <2> QED
    BY <1>0, <2>1 DEF MovesInv, Goto
<1>4. ASSUME NEW p \in Procs, Step(p), ~Check(p), ~Lock(p), ~WalkStep(p) PROVE MovesInv'
  <2>1. /\ \E to \in {"unlock", "idle", "writing", "rows"} : Goto(p, to)
        /\ op' = op \/ op' = [op EXCEPT ![p] = NoOp]
    BY <1>4 DEF Step, Unlock, UpdateRows, Read, StartWrite, EndWrite, MakeDir, Delete, Rename, Fails,
                Finish
  <2> QED
    BY <1>0, <2>1 DEF MovesInv, Goto
<1>5. CASE UNCHANGED vars
  BY <1>5 DEF MovesInv, vars
<1> QED
  BY <1>1, <1>2, <1>3, <1>4, <1>5, <1>6 DEF Next

LEMMA BusyNext == TypeInv /\ BusyInv /\ [Next]_vars => BusyInv'
<1> SUFFICES ASSUME TypeInv, BusyInv, [Next]_vars PROVE BusyInv'
  OBVIOUS
<1> DEFINE busy == {p \in Procs : pc[p] # "idle"}
<1>0. DOMAIN pc = Procs
  BY DEF TypeInv, ProcTypes
<1>1. PICK p \in Procs : \A q \in Procs \ {p} : pc'[q] = pc[q]
  <2>1. ASSUME NEW p \in Procs, Begin(p) \/ Step(p)
        PROVE  \A q \in Procs \ {p} : pc'[q] = pc[q]
    <3>1. pc' = pc \/ \E to \in {"check", "lock", "act", "writing", "unlock", "rows", "idle",
                                  "walk", "walked"} : Goto(p, to)
      BY <2>1 DEF Begin, Step, Check, Lock, Unlock, UpdateRows, Read, StartWrite, EndWrite, MakeDir,
                  Delete, Rename, Fails, Finish, Entered, WalkStep, Look, WalkOn
    <3> QED
      BY <1>0, <3>1 DEF Goto
  <2>2. CASE UNCHANGED vars
    BY <2>2 DEF vars, Procs
  <2> QED
    BY <2>1, <2>2 DEF Next
<1>2. busy' \in SUBSET (busy \cup {p})
  BY <1>1
<1>3. IsFiniteSet(busy \cup {p})
  <2>1. IsFiniteSet(busy)
    BY DEF BusyInv
  <2> HIDE DEF busy
  <2> QED
    BY <2>1, FS_AddElement
<1>4. IsFiniteSet(busy')
  BY <1>2, <1>3, FS_Subset
<1> QED
  BY <1>4 DEF BusyInv

(* If every operation waited, then each for one that has its first lock    *)
(* and waits for a greater one; the one that has the greatest would wait   *)
(* for none.                                                               *)
LEMMA NoCircle == TypeInv /\ MovesInv /\ BusyInv => NoDeadlock
<1> DEFINE busy == {p \in Procs : pc[p] # "idle"}
           waits(p) == pc[p] = "lock" /\ ~LockFree(p, Locks(op[p])[held[p] + 1])
           H == {p \in busy : held[p] > 0}
           first(p) == Locks(op[p])[1]
           above(p) == {q \in H : Less(first(p), first(q))}
           T == {above(p) : p \in H}
<1> SUFFICES ASSUME TypeInv, MovesInv, BusyInv, NEW p0 \in Procs, pc[p0] # "idle",
                    \A p \in busy : waits(p)
             PROVE  FALSE
  BY DEF NoDeadlock
<1>0. /\ held \in [Procs -> 0..2]
      /\ \A p \in Procs : /\ pc[p] = "idle" => held[p] = 0
                          /\ pc[p] # "idle" => /\ op[p].path \in Paths /\ op[p].to \in Paths
                                               /\ Len(op[p].path) = Len(op[p].to)
                          /\ pc[p] = "lock" => held[p] < Len(Locks(op[p]))
  BY DEF TypeInv, ProcTypes, ProcInv
(* Who waits, waits for one of H.                                          *)
<1>1. ASSUME NEW p \in busy
      PROVE  \E q \in H : first(q) = Locks(op[p])[held[p] + 1]
  <2> DEFINE x == Locks(op[p])[held[p] + 1]
  <2>1. PICK q \in Procs \ {p} : Holds(q, x)
    BY DEF LockFree
  <2> HIDE DEF x
  <2>2. PICK n \in 1..held[q] : Locks(op[q])[n] = x
    BY <2>1 DEF Holds
  <2>3. held[q] > 0 /\ q \in busy
    BY <1>0, <2>2
  <2>4. held[q] < Len(Locks(op[q]))
    BY <1>0, <2>3
  <2>5. n = 1
    <3>1. Len(Locks(op[q])) \in {0, 1, 2}
      BY LocksIs
    <3> DEFINE m == Len(Locks(op[q]))
    <3>2. m \in {0, 1, 2} /\ held[q] < m /\ held[q] \in 0..2 /\ n \in 1..held[q]
      BY <1>0, <2>4, <3>1
    <3> HIDE DEF m
    <3> QED
      BY <3>2
  <2> QED
    BY <2>2, <2>3, <2>5 DEF x
(* And one of H waits for a greater lock than it has.                      *)
<1>2. ASSUME NEW p \in H
      PROVE  /\ held[p] = 1 /\ first(p) \in Paths /\ Locks(op[p])[2] \in Paths
             /\ Len(first(p)) = Len(Locks(op[p])[2]) /\ Less(first(p), Locks(op[p])[2])
  <2>1. pc[p] = "lock" /\ held[p] \in 1..2 /\ held[p] < Len(Locks(op[p]))
    BY <1>0
  <2>2. op[p].kind = "move" /\ held[p] = 1
    <3> DEFINE m == Len(Locks(op[p]))
    <3>1. m = IF op[p].kind \in Unlocked THEN 0 ELSE IF op[p].kind = "move" THEN 2 ELSE 1
      BY LocksIs
    <3>2. held[p] < m /\ held[p] \in 1..2
      BY <2>1
    <3> HIDE DEF m
    <3> QED
      BY <3>1, <3>2
  <2>3. op[p].path # op[p].to
    BY <2>1, <2>2 DEF MovesInv
  <2>4. CASE Less(op[p].to, op[p].path)
    BY <1>0, <2>1, <2>2, <2>4 DEF Locks
  <2>5. CASE ~Less(op[p].to, op[p].path)
    <3>1. Less(op[p].path, op[p].to)
      BY <1>0, <2>1, <2>3, <2>5, LessIs
    <3> QED
      BY <1>0, <2>1, <2>2, <2>5, <3>1 DEF Locks
  <2> QED
    BY <2>4, <2>5
<1>3. T # {}
  <2>1. p0 \in busy
    OBVIOUS
  <2>2. H # {}
    BY <1>1, <2>1
  <2> HIDE DEF H, busy
  <2> QED
    BY <2>2
<1>4. IsWellFoundedOn(StrictSubsetOrdering(busy), FiniteSubsetsOf(busy))
  BY FS_StrictSubsetOrderingWellFounded
<1>5. T \subseteq FiniteSubsetsOf(busy)
  <2>1. IsFiniteSet(busy)
    BY DEF BusyInv
  <2>2. \A t \in T : t \in SUBSET busy
    OBVIOUS
  <2> HIDE DEF T, busy
  <2>3. \A t \in T : IsFiniteSet(t)
    BY <2>1, <2>2, FS_Subset
  <2> QED
    BY <2>2, <2>3 DEF FiniteSubsetsOf
<1>6. PICK t \in T : \A u \in T : ~(<<u, t>> \in StrictSubsetOrdering(busy))
  <2> HIDE DEF T, busy
  <2> QED
    BY <1>3, <1>4, <1>5, WFMin
<1>7. PICK p \in H : t = above(p)
  OBVIOUS
<1>8. PICK q \in H : first(q) = Locks(op[p])[2]
  BY <1>1, <1>2
<1> HIDE DEF first
<1>9. above(q) \subseteq above(p)
  BY <1>2, <1>8, LessIs
<1>10. q \in above(p) /\ q \notin above(q)
  BY <1>2, <1>8, LessIs
<1>11. above(q) # above(p)
  BY <1>10
<1>12. above(q) \in SUBSET busy /\ above(p) \in SUBSET busy /\ above(q) \in T
  OBVIOUS
<1>13. <<above(q), above(p)>> \in StrictSubsetOrdering(busy)
  BY <1>9, <1>11, <1>12 DEF StrictSubsetOrdering
<1> QED
  BY <1>6, <1>7, <1>12, <1>13

(* The locks of the file manager are never waited for in a circle, however *)
(* many requests there are.                                                *)
THEOREM NoDeadlocks == Spec => []NoDeadlock
<1> DEFINE I == TypeInv /\ MovesInv /\ BusyInv
<1>1. Init => I
  <2> SUFFICES ASSUME Init PROVE I
    OBVIOUS
  <2>1. pc = [p \in Procs |-> "idle"]
    BY DEF Init
  <2>2. {p \in Procs : pc[p] # "idle"} = {}
    BY <2>1
  <2>3. BusyInv
    BY <2>2, FS_EmptySet DEF BusyInv
  <2>4. MovesInv
    BY <2>1 DEF MovesInv
  <2> QED
    BY <2>3, <2>4, TypeInit
<1>2. I /\ [Next]_vars => I'
  BY TypeNext, MovesNext, BusyNext
<1> QED
  BY <1>1, <1>2, NoCircle, PTL DEF Spec
=============================================================================
