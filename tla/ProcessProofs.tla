---------------------------- MODULE ProcessProofs ----------------------------
(***************************************************************************)
(* Proofs about ProcessManager and ProcessOutput, the two parts of one     *)
(* component, for any processes, limits, capacities and viewers.           *)
(*                                                                         *)
(* The output: the buffer holds the last lines in order, and a viewer      *)
(* misses none between its history and its live output.  RingInv says      *)
(* which line each slot of the array holds, ReachInv where a line is that  *)
(* a viewer has not been shown yet: in its snapshot, in its channel, or    *)
(* with a reader that has appended it.                                     *)
(*                                                                         *)
(* The manager: a process that runs is in the map, and the limits bound    *)
(* those that run.  MapInv adds what a process is in each phase of its     *)
(* Wait goroutine, and that a sweep has chosen exited processes only;      *)
(* CountInv bounds the sessions that Start counts, which by MapInv include *)
(* all processes that run.                                                 *)
(***************************************************************************)
EXTENDS ProcessManager, ProcessOutput, FiniteSetTheorems, SequenceTheorems, TLAPS

(***************************************************************************)
(* The manager.                                                            *)
(***************************************************************************)

MapInv ==
  \A p \in Procs :
    /\ waiter[p] = "none" => p \notin listed /\ members[p] = {}
    /\ Runs(p) => waiter[p] = "wait"
    /\ p \in doomed => Exited(p)
    /\ waiter[p] # "none" /\ ~Exited(p) => p \in listed

CountedOf(j) == {p \in Counted : ProjectOf[p] = j}

CountInv ==
  /\ Cardinality(Counted) <= MaxGlobal
  /\ \A j \in Projects : Cardinality(CountedOf(j)) <= MaxPerProject

TargetInv == \A k \in Stoppers : pc[k] \in {"flag", "term", "await"} => target[k] \in Procs

-----------------------------------------------------------------------------
(* Types.                                                                  *)

LEMMA TypeInit == Init => TypeOK /\ TargetInv
<1> SUFFICES ASSUME Init PROVE TypeOK /\ TargetInv
  OBVIOUS
<1> QED
  BY DEF Init, TypeOK, TargetInv

LEMMA TypeNext == TypeOK /\ TargetInv /\ [Next]_vars => TypeOK' /\ TargetInv'
<1> SUFFICES ASSUME TypeOK, TargetInv, [Next]_vars PROVE TypeOK' /\ TargetInv'
  OBVIOUS
<1> USE DEF TypeOK, TargetInv
<1>1. ASSUME NEW p \in Procs, Start(p) PROVE TypeOK' /\ TargetInv'
  BY <1>1, GroupAssumption DEF Start, stopper
<1>2. ASSUME NEW p \in Procs, Wait(p) PROVE TypeOK' /\ TargetInv'
  BY <1>2 DEF Wait, stopper
<1>3. ASSUME NEW p \in Procs, Age(p) PROVE TypeOK' /\ TargetInv'
  BY <1>3 DEF Age, stopper
<1>4. ASSUME NEW p \in Procs, NEW m \in Group, Fork(p, m) \/ End(p, m)
      PROVE TypeOK' /\ TargetInv'
  BY <1>4 DEF Fork, End, sessions, stopper
<1>5. ASSUME NEW k \in Stoppers, RequestStop(k) PROVE TypeOK' /\ TargetInv'
  BY <1>5 DEF RequestStop, Moved, sessions
<1>6. ASSUME NEW k \in Stoppers, RequestStopAll(k) PROVE TypeOK' /\ TargetInv'
  BY <1>6 DEF RequestStopAll, Moved, sessions
<1>7. ASSUME NEW k \in Stoppers, Lookup(k) PROVE TypeOK' /\ TargetInv'
  BY <1>7 DEF Lookup, Moved, sessions
<1>8. ASSUME NEW k \in Stoppers, Flag(k) PROVE TypeOK' /\ TargetInv'
  BY <1>8 DEF Flag, StopReturns, StopsUnlessExited, Moved
<1>9. ASSUME NEW k \in Stoppers, Term(k) PROVE TypeOK' /\ TargetInv'
  BY <1>9 DEF Term, Moved, sessions
<1>10. ASSUME NEW k \in Stoppers, Await(k) PROVE TypeOK' /\ TargetInv'
  BY <1>10 DEF Await, StopReturns, Survivors, Moved, sessions
<1>11. ASSUME NEW k \in Stoppers, Finish(k) PROVE TypeOK' /\ TargetInv'
  BY <1>11 DEF Finish, Moved, sessions
<1>12. CASE Inspect
  BY <1>12 DEF Inspect, stopper
<1>13. CASE Sweep
  BY <1>13 DEF Sweep, stopper
<1>14. CASE UNCHANGED vars
  BY <1>14 DEF vars
<1> QED
  BY <1>1, <1>2, <1>3, <1>4, <1>5, <1>6, <1>7, <1>8, <1>9, <1>10, <1>11,
     <1>12, <1>13, <1>14 DEF Next, StopperStep

(* Every variable of the process manager stays in its type.                *)
THEOREM TypeCorrect == Spec => []TypeOK
<1>1. TypeOK /\ TargetInv /\ [Next]_vars => (TypeOK /\ TargetInv)'
  BY TypeNext
<1> QED
  BY <1>1, TypeInit, PTL DEF Spec

-----------------------------------------------------------------------------
(* The map and the processes.                                              *)

LEMMA MapInit == Init => MapInv
  BY DEF Init, MapInv, Runs, Exited

LEMMA MapNext ==
  TypeOK /\ TargetInv /\ MapInv /\ [Next]_vars => MapInv'
<1> SUFFICES ASSUME TypeOK, TargetInv, MapInv, [Next]_vars PROVE MapInv'
  OBVIOUS
<1> USE DEF TypeOK, TargetInv, MapInv, Runs, Exited
<1>1. ASSUME NEW p \in Procs, Start(p) PROVE MapInv'
  BY <1>1 DEF Start
<1>2. ASSUME NEW p \in Procs, Wait(p) PROVE MapInv'
  BY <1>2 DEF Wait
<1>3. ASSUME NEW p \in Procs, Age(p) PROVE MapInv'
  BY <1>3 DEF Age
<1>4. ASSUME NEW p \in Procs, NEW m \in Group, Fork(p, m) \/ End(p, m)
      PROVE MapInv'
  BY <1>4 DEF Fork, End, sessions
<1>5. ASSUME NEW k \in Stoppers, RequestStop(k) \/ RequestStopAll(k) \/ Lookup(k)
      PROVE MapInv'
  BY <1>5 DEF RequestStop, RequestStopAll, Lookup, sessions
<1>6. ASSUME NEW k \in Stoppers, Flag(k) \/ Finish(k) PROVE MapInv'
  BY <1>6 DEF Flag, Finish, sessions
<1>7. ASSUME NEW k \in Stoppers, Term(k) PROVE MapInv'
  BY <1>7 DEF Term, sessions
<1>8. ASSUME NEW k \in Stoppers, Await(k) PROVE MapInv'
  BY <1>8 DEF Await, Survivors, sessions
<1>9. CASE Inspect
  BY <1>9 DEF Inspect, Outdated
<1>10. CASE Sweep
  BY <1>10 DEF Sweep
<1>11. CASE UNCHANGED vars
  BY <1>11 DEF vars
<1> QED
  BY <1>1, <1>2, <1>3, <1>4, <1>5, <1>6, <1>7, <1>8, <1>9, <1>10, <1>11
     DEF Next, StopperStep

(* A process that runs is in the map, where a stop finds it: no sweep has  *)
(* deleted it.                                                             *)
THEOREM RunningIsListedCorrect == Spec => []RunningIsListed
<1>1. Init => TypeOK /\ TargetInv /\ MapInv
  BY TypeInit, MapInit
<1>2. TypeOK /\ TargetInv /\ MapInv /\ [Next]_vars => (TypeOK /\ TargetInv /\ MapInv)'
  BY TypeNext, MapNext
<1>3. MapInv => RunningIsListed
  BY DEF MapInv, RunningIsListed, Exited
<1> QED
  BY <1>1, <1>2, <1>3, PTL DEF Spec

(* However stops, exits and sweeps interleave, a process that was told to  *)
(* have exited is never told to have been stopped, nor to run again.       *)
THEOREM StatusFinalCorrect == Spec => StatusFinal
<1> DEFINE Kept == \A p \in Procs : Status(p) # "running" => Status(p)' = Status(p)
<1>1. TypeOK /\ [Next]_vars => [Kept]_vars
  <2> SUFFICES ASSUME TypeOK, Next PROVE Kept
    OBVIOUS
  <2>1. CASE stopped' = stopped /\ \A p \in Procs : Exited(p) => Exited(p)'
    BY <2>1 DEF Status
  <2>2. ASSUME NEW p \in Procs, Start(p) \/ Wait(p) \/ Age(p) PROVE Kept
    <3>1. stopped' = stopped /\ \A q \in Procs : Exited(q) => Exited(q)'
      BY <2>2 DEF Start, Wait, Age, Exited, TypeOK
    <3> QED
      BY <2>1, <3>1
  <2>3. ASSUME NEW p \in Procs, NEW m \in Group, Fork(p, m) \/ End(p, m) PROVE Kept
    BY <2>1, <2>3 DEF Fork, End, sessions, Exited
  <2>4. ASSUME NEW k \in Stoppers, RequestStop(k) \/ RequestStopAll(k) PROVE Kept
    BY <2>1, <2>4 DEF RequestStop, RequestStopAll, sessions, Exited
  <2>5. ASSUME NEW k \in Stoppers, Lookup(k) \/ Term(k) \/ Await(k) \/ Finish(k) PROVE Kept
    BY <2>1, <2>5 DEF Lookup, Term, Await, Finish, sessions, Exited
  <2>6. ASSUME NEW k \in Stoppers, Flag(k) PROVE Kept
    <3>1. /\ waiter' = waiter
          /\ \/ stopped' = stopped
             \/ ~Exited(target[k]) /\ stopped' = stopped \cup {target[k]}
      BY <2>6 DEF Flag, StopsUnlessExited
    <3> QED
      BY <3>1 DEF Status, Exited
  <2>7. CASE Inspect \/ Sweep
    BY <2>1, <2>7 DEF Inspect, Sweep, Exited
  <2> QED
    BY <2>2, <2>3, <2>4, <2>5, <2>6, <2>7 DEF Next, StopperStep
<1> QED
  BY <1>1, TypeCorrect, PTL DEF Spec, StatusFinal

-----------------------------------------------------------------------------
(* The limits.                                                             *)

(* Sets of processes are finite, and a part of one is no larger.           *)
LEMMA Smaller ==
  ASSUME NEW S \in SUBSET Procs, NEW T \in SUBSET S
  PROVE  Cardinality(T) \in Nat /\ Cardinality(S) \in Nat /\ Cardinality(T) <= Cardinality(S)
<1>1. IsFiniteSet(S)
  BY FiniteAssumption, FS_Subset
<1> QED
  BY <1>1, FS_Subset, FS_CardinalityType

(* Adding one process to a set that is below a limit keeps the limit.      *)
LEMMA OneMore ==
  ASSUME NEW S \in SUBSET Procs, NEW p \in Procs, NEW max \in Nat,
         Cardinality(S) < max
  PROVE  Cardinality(S \cup {p}) <= max
<1>1. IsFiniteSet(S)
  BY FiniteAssumption, FS_Subset
<1>2. Cardinality(S) \in Nat
  BY <1>1, FS_CardinalityType
<1>3. Cardinality(S \cup {p}) = IF p \in S THEN Cardinality(S) ELSE Cardinality(S) + 1
  BY <1>1, FS_AddElement
<1> QED
  BY <1>2, <1>3

LEMMA CountInit == Init => CountInv
<1> SUFFICES ASSUME Init PROVE CountInv
  OBVIOUS
<1>1. Counted = {} /\ \A j \in Projects : CountedOf(j) = {}
  BY DEF Init, Counted, CountedOf
<1> QED
  BY <1>1, FS_EmptySet, LimitsAssumption DEF CountInv

(* When no session is added to those that count, the limits are kept.      *)
LEMMA CountShrinks ==
  ASSUME TypeOK, CountInv, Counted' \subseteq Counted
  PROVE  CountInv'
<1>1. Counted \in SUBSET Procs
  BY DEF Counted, TypeOK
<1>2. Cardinality(Counted') <= Cardinality(Counted) /\ Cardinality(Counted') \in Nat
      /\ Cardinality(Counted) \in Nat
  BY <1>1, Smaller
<1>3. ASSUME NEW j \in Projects PROVE Cardinality(CountedOf(j)') <= MaxPerProject
  <2>1. CountedOf(j) \in SUBSET Procs /\ CountedOf(j)' \in SUBSET CountedOf(j)
    BY <1>1 DEF CountedOf
  <2>2. Cardinality(CountedOf(j)') \in Nat /\ Cardinality(CountedOf(j)) \in Nat
        /\ Cardinality(CountedOf(j)') <= Cardinality(CountedOf(j))
    BY <2>1, Smaller
  <2> QED
    BY <2>2, LimitsAssumption DEF CountInv
<1> QED
  BY <1>2, <1>3, LimitsAssumption DEF CountInv

LEMMA CountNext ==
  TypeOK /\ MapInv /\ CountInv /\ [Next]_vars => CountInv'
<1> SUFFICES ASSUME TypeOK, MapInv, CountInv, [Next]_vars PROVE CountInv'
  OBVIOUS
<1>1. ASSUME NEW p \in Procs, Start(p) PROVE CountInv'
  <2>1. Counted \in SUBSET Procs /\ Counted' = Counted \cup {p}
    BY <1>1 DEF Start, TypeOK, Counted, Exited, MapInv
  <2>2. Cardinality(Counted') <= MaxGlobal
    BY <1>1, <2>1, OneMore, LimitsAssumption DEF Start
  <2>3. ASSUME NEW j \in Projects PROVE Cardinality(CountedOf(j)') <= MaxPerProject
    <3>1. CASE j = ProjectOf[p]
      <4>1. CountedOf(j) \in SUBSET Procs /\ CountedOf(j)' = CountedOf(j) \cup {p}
        BY <2>1, <3>1 DEF CountedOf
      <4>2. Cardinality(CountedOf(j)) < MaxPerProject
        BY <1>1, <3>1 DEF Start, CountedOf
      <4> QED
        BY <4>1, <4>2, OneMore, LimitsAssumption
    <3>2. CASE j # ProjectOf[p]
      <4>1. CountedOf(j)' = CountedOf(j)
        BY <2>1, <3>2 DEF CountedOf
      <4> QED
        BY <4>1 DEF CountInv
    <3> QED
      BY <3>1, <3>2
  <2> QED
    BY <2>2, <2>3 DEF CountInv
<1>2. ASSUME NEW p \in Procs, Wait(p) PROVE Counted' \subseteq Counted
  BY <1>2 DEF Wait, Counted, Exited, TypeOK
<1>3. CASE Sweep
  BY <1>3, CountShrinks DEF Sweep, Counted, Exited
<1>4. CASE UNCHANGED <<listed, waiter>>
  BY <1>4, CountShrinks DEF Counted, Exited
<1>5. ASSUME NEW p \in Procs, NEW m \in Group, Age(p) \/ Fork(p, m) \/ End(p, m)
      PROVE UNCHANGED <<listed, waiter>>
  BY <1>5 DEF Age, Fork, End, sessions
<1>6. ASSUME NEW k \in Stoppers, RequestStop(k) \/ RequestStopAll(k) \/ StopperStep(k)
      PROVE UNCHANGED <<listed, waiter>>
  BY <1>6 DEF RequestStop, RequestStopAll, StopperStep, Lookup, Flag, Term, Await,
              Finish, sessions
<1>7. CASE Inspect
  BY <1>4, <1>7 DEF Inspect
<1>8. CASE UNCHANGED vars
  BY <1>4, <1>8 DEF vars
<1> QED
  BY <1>1, <1>2, <1>3, <1>4, <1>5, <1>6, <1>7, <1>8, CountShrinks, GroupAssumption DEF Next

(* However starts, exits, stops and sweeps interleave, no more processes   *)
(* run than the global limit and the limit of each project allow.          *)
THEOREM WithinLimitsCorrect == Spec => []WithinLimits
<1> DEFINE IInv == TypeOK /\ TargetInv /\ MapInv /\ CountInv
<1>1. Init => IInv
  BY TypeInit, MapInit, CountInit
<1>2. IInv /\ [Next]_vars => IInv'
  BY TypeNext, MapNext, CountNext
<1>3. IInv => WithinLimits
  <2> SUFFICES ASSUME IInv PROVE WithinLimits
    OBVIOUS
  <2>1. Counted \in SUBSET Procs /\ Running \in SUBSET Counted
    BY DEF MapInv, Running, Counted, Exited, TypeOK
  <2>2. Cardinality(Running) <= MaxGlobal
    BY <2>1, Smaller, LimitsAssumption DEF CountInv
  <2>3. ASSUME NEW j \in Projects
        PROVE Cardinality({p \in Running : ProjectOf[p] = j}) <= MaxPerProject
    <3>1. CountedOf(j) \in SUBSET Procs
          /\ {p \in Running : ProjectOf[p] = j} \in SUBSET CountedOf(j)
      BY <2>1 DEF CountedOf
    <3>2. Cardinality(CountedOf(j)) <= MaxPerProject
      BY DEF CountInv
    <3> QED
      BY <3>1, <3>2, Smaller, LimitsAssumption
  <2> QED
    BY <2>2, <2>3 DEF WithinLimits
<1> QED
  BY <1>1, <1>2, <1>3, PTL DEF Spec

-----------------------------------------------------------------------------
(***************************************************************************)
(* The output.                                                             *)
(***************************************************************************)

(* The line a slot of the array holds: lines are counted from the oldest.  *)
Slot(rb, i) == rb.lines[(rb.start + (i - 1)) % Cap]

RingInv ==
  /\ ring.lines \in [0..(Cap - 1) -> Line \cup {NoLine}]
  /\ ring.start \in 0..(Cap - 1)
  /\ ring.count = IF Len(all) < Cap THEN Len(all) ELSE Cap
  /\ \A i \in 1..ring.count : Slot(ring, i) = all[Len(all) - ring.count + i]

ReaderInv ==
  \A s \in Streams : /\ taken[s] <= written[s]
                     /\ rpc[s] \in {"append", "output"} => taken[s] > 0

OutputInv == OutputTypeOK /\ ReaderInv /\ RingInv

(* The element is in the sequence.                                         *)
On(seq, e) == \E i \in 1..Len(seq) : seq[i] = e

Pending(e) == \E s \in Streams : rpc[s] = "output" /\ Current(s) = e

Reaches(v, e) == e \in got[v] \/ On(channel[v], e) \/ On(snapshot[v], e) \/ Pending(e)

Follows(v) == v \in watching /\ vpc[v] # "lookup" /\ ~dropped[v]

ReachInv ==
  \A v \in Viewers :
    /\ vpc[v] # "history" => snapshot[v] = <<>>
    /\ evicted[v] \in Nat
    /\ Follows(v) => \A n \in (evicted[v] + 1)..Len(all) : Reaches(v, all[n])

-----------------------------------------------------------------------------
(* Sequences.                                                              *)

LEMMA FunctionSeq ==
  ASSUME NEW S, NEW n \in Nat, NEW f \in [1..n -> S]
  PROVE  f \in Seq(S) /\ Len(f) = n
OBVIOUS

LEMMA AppendIs ==
  ASSUME NEW S, NEW q \in Seq(S), NEW e \in S
  PROVE  /\ Append(q, e) \in Seq(S) /\ Len(Append(q, e)) = Len(q) + 1 /\ Len(q) \in Nat
         /\ \A i \in 1..Len(q) : Append(q, e)[i] = q[i]
         /\ Append(q, e)[Len(q) + 1] = e
         /\ \A x : On(Append(q, e), x) <=> On(q, x) \/ x = e
<1>1. /\ Append(q, e) \in Seq(S) /\ Len(Append(q, e)) = Len(q) + 1 /\ Len(q) \in Nat
      /\ \A i \in 1..Len(q) : Append(q, e)[i] = q[i]
      /\ Append(q, e)[Len(q) + 1] = e
  BY AppendProperties, LenProperties
<1> DEFINE a == Append(q, e)
<1>2. Len(a) = Len(q) + 1 /\ Len(q) \in Nat
      /\ (\A i \in 1..Len(q) : a[i] = q[i]) /\ a[Len(q) + 1] = e
  BY <1>1
<1> HIDE DEF a
<1>3. ASSUME NEW x PROVE On(a, x) <=> On(q, x) \/ x = e
  BY <1>2 DEF On
<1> QED
  BY <1>1, <1>3 DEF a

LEMMA TailOn ==
  ASSUME NEW S, NEW q \in Seq(S), q # <<>>
  PROVE  /\ Tail(q) \in Seq(S) /\ Len(Tail(q)) = Len(q) - 1 /\ Head(q) \in S /\ Len(q) \in Nat
         /\ \A x : On(q, x) => x = Head(q) \/ On(Tail(q), x)
<1>1. /\ Tail(q) \in Seq(S) /\ Len(Tail(q)) = Len(q) - 1 /\ Head(q) \in S /\ Len(q) \in Nat
      /\ \A i \in 1..Len(Tail(q)) : Tail(q)[i] = q[i + 1]
      /\ Head(q) = q[1]
  BY HeadTailProperties, LenProperties
<1> DEFINE t == Tail(q)
           h == Head(q)
<1>2. Len(t) = Len(q) - 1 /\ Len(q) \in Nat /\ (\A i \in 1..Len(t) : t[i] = q[i + 1]) /\ h = q[1]
  BY <1>1
<1> HIDE DEF t, h
<1>3. ASSUME NEW x, On(q, x) PROVE x = h \/ On(t, x)
  <2>1. PICK i \in 1..Len(q) : q[i] = x
    BY <1>3 DEF On
  <2>2. CASE i = 1
    BY <1>2, <2>1, <2>2
  <2>3. CASE i # 1
    <3>1. i - 1 \in 1..Len(t) /\ t[i - 1] = x
      BY <1>2, <2>1, <2>3
    <3> QED
      BY <3>1 DEF On
  <2> QED
    BY <2>2, <2>3
<1> QED
  BY <1>1, <1>3 DEF t, h

-----------------------------------------------------------------------------
(* The array.                                                              *)

(* In the range in which the buffer computes, % wraps around at most once. *)
LEMMA WrapsOnce ==
  ASSUME NEW a \in Nat, a < Cap + Cap
  PROVE  a % Cap = IF a < Cap THEN a ELSE a - Cap
BY CapAssumption

(* An Append moves the slots on by one line.                               *)
LEMMA RingNext ==
  ASSUME RingInv, all \in Seq(Line), NEW l \in Line,
         ring' = Appended(ring, l), all' = Append(all, l)
  PROVE  RingInv'
<1> DEFINE a == ring.start
           c == ring.count
           n == Len(all)
<1>1. /\ Cap \in Nat /\ Cap > 0 /\ a \in 0..(Cap - 1) /\ n \in Nat
      /\ c = IF n < Cap THEN n ELSE Cap
      /\ \A i \in 1..c : ring.lines[(a + (i - 1)) % Cap] = all[n - c + i]
  <2>1. Cap \in Nat /\ Cap > 0 /\ n \in Nat
    BY CapAssumption, LenProperties
  <2> QED
    BY <2>1 DEF RingInv, Slot
<1>2. all' \in Seq(Line) /\ Len(all') = n + 1 /\ all'[n + 1] = l /\ \A i \in 1..n : all'[i] = all[i]
  BY AppendIs
<1>3. /\ ring'.lines = [ring.lines EXCEPT ![(a + c) % Cap] = l]
      /\ ring'.start = IF c = Cap THEN (a + 1) % Cap ELSE a
      /\ ring'.count = IF c = Cap THEN c ELSE c + 1
  BY DEF Appended, StartAdvanced
<1>4. ring.lines \in [0..(Cap - 1) -> Line \cup {NoLine}]
  BY DEF RingInv
<1> DEFINE L == ring.lines
           M == ring'.lines
           b == ring'.start
           d == ring'.count
           w == IF a + c < Cap THEN a + c ELSE a + c - Cap
<1> HIDE DEF a, c, n
<1>5. (a + c) % Cap = w /\ w \in 0..(Cap - 1)
  BY <1>1, WrapsOnce
<1>6. (a + 1) % Cap = IF a + 1 < Cap THEN a + 1 ELSE 0
  BY <1>1, WrapsOnce
<1>7. /\ M \in [0..(Cap - 1) -> Line \cup {NoLine}]
      /\ M[w] = l /\ \A i \in 0..(Cap - 1) : i # w => M[i] = L[i]
  BY <1>3, <1>4, <1>5
<1>8. b \in 0..(Cap - 1) /\ d = IF Len(all') < Cap THEN Len(all') ELSE Cap
  BY <1>1, <1>2, <1>3, <1>6
<1>9. ASSUME NEW i \in 1..d PROVE M[(b + (i - 1)) % Cap] = all'[Len(all') - d + i]
  <2> DEFINE x == IF b + (i - 1) < Cap THEN b + (i - 1) ELSE b + (i - 1) - Cap
  <2>1. (b + (i - 1)) % Cap = x /\ x \in 0..(Cap - 1)
    <3> DEFINE y == b + (i - 1)
    <3>1. y \in Nat /\ y < Cap + Cap
      BY <1>1, <1>2, <1>8
    <3>2. x = (IF y < Cap THEN y ELSE y - Cap) /\ x \in 0..(Cap - 1)
      BY <1>1, <1>2, <1>8, <3>1
    <3> HIDE DEF y, x
    <3>3. y % Cap = x
      BY <3>1, <3>2, WrapsOnce
    <3> QED
      BY <3>2, <3>3 DEF y
  <2>2. CASE i = d
    <3>1. x = w
      BY <1>1, <1>3, <1>6, <2>2
    <3>2. Len(all') - d + i = n + 1
      BY <1>1, <1>2, <1>8, <2>2
    <3> QED
      BY <1>2, <1>7, <2>1, <3>1, <3>2
  <2>3. CASE i # d
    <3>0. i \in Nat /\ i >= 1 /\ i < d
      BY <1>1, <1>2, <1>8, <2>3
    <3>1. x # w
      <4>1. CASE c = Cap
        <5>1. d = Cap /\ w = a /\ b = IF a + 1 < Cap THEN a + 1 ELSE 0
          BY <1>1, <1>3, <1>6, <4>1
        <5> HIDE DEF b, d, w
        <5> QED
          BY <1>1, <3>0, <5>1
      <4>2. CASE c # Cap
        <5>1. d = c + 1 /\ b = a
          BY <1>3, <4>2
        <5>2. c \in Nat /\ c < Cap
          BY <1>1, <4>2
        <5> HIDE DEF b, d
        <5> QED
          BY <1>1, <3>0, <5>1, <5>2
      <4> QED
        BY <4>1, <4>2
    <3> DEFINE j == IF c = Cap THEN i + 1 ELSE i
    <3>2. j \in 1..c /\ n - c + j = Len(all') - d + i /\ n - c + j \in 1..n
      BY <1>1, <1>2, <1>3, <2>3
    <3>3. (a + (j - 1)) % Cap = x
      <4> DEFINE y == a + (j - 1)
      <4>1. y \in Nat /\ y < Cap + Cap
        BY <1>1, <3>2
      <4>2. x = IF y < Cap THEN y ELSE y - Cap
        BY <1>1, <1>2, <1>3, <1>6, <1>8, <2>3
      <4> HIDE DEF y, x, j
      <4>3. y % Cap = x
        BY <4>1, <4>2, WrapsOnce
      <4> QED
        BY <4>3 DEF y
    <3>4. L[x] = all[n - c + j]
      BY <1>1, <3>2, <3>3
    <3> QED
      BY <1>2, <1>7, <2>1, <3>1, <3>2, <3>4
  <2> QED
    BY <2>2, <2>3
<1> QED
  BY <1>7, <1>8, <1>9 DEF RingInv, Slot

(* Tail(n) is the last n lines, all of them when there are fewer.          *)
LEMMA TailIs ==
  ASSUME RingInv, all \in Seq(Line), NEW n \in Nat
  PROVE  LET k == IF n > ring.count THEN ring.count ELSE n IN
         TailOf(ring, n) \in Seq(Line) /\ TailOf(ring, n) = LastOf(all, k)
<1> DEFINE k == IF n > ring.count THEN ring.count ELSE n
           c == ring.count
           t == [i \in 1..k |-> ring.lines[(ring.start + (c - k) + (i - 1)) % Cap]]
           u == LastOf(all, k)
<1>1. Len(all) \in Nat /\ c \in 0..Len(all) /\ c <= Cap /\ k \in 0..c /\ Cap \in Nat \ {0}
  BY CapAssumption, LenProperties DEF RingInv
<1>2. ASSUME NEW i \in 1..k
      PROVE  ring.lines[(ring.start + (c - k) + (i - 1)) % Cap] = all[Len(all) - k + i]
             /\ all[Len(all) - k + i] \in Line
  <2>1. c - k + i \in 1..c /\ Len(all) - c + (c - k + i) = Len(all) - k + i
        /\ Len(all) - k + i \in 1..Len(all)
    BY <1>1
  <2>2. Slot(ring, c - k + i) = all[Len(all) - c + (c - k + i)]
    BY <2>1 DEF RingInv
  <2>3. ring.start + ((c - k + i) - 1) = ring.start + (c - k) + (i - 1)
    BY <1>1 DEF RingInv
  <2>4. Slot(ring, c - k + i) = ring.lines[(ring.start + (c - k) + (i - 1)) % Cap]
    BY <2>3 DEF Slot
  <2>5. all[Len(all) - k + i] \in Line
    BY <2>1, ElementOfSeq
  <2> QED
    BY <2>1, <2>2, <2>4, <2>5
<1>3. t \in [1..k -> Line]
  BY <1>2
<1>4. t \in Seq(Line) /\ Len(t) = k
  <2>1. k \in Nat
    BY <1>1
  <2> HIDE DEF t, k
  <2> QED
    BY <1>3, <2>1, FunctionSeq
<1>5. u \in Seq(Line) /\ Len(u) = k /\ \A i \in 1..k : u[i] = all[Len(all) - k + i]
  <2>1. Len(all) - k + 1 \in Int /\ Len(all) \in Int
    BY <1>1
  <2>2. \A i \in (Len(all) - k + 1)..Len(all) : all[i] \in Line
    BY <1>1, ElementOfSeq
  <2>3. u \in Seq(Line)
        /\ Len(u) = (IF Len(all) - k + 1 <= Len(all) THEN Len(all) - (Len(all) - k + 1) + 1 ELSE 0)
        /\ \A i \in 1..(Len(all) - (Len(all) - k + 1) + 1) : u[i] = all[Len(all) - k + 1 + i - 1]
    BY <2>1, <2>2, SubSeqProperties DEF LastOf
  <2> HIDE DEF u
  <2>4. Len(u) = k
    BY <1>1, <2>3
  <2>5. ASSUME NEW i \in 1..k PROVE u[i] = all[Len(all) - k + i]
    <3>1. i \in 1..(Len(all) - (Len(all) - k + 1) + 1)
          /\ Len(all) - k + 1 + i - 1 = Len(all) - k + i
      BY <1>1
    <3> QED
      BY <2>3, <3>1
  <2> QED
    BY <2>3, <2>4, <2>5
<1>6. \A i \in 1..k : t[i] = u[i]
  BY <1>2, <1>5
<1>7. t = u
  <2> HIDE DEF t, u
  <2> QED
    BY <1>4, <1>5, <1>6, SeqEqual
<1>8. TailOf(ring, n) = t
  BY DEF TailOf
<1> QED
  BY <1>4, <1>7, <1>8

LEMMA LinesIs ==
  ASSUME RingInv, all \in Seq(Line)
  PROVE  LinesOf(ring) \in Seq(Line) /\ LinesOf(ring) = LastOf(all, ring.count)
<1>1. ring.count \in Nat /\ ring.start \in Nat
  BY CapAssumption, LenProperties DEF RingInv
<1>2. LinesOf(ring) = TailOf(ring, ring.count)
  BY <1>1 DEF LinesOf, TailOf
<1> QED
  BY <1>1, <1>2, TailIs

-----------------------------------------------------------------------------
(* Types, the readers and the buffer.                                      *)

LEMMA OutputInvInit == OutputInit => OutputInv
<1> SUFFICES ASSUME OutputInit PROVE OutputInv
  OBVIOUS
<1>0. all = <<>> /\ Len(all) = 0 /\ all \in Seq(Line) /\ \A v \in Viewers : Len(channel[v]) = 0
  BY EmptySeq DEF OutputInit
<1>1. OutputTypeOK
  <2>1. <<>> \in Seq(Line)
    OBVIOUS
  <2>2. ring.start = 0 /\ ring.count = 0
    BY DEF OutputInit, NewRingBuffer
  <2> QED
    BY <1>0, <2>1, <2>2, CapAssumption, OutputAssumption DEF OutputInit, OutputTypeOK
<1>2. ReaderInv
  BY DEF OutputInit, ReaderInv
<1>3. RingInv
  BY <1>0, CapAssumption DEF OutputInit, RingInv, NewRingBuffer
<1> QED
  BY <1>1, <1>2, <1>3 DEF OutputInv

(* The line a reader holds is a line.                                      *)
LEMMA CurrentIs ==
  ASSUME OutputInv, NEW s \in Streams, rpc[s] \in {"append", "output"}
  PROVE  Current(s) \in Line
<1>1. taken[s] \in 1..MaxWrites
  BY OutputAssumption DEF OutputInv, OutputTypeOK, ReaderInv
<1> QED
  BY <1>1 DEF Current, Line

LEMMA ChannelFits ==
  ASSUME OutputInv, NEW v \in Viewers, NEW e \in Line, Fits(v)
  PROVE  Append(channel[v], e) \in Seq(Line) /\ Len(Append(channel[v], e)) <= SendCap
<1>1. channel[v] \in Seq(Line)
  BY DEF OutputInv, OutputTypeOK
<1>2. Len(Append(channel[v], e)) = Len(channel[v]) + 1 /\ Len(channel[v]) \in Nat
      /\ Append(channel[v], e) \in Seq(Line)
  BY <1>1, AppendIs
<1> QED
  BY <1>2, OutputAssumption DEF Fits

LEMMA OutputInvNext == OutputInv /\ [OutputNext]_outputVars => OutputInv'
<1> SUFFICES ASSUME OutputInv, [OutputNext]_outputVars PROVE OutputInv'
  OBVIOUS
<1>0. OutputTypeOK /\ ReaderInv /\ RingInv /\ all \in Seq(Line)
      /\ SendCap \in Nat \ {0} /\ MaxWrites \in Nat /\ MaxSelects \in Nat
  BY OutputAssumption DEF OutputInv, OutputTypeOK
<1>1. ASSUME NEW s \in Streams, Write(s) PROVE OutputInv'
  BY <1>0, <1>1 DEF Write, OutputInv, OutputTypeOK, ReaderInv, RingInv, Slot, viewer, wire
<1>2. CASE Reap
  BY <1>0, <1>2 DEF Reap, OutputInv, OutputTypeOK, ReaderInv, RingInv, Slot, viewer, wire
<1>3. ASSUME NEW s \in Streams, Read(s) PROVE OutputInv'
  BY <1>0, <1>3 DEF Read, OutputInv, OutputTypeOK, ReaderInv, RingInv, Slot, viewer, wire, process
<1>4. ASSUME NEW s \in Streams, EndRead(s) PROVE OutputInv'
  BY <1>0, <1>4 DEF EndRead, OutputInv, OutputTypeOK, ReaderInv, RingInv, Slot, viewer, wire, process
<1>5. ASSUME NEW s \in Streams, AppendLine(s) PROVE OutputInv'
  <2>1. /\ rpc[s] = "append" /\ rpc' = [rpc EXCEPT ![s] = "output"]
        /\ ring' = Appended(ring, Current(s)) /\ all' = Append(all, Current(s))
        /\ UNCHANGED <<phase, written, taken, watching, vpc, snapshot, selects, evicted, channel,
                       got, dropped>>
    BY <1>5 DEF AppendLine, viewer, wire, process
  <2>2. Current(s) \in Line
    BY <2>1, CurrentIs
  <2>3. RingInv'
    BY <1>0, <2>1, <2>2, RingNext
  <2>4. all' \in Seq(Line)
    BY <1>0, <2>1, <2>2, AppendIs
  <2>5. ReaderInv'
    BY <1>0, <2>1 DEF ReaderInv, OutputTypeOK
  <2>6. ring'.start \in 0..(Cap - 1) /\ ring'.count \in 0..Cap
    BY <2>3, <2>4, LenProperties, CapAssumption DEF RingInv
  <2>7. OutputTypeOK'
    BY <1>0, <2>1, <2>4, <2>6 DEF OutputTypeOK
  <2> QED
    BY <2>3, <2>5, <2>7 DEF OutputInv
<1>6. ASSUME NEW s \in Streams, OnOutput(s) PROVE OutputInv'
  <2>1. /\ rpc[s] = "output" /\ rpc' = [rpc EXCEPT ![s] = "read"]
        /\ channel' = [v \in Viewers |-> IF Listening(v) /\ Fits(v)
                                         THEN Append(channel[v], Current(s)) ELSE channel[v]]
        /\ UNCHANGED <<phase, written, taken, ring, watching, vpc, snapshot, selects, evicted,
                       got, all>>
    BY <1>6 DEF OnOutput, viewer, process
  <2>2. Current(s) \in Line
    BY <2>1, CurrentIs
  <2>3. ASSUME NEW v \in Viewers PROVE channel'[v] \in Seq(Line) /\ Len(channel'[v]) <= SendCap
    <3>1. CASE Listening(v) /\ Fits(v)
      BY <2>1, <2>2, <3>1, ChannelFits
    <3>2. CASE ~(Listening(v) /\ Fits(v))
      BY <1>0, <2>1, <3>2 DEF OutputTypeOK
    <3> QED
      BY <3>1, <3>2
  <2>4. channel' \in [Viewers -> Seq(Line)]
    BY <2>1, <2>3
  <2>5. dropped' \in [Viewers -> BOOLEAN]
    BY <1>0, <1>6 DEF OnOutput, Listening, Fits, OutputTypeOK
  <2>6. OutputTypeOK'
    BY <1>0, <2>1, <2>3, <2>4, <2>5 DEF OutputTypeOK
  <2>7. ReaderInv' /\ RingInv'
    BY <1>0, <2>1 DEF ReaderInv, OutputTypeOK, RingInv, Slot
  <2> QED
    BY <2>6, <2>7 DEF OutputInv
<1>7. ASSUME NEW v \in Viewers, Select(v) PROVE OutputInv'
  <2>1. OutputTypeOK'
    BY <1>0, <1>7 DEF Select, OutputTypeOK, wire, process
  <2>2. ReaderInv' /\ RingInv'
    BY <1>0, <1>7 DEF Select, ReaderInv, RingInv, Slot, wire, process
  <2> QED
    BY <2>1, <2>2 DEF OutputInv
<1>8. ASSUME NEW v \in Viewers, Leave(v) PROVE OutputInv'
  <2>1. OutputTypeOK'
    BY <1>0, <1>8 DEF Leave, OutputTypeOK, wire, process
  <2>2. ReaderInv' /\ RingInv'
    BY <1>0, <1>8 DEF Leave, ReaderInv, RingInv, Slot, wire, process
  <2> QED
    BY <2>1, <2>2 DEF OutputInv
<1>9. ASSUME NEW v \in Viewers, FetchHistory(v) PROVE OutputInv'
  <2>1. LinesOf(ring) \in Seq(Line)
    BY <1>0, LinesIs
  <2>2. /\ snapshot' \in [Viewers -> Seq(Line)]
        /\ vpc' \in [Viewers -> {"ready", "lookup", "history"}]
        /\ UNCHANGED <<phase, written, taken, rpc, ring, watching, selects, channel, got,
                       dropped, all>>
    BY <1>0, <1>9, <2>1 DEF FetchHistory, OutputTypeOK, wire, process
  <2>3. evicted' \in [Viewers -> Nat]
    <3>1. Len(all) \in Nat /\ Len(all) - ring.count \in Nat
      BY <1>0, CapAssumption, LenProperties DEF RingInv
    <3> QED
      BY <1>0, <1>9, <3>1 DEF FetchHistory, OutputTypeOK
  <2> QED
    BY <1>0, <2>2, <2>3 DEF OutputInv, OutputTypeOK, ReaderInv, RingInv, Slot
<1>10. ASSUME NEW v \in Viewers, SendHistory(v) PROVE OutputInv'
  <2>0. UNCHANGED <<phase, written, taken, rpc, ring, watching, selects, evicted, got, all>>
    BY <1>10 DEF SendHistory, process
  <2>1. CASE snapshot[v] = <<>>
    <3>1. /\ vpc' \in [Viewers -> {"ready", "lookup", "history"}]
          /\ UNCHANGED <<snapshot, channel, dropped>>
      BY <1>0, <1>10, <2>1 DEF SendHistory, OutputTypeOK
    <3> QED
      BY <1>0, <2>0, <3>1 DEF OutputInv, OutputTypeOK, ReaderInv, RingInv, Slot
  <2>2. CASE snapshot[v] # <<>>
    <3>1. /\ snapshot' = [snapshot EXCEPT ![v] = Tail(@)] /\ vpc' = vpc
          /\ channel' = IF Fits(v) THEN [channel EXCEPT ![v] = Append(@, Head(snapshot[v]))]
                                   ELSE channel
      BY <1>10, <2>2 DEF SendHistory
    <3>2. snapshot[v] \in Seq(Line)
      BY <1>0 DEF OutputTypeOK
    <3>3. Tail(snapshot[v]) \in Seq(Line) /\ Head(snapshot[v]) \in Line
      BY <2>2, <3>2, TailOn
    <3>4. snapshot' \in [Viewers -> Seq(Line)]
      BY <1>0, <3>1, <3>3 DEF OutputTypeOK
    <3>5. channel' \in [Viewers -> Seq(Line)] /\ \A u \in Viewers : Len(channel'[u]) <= SendCap
      <4>1. CASE Fits(v)
        <5>1. Append(channel[v], Head(snapshot[v])) \in Seq(Line)
              /\ Len(Append(channel[v], Head(snapshot[v]))) <= SendCap
          BY <3>3, <4>1, ChannelFits
        <5> QED
          BY <1>0, <3>1, <4>1, <5>1 DEF OutputTypeOK
      <4>2. CASE ~Fits(v)
        BY <1>0, <3>1, <4>2 DEF OutputTypeOK
      <4> QED
        BY <4>1, <4>2
    <3>6. dropped' \in [Viewers -> BOOLEAN]
      BY <1>0, <1>10, <2>2 DEF SendHistory, Fits, OutputTypeOK
    <3>7. OutputTypeOK'
      BY <1>0, <2>0, <3>1, <3>4, <3>5, <3>6 DEF OutputTypeOK
    <3>8. ReaderInv' /\ RingInv'
      BY <1>0, <2>0 DEF ReaderInv, RingInv, Slot
    <3> QED
      BY <3>7, <3>8 DEF OutputInv
  <2> QED
    BY <2>1, <2>2
<1>11. ASSUME NEW v \in Viewers, Deliver(v) PROVE OutputInv'
  <2>1. /\ channel[v] # <<>> /\ got' = [got EXCEPT ![v] = @ \cup {Head(channel[v])}]
        /\ channel' = [channel EXCEPT ![v] = Tail(@)]
        /\ UNCHANGED <<phase, written, taken, rpc, ring, watching, vpc, snapshot, selects, evicted,
                       dropped, all>>
    BY <1>11 DEF Deliver, viewer, process
  <2>2. channel[v] \in Seq(Line) /\ Len(channel[v]) <= SendCap
    BY <1>0 DEF OutputTypeOK
  <2>3. Tail(channel[v]) \in Seq(Line) /\ Head(channel[v]) \in Line /\ Len(channel[v]) \in Nat
        /\ Len(Tail(channel[v])) = Len(channel[v]) - 1
    BY <2>1, <2>2, TailOn
  <2>4. Len(Tail(channel[v])) <= SendCap
    BY <1>0, <2>2, <2>3
  <2>5. channel' \in [Viewers -> Seq(Line)] /\ \A u \in Viewers : Len(channel'[u]) <= SendCap
    BY <1>0, <2>1, <2>3, <2>4 DEF OutputTypeOK
  <2>6. got' \in [Viewers -> SUBSET Line]
    BY <1>0, <2>1, <2>3 DEF OutputTypeOK
  <2> QED
    BY <1>0, <2>1, <2>5, <2>6 DEF OutputInv, OutputTypeOK, ReaderInv, RingInv, Slot
<1>12. CASE UNCHANGED outputVars
  BY <1>0, <1>12 DEF outputVars, OutputInv, OutputTypeOK, ReaderInv, RingInv, Slot
<1> QED
  BY <1>1, <1>2, <1>3, <1>4, <1>5, <1>6, <1>7, <1>8, <1>9, <1>10, <1>11, <1>12
     DEF OutputNext, ReaderStep, HandlerStep, Terminating

(* Every variable of the output stays in its type: no channel is           *)
(* overfilled and the buffer never points outside its array.               *)
THEOREM OutputTypeCorrect == OutputSpec => []OutputTypeOK
<1>1. OutputInv => OutputTypeOK
  BY DEF OutputInv
<1> QED
  BY <1>1, OutputInvInit, OutputInvNext, PTL DEF OutputSpec

(* For every capacity and however often the array has wrapped around, the  *)
(* buffer holds the last lines appended, and Tail and Lines return them in *)
(* their order.                                                            *)
THEOREM BufferIsTailCorrect == OutputSpec => []BufferIsTail
<1>1. OutputInv => BufferIsTail
  <2> SUFFICES ASSUME OutputInv PROVE BufferIsTail
    OBVIOUS
  <2> DEFINE kept == IF Len(all) < Cap THEN Len(all) ELSE Cap
  <2>1. RingInv /\ all \in Seq(Line) /\ ring.count = kept
    BY DEF OutputInv, OutputTypeOK, RingInv
  <2>2. LinesOf(ring) = LastOf(all, kept)
    BY <2>1, LinesIs
  <2>3. ASSUME NEW n \in 0..(Cap + 1)
        PROVE  TailOf(ring, n) = LastOf(all, IF n < kept THEN n ELSE kept)
    <3>1. TailOf(ring, n) = LastOf(all, IF n > ring.count THEN ring.count ELSE n)
      BY <2>1, TailIs
    <3>2. (IF n > ring.count THEN ring.count ELSE n) = IF n < kept THEN n ELSE kept
      <4>1. kept \in Nat
        BY <2>1, CapAssumption, LenProperties
      <4> HIDE DEF kept
      <4> QED
        BY <2>1, <4>1
    <3> QED
      BY <3>1, <3>2
  <2> QED
    BY <2>2, <2>3 DEF BufferIsTail
<1> QED
  BY <1>1, OutputInvInit, OutputInvNext, PTL DEF OutputSpec

-----------------------------------------------------------------------------
(* What is on its way to a viewer.                                         *)

LEMMA ReachInit == OutputInit => ReachInv
<1> SUFFICES ASSUME OutputInit PROVE ReachInv
  OBVIOUS
<1>1. Len(all) = 0
  BY EmptySeq DEF OutputInit
<1> QED
  BY <1>1 DEF OutputInit, ReachInv, Follows

(* A step that appends no line and starts no viewer's history, and after   *)
(* which what reached a viewer still does.                                 *)
LEMMA StillReaches ==
  ASSUME ReachInv, NEW v \in Viewers, UNCHANGED <<all, evicted>>,
         vpc'[v] # "history" => snapshot'[v] = <<>>,
         Follows(v)' => Follows(v),
         \A e : Follows(v)' /\ Reaches(v, e) => Reaches(v, e)'
  PROVE  /\ vpc'[v] # "history" => snapshot'[v] = <<>>
         /\ evicted'[v] \in Nat
         /\ Follows(v)' => \A n \in (evicted'[v] + 1)..Len(all') : Reaches(v, all[n])'
BY DEF ReachInv

LEMMA ReachNext == OutputInv /\ ReachInv /\ [OutputNext]_outputVars => ReachInv'
<1> SUFFICES ASSUME OutputInv, ReachInv, [OutputNext]_outputVars PROVE ReachInv'
  OBVIOUS
<1>0. OutputTypeOK /\ RingInv /\ all \in Seq(Line) /\ Len(all) \in Nat
      /\ \A v \in Viewers : channel[v] \in Seq(Line) /\ snapshot[v] \in Seq(Line)
  BY LenProperties DEF OutputInv, OutputTypeOK
<1> DEFINE Good(v) ==
             /\ vpc'[v] # "history" => snapshot'[v] = <<>>
             /\ evicted'[v] \in Nat
             /\ Follows(v)' => \A n \in (evicted'[v] + 1)..Len(all') : Reaches(v, all[n])'
<1>e. (\A v \in Viewers : Good(v)) => ReachInv'
  BY DEF ReachInv
<1>1. CASE /\ UNCHANGED <<taken, watching, vpc, snapshot, evicted, channel, got, dropped, all>>
           /\ \A s \in Streams : rpc[s] = "output" => rpc'[s] = "output"
  BY <1>1 DEF ReachInv, Follows, Reaches, Pending, Current, On
<1>2. ASSUME NEW s \in Streams, Write(s) \/ EndRead(s) PROVE ReachInv'
  BY <1>0, <1>1, <1>2 DEF Write, EndRead, viewer, wire, process, OutputTypeOK
<1>3. CASE Reap \/ UNCHANGED outputVars
  BY <1>1, <1>3 DEF Reap, viewer, wire, outputVars
<1>4. ASSUME NEW s \in Streams, Read(s) PROVE ReachInv'
  <2>1. /\ rpc[s] = "read" /\ taken' = [taken EXCEPT ![s] = @ + 1]
        /\ rpc' = [rpc EXCEPT ![s] = "append"]
        /\ UNCHANGED <<watching, vpc, snapshot, evicted, channel, got, dropped, all>>
    BY <1>4 DEF Read, viewer, wire
  <2>2. ASSUME NEW e, Pending(e) PROVE Pending(e)'
    BY <1>0, <2>1, <2>2 DEF Pending, Current, OutputTypeOK
  <2>3. ASSUME NEW v \in Viewers PROVE Good(v)
    <3>1. \A e : Reaches(v, e) => Reaches(v, e)'
      BY <2>1, <2>2 DEF Reaches, On
    <3> QED
      BY <2>1, <3>1 DEF ReachInv, Follows
  <2> QED
    BY <2>3, <1>e
<1>5. ASSUME NEW s \in Streams, AppendLine(s) PROVE ReachInv'
  <2>1. /\ rpc[s] = "append" /\ rpc' = [rpc EXCEPT ![s] = "output"]
        /\ all' = Append(all, Current(s))
        /\ UNCHANGED <<taken, watching, vpc, snapshot, evicted, channel, got, dropped>>
    BY <1>5 DEF AppendLine, viewer, wire, process
  <2>2. Current(s) \in Line
    BY <2>1, CurrentIs
  <2>3. /\ Len(all') = Len(all) + 1 /\ all'[Len(all) + 1] = Current(s)
        /\ \A n \in 1..Len(all) : all'[n] = all[n]
    BY <1>0, <2>1, <2>2, AppendIs
  <2>4. Pending(Current(s))' /\ \A e : Pending(e) => Pending(e)'
    BY <1>0, <2>1 DEF Pending, Current, OutputTypeOK
  <2>5. ASSUME NEW v \in Viewers PROVE Good(v)
    <3>1. \A e : Reaches(v, e) => Reaches(v, e)'
      BY <2>1, <2>4 DEF Reaches, On
    <3>2. ASSUME Follows(v)', NEW n \in (evicted'[v] + 1)..Len(all') PROVE Reaches(v, all[n])'
      <4>1. evicted[v] \in Nat /\ evicted' = evicted /\ Follows(v)
        BY <2>1, <3>2 DEF ReachInv, Follows
      <4>2. CASE n = Len(all) + 1
        BY <2>1, <2>3, <2>4, <4>2 DEF Reaches, Current
      <4>3. CASE n # Len(all) + 1
        <5>1. n \in (evicted[v] + 1)..Len(all) /\ n \in 1..Len(all)
          BY <1>0, <2>3, <3>2, <4>1, <4>3
        <5>2. Reaches(v, all[n]) /\ all'[n] = all[n]
          BY <2>3, <4>1, <5>1 DEF ReachInv
        <5> QED
          BY <3>1, <5>2
      <4> QED
        BY <4>2, <4>3
    <3> QED
      BY <2>1, <3>2 DEF ReachInv
  <2> QED
    BY <2>5, <1>e
<1>6. ASSUME NEW s \in Streams, OnOutput(s) PROVE ReachInv'
  <2>1. /\ rpc[s] = "output" /\ rpc' = [rpc EXCEPT ![s] = "read"]
        /\ channel' = [v \in Viewers |-> IF Listening(v) /\ Fits(v)
                                         THEN Append(channel[v], Current(s)) ELSE channel[v]]
        /\ dropped' = [v \in Viewers |-> dropped[v] \/ (Listening(v) /\ ~Fits(v))]
        /\ UNCHANGED <<taken, watching, vpc, snapshot, evicted, got, all>>
    BY <1>6 DEF OnOutput, viewer, process
  <2>2. Current(s) \in Line
    BY <2>1, CurrentIs
  <2>3. ASSUME NEW e, Pending(e), e # Current(s) PROVE Pending(e)'
    BY <1>0, <2>1, <2>3 DEF Pending, Current, OutputTypeOK
  <2>4. ASSUME NEW v \in Viewers PROVE Good(v)
    <3>1. Follows(v)' => Follows(v) /\ channel'[v] = Append(channel[v], Current(s))
      BY <2>1 DEF Follows, Listening
    <3>2. ASSUME Follows(v)', NEW e, Reaches(v, e) PROVE Reaches(v, e)'
      <4>1. On(channel'[v], e) <=> On(channel[v], e) \/ e = Current(s)
        <5>1. On(Append(channel[v], Current(s)), e) <=> On(channel[v], e) \/ e = Current(s)
          BY <1>0, <2>2, AppendIs
        <5> QED
          BY <3>1, <3>2, <5>1
      <4>2. On(channel[v], e)' <=> On(channel'[v], e)
        BY DEF On
      <4>3. (e \in got[v] => e \in got'[v]) /\ (On(snapshot[v], e) => On(snapshot[v], e)')
        BY <2>1 DEF On
      <4> QED
        BY <2>3, <3>2, <4>1, <4>2, <4>3 DEF Reaches
    <3> QED
      BY <2>1, <3>1, <3>2, StillReaches DEF ReachInv
  <2> QED
    BY <2>4, <1>e
<1>7. ASSUME NEW u \in Viewers, Select(u) \/ Leave(u) PROVE ReachInv'
  <2>1. UNCHANGED <<taken, rpc, snapshot, evicted, channel, got, dropped, all>>
    BY <1>7 DEF Select, Leave, wire
  <2>2. ASSUME NEW v \in Viewers PROVE Good(v)
    <3>1. (Follows(v)' => Follows(v)) /\ (vpc'[v] # "history" => snapshot'[v] = <<>>)
      BY <1>0, <1>7 DEF Select, Leave, wire, Follows, ReachInv, OutputTypeOK
    <3>2. \A e : Reaches(v, e) => Reaches(v, e)'
      BY <2>1 DEF Reaches, On, Pending, Current
    <3> QED
      BY <2>1, <3>1, <3>2, StillReaches
  <2> QED
    BY <2>2, <1>e
<1>8. ASSUME NEW u \in Viewers, FetchHistory(u) PROVE ReachInv'
  <2>1. vpc[u] = "lookup" /\ UNCHANGED <<taken, rpc, watching, channel, got, dropped, all>>
    BY <1>8 DEF FetchHistory, wire
  <2>2. ASSUME NEW v \in Viewers, v # u PROVE Good(v)
    <3>1. vpc'[v] = vpc[v] /\ snapshot'[v] = snapshot[v] /\ evicted'[v] = evicted[v]
      BY <1>0, <1>8, <2>2 DEF FetchHistory, OutputTypeOK
    <3>2. \A e : Reaches(v, e) => Reaches(v, e)'
      BY <2>1, <3>1 DEF Reaches, On, Pending, Current
    <3> QED
      BY <2>1, <3>1, <3>2 DEF ReachInv, Follows
  <2>3. CASE phase = "swept"
    <3>1. vpc'[u] = "ready" /\ snapshot' = snapshot /\ evicted'[u] = Len(all)
      BY <1>0, <1>8, <2>3 DEF FetchHistory, OutputTypeOK
    <3>2. snapshot[u] = <<>> /\ \A n \in (Len(all) + 1)..Len(all) : FALSE
      BY <1>0, <2>1 DEF ReachInv
    <3> QED
      BY <1>0, <2>1, <2>2, <3>1, <3>2, <1>e
  <2>4. CASE phase # "swept"
    <3>1. vpc'[u] = "history" /\ snapshot'[u] = LinesOf(ring) /\ evicted'[u] = Len(all) - ring.count
      BY <1>0, <1>8, <2>4 DEF FetchHistory, OutputTypeOK
    <3>2. ring.count \in 0..Len(all)
      BY <1>0, CapAssumption DEF RingInv
    <3>3. ASSUME NEW n \in (evicted'[u] + 1)..Len(all) PROVE On(snapshot[u], all[n])'
      <4>1. n - evicted'[u] \in 1..ring.count /\ Len(all) - ring.count + (n - evicted'[u]) = n
        <5> DEFINE e == evicted'[u]
                   c == ring.count
                   l == Len(all)
        <5>1. e = l - c /\ c \in 0..l /\ l \in Nat /\ n \in (e + 1)..l
          BY <1>0, <3>1, <3>2
        <5> HIDE DEF e, c, l
        <5>2. n - e \in 1..c /\ l - c + (n - e) = n
          BY <5>1
        <5> QED
          BY <5>2 DEF e, c, l
      <4>2. LinesOf(ring)[n - evicted'[u]] = all[n] /\ Len(LinesOf(ring)) = ring.count
        BY <1>0, <3>2, <4>1 DEF LinesOf, RingInv, Slot
      <4> QED
        BY <2>1, <3>1, <4>1, <4>2 DEF On
    <3> QED
      BY <1>0, <2>1, <2>2, <3>1, <3>2, <3>3, <1>e DEF Reaches
  <2> QED
    BY <2>3, <2>4
<1>9. ASSUME NEW u \in Viewers, SendHistory(u) PROVE ReachInv'
  <2>1. vpc[u] = "history" /\ UNCHANGED <<taken, rpc, watching, evicted, got, all>>
    BY <1>9 DEF SendHistory
  <2>2. CASE snapshot[u] = <<>>
    <3>1. vpc' = [vpc EXCEPT ![u] = "ready"] /\ UNCHANGED <<snapshot, channel, dropped>>
      BY <1>9, <2>2 DEF SendHistory
    <3>2. ASSUME NEW v \in Viewers PROVE Good(v)
      <4>1. (Follows(v)' => Follows(v)) /\ (vpc'[v] # "history" => snapshot'[v] = <<>>)
        BY <1>0, <2>1, <2>2, <3>1 DEF Follows, ReachInv, OutputTypeOK
      <4>2. \A e : Reaches(v, e) => Reaches(v, e)'
        BY <2>1, <3>1 DEF Reaches, On, Pending, Current
      <4> QED
        BY <2>1, <4>1, <4>2, StillReaches
    <3> QED
      BY <3>2, <1>e
  <2>3. CASE snapshot[u] # <<>>
    <3> DEFINE h == Head(snapshot[u])
    <3>1. /\ vpc' = vpc /\ snapshot' = [snapshot EXCEPT ![u] = Tail(@)]
          /\ channel' = IF Fits(u) THEN [channel EXCEPT ![u] = Append(@, h)] ELSE channel
          /\ dropped' = [dropped EXCEPT ![u] = @ \/ ~Fits(u)]
      BY <1>9, <2>3 DEF SendHistory
    <3>2. h \in Line /\ \A e : On(snapshot[u], e) => e = h \/ On(Tail(snapshot[u]), e)
      BY <1>0, <2>3, TailOn
    <3> HIDE DEF h
    <3>3. dropped \in [Viewers -> BOOLEAN]
      BY <1>0 DEF OutputTypeOK
    <3>4. ASSUME NEW v \in Viewers, v # u PROVE Good(v)
      <4>1. snapshot'[v] = snapshot[v] /\ channel'[v] = channel[v] /\ dropped'[v] = dropped[v]
        BY <1>0, <3>1, <3>3, <3>4 DEF OutputTypeOK
      <4>2. \A e : Reaches(v, e) => Reaches(v, e)'
        BY <2>1, <4>1 DEF Reaches, On, Pending, Current
      <4>3. Follows(v)' => Follows(v)
        BY <2>1, <3>1, <4>1 DEF Follows
      <4> QED
        BY <2>1, <3>1, <4>1, <4>2, <4>3, StillReaches DEF ReachInv
    <3>5. Good(u)
      <4>1. Follows(u)' => Follows(u) /\ Fits(u)
        BY <2>1, <3>1, <3>3 DEF Follows
      <4>2. ASSUME Follows(u)', NEW e, Reaches(u, e) PROVE Reaches(u, e)'
        <5>1. channel'[u] = Append(channel[u], h) /\ snapshot'[u] = Tail(snapshot[u])
          BY <1>0, <3>1, <4>1, <4>2 DEF OutputTypeOK
        <5>2. On(channel'[u], e) <=> On(channel[u], e) \/ e = h
          BY <1>0, <3>2, <5>1, AppendIs
        <5>3. /\ On(channel[u], e)' <=> On(channel'[u], e)
              /\ On(snapshot[u], e)' <=> On(Tail(snapshot[u]), e)
          BY <5>1 DEF On
        <5>4. (e \in got[u] => e \in got'[u]) /\ (Pending(e) => Pending(e)')
          BY <2>1 DEF Pending, Current
        <5> QED
          BY <3>2, <4>2, <5>2, <5>3, <5>4 DEF Reaches
      <4> QED
        BY <2>1, <3>1, <4>1, <4>2, StillReaches
    <3> QED
      BY <3>4, <3>5, <1>e
  <2> QED
    BY <2>2, <2>3
<1>10. ASSUME NEW u \in Viewers, Deliver(u) PROVE ReachInv'
  <2>1. /\ channel[u] # <<>> /\ got' = [got EXCEPT ![u] = @ \cup {Head(channel[u])}]
        /\ channel' = [channel EXCEPT ![u] = Tail(@)]
        /\ UNCHANGED <<taken, rpc, watching, vpc, snapshot, evicted, dropped, all>>
    BY <1>10 DEF Deliver, viewer
  <2>2. \A e : On(channel[u], e) => e = Head(channel[u]) \/ On(Tail(channel[u]), e)
    BY <1>0, <2>1, TailOn
  <2>3. ASSUME NEW v \in Viewers PROVE Good(v)
    <3>1. ASSUME NEW e, Reaches(v, e) PROVE Reaches(v, e)'
      <4>1. (On(snapshot[v], e) => On(snapshot[v], e)') /\ (Pending(e) => Pending(e)')
            /\ (e \in got[v] => e \in got'[v])
        BY <1>0, <2>1 DEF On, Pending, Current, OutputTypeOK
      <4>2. On(channel[v], e)' <=> On(channel'[v], e)
        BY DEF On
      <4>3. On(channel[v], e) => On(channel'[v], e) \/ e \in got'[v]
        BY <1>0, <2>1, <2>2 DEF OutputTypeOK
      <4> QED
        BY <3>1, <4>1, <4>2, <4>3 DEF Reaches
    <3> QED
      BY <2>1, <3>1, StillReaches DEF ReachInv, Follows
  <2> QED
    BY <2>3, <1>e
<1> QED
  BY <1>2, <1>3, <1>4, <1>5, <1>6, <1>7, <1>8, <1>9, <1>10
     DEF OutputNext, ReaderStep, HandlerStep, Terminating

(* However a viewer's subscription interleaves with the readers, no line   *)
(* falls between its history and its live output.                          *)
THEOREM NothingMissedCorrect == OutputSpec => []NothingMissed
<1>1. OutputInv /\ ReachInv => NothingMissed
  <2> SUFFICES ASSUME OutputInv, ReachInv, NEW v \in Viewers,
                      v \in watching, vpc[v] = "ready", ~dropped[v],
                      NEW n \in (evicted[v] + 1)..Len(all)
               PROVE  \/ all[n] \in got[v]
                      \/ \E i \in 1..Len(channel[v]) : channel[v][i] = all[n]
                      \/ \E s \in Streams : rpc[s] = "output" /\ Current(s) = all[n]
    BY DEF NothingMissed
  <2>1. snapshot[v] = <<>> /\ Reaches(v, all[n])
    BY DEF ReachInv, Follows
  <2>2. ~On(snapshot[v], all[n])
    BY <2>1, EmptySeq DEF On
  <2> QED
    BY <2>1, <2>2 DEF Reaches, On, Pending
<1> QED
  BY <1>1, OutputInvInit, OutputInvNext, ReachInit, ReachNext, PTL DEF OutputSpec
=============================================================================
