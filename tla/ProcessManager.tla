--------------------------- MODULE ProcessManager ---------------------------
(***************************************************************************)
(* Background processes (api/process.go): which ones the manager lists,    *)
(* how they are started within limits, waited for, stopped with SIGTERM    *)
(* and SIGKILL, and swept out of the map after they have exited.           *)
(*                                                                         *)
(* A step is one critical section of pm.mu or sess.mu, one signal, or one  *)
(* event of the operating system.  A process ID is a fresh uuid, so a      *)
(* process is started once; starting the command itself does not fail.     *)
(***************************************************************************)
EXTENDS Naturals, FiniteSets

CONSTANTS
  Procs,          \* process IDs
  Projects,       \* project IDs
  ProjectOf,      \* the project each process is started for
  Group,          \* who can be in a process group: "bash" and what it starts
  Stoppers,       \* goroutines that execute Stop or StopAll
  MaxGlobal,      \* maxProcessesGlobal (50)
  MaxPerProject,  \* maxProcessesPerProject (10)
  NoProc          \* no process

ASSUME ProjectOfAssumption == ProjectOf \in [Procs -> Projects]
ASSUME LimitsAssumption    == MaxGlobal \in Nat /\ MaxPerProject \in Nat
ASSUME GroupAssumption     == "bash" \in Group
ASSUME FiniteAssumption    == IsFiniteSet(Procs)
ASSUME NoProcAssumption    == NoProc \notin Procs

VARIABLES
  listed,   \* the keys of pm.sessions
  members,  \* who is alive in the process group: bash, what bash started
  waiter,   \* where the goroutine in cmd.Wait is
  stopped,  \* sess.stopped
  old,      \* exitedAt is longer ago than the retention period
  doomed,   \* toDelete of a Cleanup that is between its critical sections
  pc,       \* where each stopper is
  target,   \* the session it is stopping
  todo      \* the IDs it has still to call Stop with

sessions == <<listed, waiter, stopped, old, doomed>>
stopper  == <<pc, target, todo>>
vars     == <<listed, members, waiter, stopped, old, doomed, pc, target, todo>>

Init ==
  /\ listed  = {} /\ stopped = {} /\ old = {} /\ doomed = {}
  /\ members = [p \in Procs |-> {}]
  /\ waiter  = [p \in Procs |-> "none"]
  /\ pc      = [k \in Stoppers |-> "idle"]
  /\ target  = [k \in Stoppers |-> NoProc]
  /\ todo    = [k \in Stoppers |-> {}]

(* sess.exitCode is set between the return of cmd.Wait and the close of    *)
(* sess.done.                                                              *)
Exited(p) == waiter[p] \in {"close", "over"}
Done(p)   == waiter[p] = "over"
Runs(p)   == "bash" \in members[p]

(* What info tells of a process.                                           *)
Status(p) == IF p \in stopped THEN "stopped" ELSE IF Exited(p) THEN "exited" ELSE "running"

-----------------------------------------------------------------------------
(* Start.                                                                  *)

(* The sessions that count: those without an exit code.  Mutant: those     *)
(* that nobody has stopped.                                                *)
CountedUnlessStopped == {p \in listed : ~Exited(p) /\ p \notin stopped}
Counted              == {p \in listed : ~Exited(p)}

Start(p) ==
  /\ waiter[p] = "none"
  /\ Cardinality(Counted) < MaxGlobal
  /\ Cardinality({q \in Counted : ProjectOf[q] = ProjectOf[p]}) < MaxPerProject
  /\ listed'  = listed \cup {p}
  /\ members' = [members EXCEPT ![p] = {"bash"}]
  /\ waiter'  = [waiter EXCEPT ![p] = "wait"]
  /\ UNCHANGED <<stopped, old, doomed, stopper>>

-----------------------------------------------------------------------------
(* The operating system: members of the group start others, and end.       *)

Fork(p, m) ==
  /\ members[p] # {} /\ m # "bash"
  /\ members' = [members EXCEPT ![p] = @ \cup {m}]
  /\ UNCHANGED <<sessions, stopper>>

End(p, m) ==
  /\ m \in members[p]
  /\ members' = [members EXCEPT ![p] = @ \ {m}]
  /\ UNCHANGED <<sessions, stopper>>

-----------------------------------------------------------------------------
(* The goroutine that waits: cmd.Wait returns, the exit code is set, done  *)
(* is closed and the exit is broadcast.                                    *)

Wait(p) ==
  /\ \/ waiter[p] = "wait" /\ ~Runs(p) /\ waiter' = [waiter EXCEPT ![p] = "set"]
     \/ waiter[p] = "set"   /\ waiter' = [waiter EXCEPT ![p] = "close"]
     \/ waiter[p] = "close" /\ waiter' = [waiter EXCEPT ![p] = "over"]
  /\ UNCHANGED <<listed, members, stopped, old, doomed, stopper>>

-----------------------------------------------------------------------------
(* Stop and StopAll.                                                       *)

Moved(k, to) == pc' = [pc EXCEPT ![k] = to]

(* A client asks for an ID it was told, which may have left the map since; *)
(* the REST API looks before it starts a Stop; the timer of a process that *)
(* has run for a day asks for its own.                                     *)
RequestStop(k) ==
  /\ pc[k] = "idle"
  /\ \E p \in Procs : waiter[p] # "none" /\ todo' = [todo EXCEPT ![k] = {p}]
  /\ Moved(k, "next")
  /\ UNCHANGED <<sessions, members, target>>

(* deleteProject calls StopAll, which collects the IDs and lets pm.mu go.  *)
RequestStopAll(k) ==
  /\ pc[k] = "idle"
  /\ \E j \in Projects :
       todo' = [todo EXCEPT ![k] = {p \in listed : ProjectOf[p] = j}]
  /\ Moved(k, "next")
  /\ UNCHANGED <<sessions, members, target>>

Lookup(k) ==
  /\ pc[k] = "next"
  /\ \E p \in todo[k] :
       /\ todo' = [todo EXCEPT ![k] = @ \ {p}]
       /\ \/ /\ p \in listed
             /\ target' = [target EXCEPT ![k] = p]
             /\ Moved(k, "flag")
          \/ p \notin listed /\ UNCHANGED <<target, pc>>
  /\ UNCHANGED <<sessions, members>>

(* Stop of target returns.                                                 *)
StopReturns(k) ==
  /\ target' = [target EXCEPT ![k] = NoProc]
  /\ Moved(k, "next")

(* Under sess.mu, which the waiting goroutine takes to set the exit code.  *)
(* Mutant: done is looked at instead.                                      *)
StopsUnlessDone(p)   == ~Done(p)
StopsUnlessExited(p) == ~Exited(p)

Flag(k) ==
  LET p == target[k] IN
  /\ pc[k] = "flag"
  /\ \/ ~StopsUnlessExited(p) /\ StopReturns(k) /\ UNCHANGED stopped
     \/ /\ StopsUnlessExited(p)
        /\ stopped' = stopped \cup {p}
        /\ Moved(k, "term")
        /\ UNCHANGED target
  /\ UNCHANGED <<listed, members, waiter, old, doomed, todo>>

(* SIGTERM ends those members that do not ignore it.                       *)
Term(k) ==
  /\ pc[k] = "term"
  /\ \E ignore \in SUBSET members[target[k]] :
       members' = [members EXCEPT ![target[k]] = ignore]
  /\ Moved(k, "await")
  /\ UNCHANGED <<sessions, target, todo>>

(* SIGKILL ends all of them.  Mutant: only SIGTERM is ever sent.           *)
SurvivesAll(p) == members[p]
Survivors(p)   == {}

(* 5 s have passed.  Mutant: there is no such timer.                       *)
NoTimer(k)  == FALSE /\ pc[k] = "await"
TimedOut(k) == pc[k] = "await"

(* done is closed, or the time is over and SIGKILL is sent.                *)
Await(k) ==
  /\ pc[k] = "await"
  /\ \/ Done(target[k]) /\ UNCHANGED members
     \/ /\ TimedOut(k)
        /\ members' = [members EXCEPT ![target[k]] = Survivors(target[k])]
  /\ StopReturns(k)
  /\ UNCHANGED <<sessions, todo>>

Finish(k) ==
  /\ pc[k] = "next" /\ todo[k] = {}
  /\ Moved(k, "idle")
  /\ UNCHANGED <<sessions, members, target, todo>>

StopperStep(k) == Lookup(k) \/ Flag(k) \/ Term(k) \/ Await(k) \/ Finish(k)

-----------------------------------------------------------------------------
(* Cleanup, once a minute.  What it looks at in the sessions one by one    *)
(* never becomes false again: one step stands for the whole inspection.    *)

Age(p) ==
  /\ Exited(p) /\ p \notin old
  /\ old' = old \cup {p}
  /\ UNCHANGED <<listed, members, waiter, stopped, doomed, stopper>>

(* Mutant: a session is outdated once it was stopped.                      *)
StoppedIsOutdated(p) == p \in old \cup stopped
Outdated(p)          == p \in old /\ Exited(p)

Inspect ==
  /\ doomed = {}
  /\ doomed' = {p \in listed : Outdated(p)}
  /\ doomed' # {}
  /\ UNCHANGED <<listed, members, waiter, stopped, old, stopper>>

Sweep ==
  /\ doomed # {}
  /\ listed' = listed \ doomed /\ doomed' = {}
  /\ UNCHANGED <<members, waiter, stopped, old, stopper>>

-----------------------------------------------------------------------------
Next ==
  \/ \E p \in Procs : \/ Start(p) \/ Wait(p) \/ Age(p)
                      \/ \E m \in Group : Fork(p, m) \/ End(p, m)
  \/ \E k \in Stoppers : RequestStop(k) \/ RequestStopAll(k) \/ StopperStep(k)
  \/ Inspect \/ Sweep

Spec == Init /\ [][Next]_vars

(* Goroutines are scheduled and their timers fire.  Nothing is asked of    *)
(* the processes: they may run for ever and ignore SIGTERM.                *)
Fairness ==
  /\ \A p \in Procs : WF_vars(Wait(p))
  /\ \A k \in Stoppers : WF_vars(StopperStep(k))

FairSpec == Spec /\ Fairness

-----------------------------------------------------------------------------
(* Properties.                                                             *)

TypeOK ==
  /\ listed \subseteq Procs /\ stopped \subseteq Procs
  /\ old \subseteq Procs /\ doomed \subseteq Procs
  /\ members \in [Procs -> SUBSET Group]
  /\ waiter \in [Procs -> {"none", "wait", "set", "close", "over"}]
  /\ pc \in [Stoppers -> {"idle", "next", "flag", "term", "await"}]
  /\ target \in [Stoppers -> Procs \cup {NoProc}]
  /\ todo \in [Stoppers -> SUBSET Procs]

Running == {p \in Procs : Runs(p)}

(* The limits bound the processes that run, not only those the map knows:  *)
(* neither a stop under way nor a sweep makes room too early.              *)
WithinLimits ==
  /\ Cardinality(Running) <= MaxGlobal
  /\ \A j \in Projects :
       Cardinality({p \in Running : ProjectOf[p] = j}) <= MaxPerProject

(* A process that runs can be found and stopped: the sweep, which deletes  *)
(* IDs it chose before it took pm.mu again, deletes none that runs.        *)
RunningIsListed == \A p \in Procs : Runs(p) => p \in listed

(* What was once told to have exited or to be stopped stays so: a Stop     *)
(* that comes when bash is gone does not rewrite how it ended.             *)
StatusFinal ==
  [][\A p \in Procs : Status(p) # "running" => Status(p)' = Status(p)]_vars

(* A process that somebody has begun to stop exits, is waited for and      *)
(* reported, whatever it does with SIGTERM.                                *)
StoppedExits == \A p \in Procs : p \in stopped ~> Done(p)

(* Stop and StopAll return, also when two of them stop the same process.   *)
StopEnds == \A k \in Stoppers : pc[k] # "idle" ~> pc[k] = "idle"
=============================================================================
