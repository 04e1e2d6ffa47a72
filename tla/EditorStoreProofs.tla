-------------------------- MODULE EditorStoreProofs --------------------------
(***************************************************************************)
(* Proofs about EditorStore, for any projects and files, any number of     *)
(* requests and any bounds: the variables keep their types, a conflict is  *)
(* shown on a changed tab only, no answer takes the place of typing but in *)
(* the tabs that TypingKept names, a tab shows a text of its own project   *)
(* but where a request was out at the switch, and no tab is out of date    *)
(* without a sign but those that StaleIsKnown names.                       *)
(*                                                                         *)
(* TypingKept is not inductive.  TypingInv adds that a tab with typing has *)
(* its text and counts as changed, so that no reload touches it; that an   *)
(* answer to "open" or to a save may be out for it only if it is one of    *)
(* those TypingKept names; and that the editor, when it is left, takes all *)
(* typing with it.                                                         *)
(*                                                                         *)
(* OwnInv looks at where texts come from: a request for another project    *)
(* than the one open is for a path that was asked for at the switch.       *)
(*                                                                         *)
(* KnownInv looks at what is on its way to a tab: a text that comes with   *)
(* an answer and is not the file's needs a sign as much as the one shown,  *)
(* and a request that is out is a sign as long as it will be answered with *)
(* the file's text; of a file that is gone it will not, so there an event  *)
(* must be on its way.                                                     *)
(***************************************************************************)
EXTENDS EditorStore, TLAPS

EventRec == [project : Projects, action : {"changed", "created", "deleted", "renamed"},
             path : Files, old : Files \cup {None}]

TypeInv ==
  /\ selected \in Projects \cup {None} /\ current \in Projects \cup {None}
  /\ shown \in BOOLEAN /\ (shown => selected \in Projects /\ current \in Projects)
  /\ tabs \in [Files -> Tab \cup {None}]
  /\ \A f \in Files : Open(f) => current \in Projects
  /\ stored \in [Projects -> SUBSET Files]
  /\ reads \in [Reads -> ReadRec \cup {None}]
  /\ save \in SaveRec \cup {None}
  /\ events \in Seq(EventRec)
  /\ \A i \in DOMAIN events :
       events[i].action = "renamed" => events[i].old \in Files \ {events[i].path}
  /\ disk \in [Projects -> [Files -> Texts \cup {None}]]
  /\ writes \in 0..MaxTurns /\ switches \in Nat
  /\ typed \subseteq Files /\ late \subseteq Files /\ lost \subseteq Files
  /\ unaware \subseteq Files /\ crossed \subseteq Files

(* An answer is out that would be shown over what was typed.               *)
Pending(f) == Saving(f) \/ \E r \in Out(f) : reads[r].kind = "open"

TypingInv ==
  /\ ~shown => typed = {} /\ lost = {}
  /\ \A f \in typed : /\ Loaded(f) /\ tabs[f].dirty
                      /\ Pending(f) => f \in late
  /\ TypingKept

-----------------------------------------------------------------------------
(* Types.                                                                  *)

LEMMA TypeInit == Init => TypeInv
<1> SUFFICES ASSUME Init PROVE TypeInv
  OBVIOUS
<1>1. disk \in [Projects -> [Files -> Texts \cup {None}]]
  BY EditorAssumption DEF Init, Texts
<1>2. events \in Seq(EventRec) /\ DOMAIN events = {}
  BY DEF Init
<1>3. writes \in 0..MaxTurns
  BY EditorAssumption DEF Init
<1> QED
  BY <1>1, <1>2, <1>3 DEF Init, TypeInv, Open

(* The tabs that the actions make are tabs.                                *)
LEMMA TabType ==
  /\ Empty \in Tab
  /\ \A t \in Tab : [t EXCEPT !.dirty = TRUE] \in Tab
  /\ \A t \in Tab : [t EXCEPT !.conflict = None] \in Tab
  /\ \A t \in Tab, x \in Texts :
       /\ [t EXCEPT !.text = x] \in Tab
       /\ [t EXCEPT !.conflict = x] \in Tab
       /\ [text |-> x, dirty |-> FALSE, conflict |-> None] \in Tab
  BY DEF Empty, Tab

(* A request that is sent, for a project that is open, is one of its type. *)
LEMMA SendType ==
  ASSUME TypeInv, current \in Projects, NEW f \in Files,
         NEW k \in {"open", "reload", "conflict", "theirs"}, Send(k, f)
  PROVE  reads' \in [Reads -> ReadRec \cup {None}]
  BY DEF TypeInv, Send, Request, ReadRec, Free

(* What the server writes, and what it tells of.                           *)
LEMMA WrittenType ==
  ASSUME TypeInv, NEW p \in Projects, NEW f \in Files, Written(p, f), Room
  PROVE  /\ disk' \in [Projects -> [Files -> Texts \cup {None}]]
         /\ disk'[p][f] \in Texts
         /\ writes' \in 0..MaxTurns
<1>1. writes + 1 \in 0..MaxTurns
  BY EditorAssumption DEF TypeInv, Room
<1>2. [from |-> p, no |-> writes + 1] \in Texts
  BY <1>1 DEF Texts
<1> QED
  BY <1>1, <1>2 DEF Written, TypeInv

LEMMA TellType ==
  ASSUME TypeInv, NEW p \in Projects, NEW f \in Files, NEW old \in Files \cup {None},
         NEW k \in {"changed", "created", "deleted", "renamed"}, Tell(p, k, f, old),
         k = "renamed" => old \in Files \ {f}
  PROVE  /\ events' \in Seq(EventRec)
         /\ \A i \in DOMAIN events' :
              events'[i].action = "renamed" => events'[i].old \in Files \ {events'[i].path}
         /\ unaware' \subseteq Files
<1> DEFINE e == [project |-> p, action |-> k, path |-> f, old |-> old]
<1>1. e \in EventRec
  BY DEF EventRec
<1>2. CASE events' = Append(events, e) /\ UNCHANGED unaware
  BY <1>1, <1>2 DEF TypeInv
<1>3. CASE UNCHANGED events /\ unaware' = IF p = current THEN Missed({f, old}) ELSE unaware
  BY <1>3 DEF TypeInv, Missed, OpenTabs, Asked
<1> QED
  BY <1>2, <1>3 DEF Tell

LEMMA TypeUser ==
  ASSUME TypeInv,
         OpenEditor \/ Close \/ (\E p \in Projects : SelectProject(p))
           \/ \E f \in Files : OpenTab(f) \/ Type(f) \/ Save(f) \/ KeepMine(f) \/ LoadTheirs(f)
  PROVE  TypeInv'
<1> USE DEF place, server, history
<1>1. ASSUME NEW p \in Projects, SelectProject(p) PROVE TypeInv'
  <2>1. switches' \in Nat /\ selected' \in Projects \cup {None} /\ shown' = FALSE
    BY <1>1 DEF SelectProject, TypeInv
  <2> QED
    BY <1>1, <2>1 DEF SelectProject, TypeInv, Open
<1>2. CASE OpenEditor /\ current = selected
  BY <1>2 DEF OpenEditor, TypeInv, Open
<1>3. CASE OpenEditor /\ current # selected
  <2>1. selected \in Projects /\ current' = selected /\ shown'
    BY <1>3 DEF OpenEditor, TypeInv
  <2>2. stored' \in [Projects -> SUBSET Files]
    BY <1>3 DEF OpenEditor, TypeInv, OpenTabs
  <2>4. tabs' \in [Files -> Tab \cup {None}]
    BY <1>3, TabType DEF OpenEditor, TypeInv
  <2>5. reads' \in [Reads -> ReadRec \cup {None}]
    <3>1. PICK slot \in [stored'[current'] -> Free] :
            reads' = [r \in Reads |->
                        IF \E f \in DOMAIN slot : slot[f] = r
                        THEN [Request("open", CHOOSE f \in DOMAIN slot : slot[f] = r)
                                EXCEPT !.project = current']
                        ELSE reads[r]]
      BY <1>3 DEF OpenEditor
    <3>2. DOMAIN slot \subseteq Files
      BY <2>1, <2>2
    <3>3. ASSUME NEW f \in Files
          PROVE  [Request("open", f) EXCEPT !.project = current'] \in ReadRec
      BY <2>1 DEF Request, ReadRec
    <3>4. ASSUME NEW r \in Reads, \E f \in DOMAIN slot : slot[f] = r
          PROVE  (CHOOSE f \in DOMAIN slot : slot[f] = r) \in Files
      BY <3>2, <3>4
    <3> QED
      BY <3>1, <3>3, <3>4 DEF TypeInv
  <2>6. crossed' \subseteq Files /\ unaware' \subseteq Files
    BY <1>3 DEF OpenEditor, Asked
  <2> QED
    BY <1>3, <2>1, <2>2, <2>4, <2>5, <2>6 DEF OpenEditor, TypeInv, Open
<1>4. ASSUME NEW f \in Files, OpenTab(f) PROVE TypeInv'
  <2>1. current \in Projects
    BY <1>4 DEF OpenTab, TypeInv
  <2>2. reads' \in [Reads -> ReadRec \cup {None}]
    BY <1>4, <2>1, SendType DEF OpenTab, TypeInv
  <2>3. tabs' \in [Files -> Tab \cup {None}]
    BY <1>4, TabType DEF OpenTab, TypeInv
  <2> QED
    BY <1>4, <2>1, <2>2, <2>3 DEF OpenTab, TypeInv, Open
<1>5. CASE Close
  BY <1>5 DEF Close, CloseTabs, Forget, TypeInv, Open, OpenTabs, Asked
<1>6. ASSUME NEW f \in Files, Type(f) \/ KeepMine(f) PROVE TypeInv'
  <2>1. tabs' \in [Files -> Tab \cup {None}]
    <3>1. tabs[f] \in Tab
      BY <1>6 DEF Type, KeepMine, TypeInv, Loaded, Open
    <3> QED
      BY <1>6, <3>1, TabType DEF Type, KeepMine, TypeInv
  <2> QED
    BY <1>6, <2>1 DEF Type, KeepMine, TypeInv, Open
<1>7. ASSUME NEW f \in Files, Save(f) PROVE TypeInv'
  BY <1>7 DEF Save, TypeInv, Open, SaveRec
<1>8. ASSUME NEW f \in Files, LoadTheirs(f) PROVE TypeInv'
  <2>1. reads' \in [Reads -> ReadRec \cup {None}]
    BY <1>8, SendType DEF LoadTheirs, TypeInv
  <2> QED
    BY <1>8, <2>1 DEF LoadTheirs, TypeInv, Open
<1> QED
  BY <1>1, <1>2, <1>3, <1>4, <1>5, <1>6, <1>7, <1>8
-----------------------------------------------------------------------------
(* The server's steps.                                                     *)
LEMMA TypeServer ==
  ASSUME TypeInv,
         \/ ServeSave \/ \E r \in Reads : ServeRead(r)
         \/ \E p \in {selected, current} \ {None}, f \in Files :
              OtherWrites(p, f) \/ OtherDeletes(p, f) \/ \E old \in Files : OtherRenames(p, old, f)
  PROVE  TypeInv'
<1> USE DEF place, server, history
<1>1. ASSUME NEW r \in Reads, ServeRead(r) PROVE TypeInv'
  <2>1. reads[r] \in ReadRec
    BY <1>1 DEF ServeRead, TypeInv
  <2>2. disk[reads[r].project][reads[r].path] \in Texts \cup {None}
    BY <2>1 DEF TypeInv, ReadRec
  <2>3. reads' \in [Reads -> ReadRec \cup {None}]
    BY <1>1, <2>1, <2>2 DEF ServeRead, TypeInv, ReadRec
  <2> QED
    BY <1>1, <2>3 DEF ServeRead, TypeInv, Open
<1>2. CASE ServeSave
  <2>1. save \in SaveRec /\ save.project \in Projects /\ save.path \in Files
    BY <1>2 DEF ServeSave, TypeInv, SaveRec
  <2>2. /\ disk' \in [Projects -> [Files -> Texts \cup {None}]]
        /\ disk'[save.project][save.path] \in Texts /\ writes' \in 0..MaxTurns
    BY <1>2, <2>1, WrittenType DEF ServeSave
  <2>3. /\ events' \in Seq(EventRec) /\ unaware' \subseteq Files
        /\ \A i \in DOMAIN events' :
             events'[i].action = "renamed" => events'[i].old \in Files \ {events'[i].path}
    BY <1>2, <2>1, TellType DEF ServeSave
  <2>4. save' \in SaveRec
    BY <1>2, <2>1, <2>2 DEF ServeSave, SaveRec
  <2> QED
    BY <1>2, <2>2, <2>3, <2>4 DEF ServeSave, TypeInv, Open
<1>3. ASSUME NEW p \in Projects, NEW f \in Files, OtherWrites(p, f) PROVE TypeInv'
  <2>1. disk' \in [Projects -> [Files -> Texts \cup {None}]] /\ writes' \in 0..MaxTurns
    BY <1>3, WrittenType DEF OtherWrites
  <2>2. /\ events' \in Seq(EventRec) /\ unaware' \subseteq Files
        /\ \A i \in DOMAIN events' :
             events'[i].action = "renamed" => events'[i].old \in Files \ {events'[i].path}
    BY <1>3, TellType DEF OtherWrites
  <2> QED
    BY <1>3, <2>1, <2>2 DEF OtherWrites, TypeInv, Open
<1>4. ASSUME NEW p \in Projects, NEW f \in Files, OtherDeletes(p, f) PROVE TypeInv'
  <2>1. writes' \in 0..MaxTurns
    BY <1>4, EditorAssumption DEF OtherDeletes, Room, TypeInv
  <2>2. /\ events' \in Seq(EventRec) /\ unaware' \subseteq Files
        /\ \A i \in DOMAIN events' :
             events'[i].action = "renamed" => events'[i].old \in Files \ {events'[i].path}
    BY <1>4, TellType DEF OtherDeletes
  <2> QED
    BY <1>4, <2>1, <2>2 DEF OtherDeletes, TypeInv, Open
<1>5. ASSUME NEW p \in Projects, NEW f \in Files, NEW old \in Files, OtherRenames(p, old, f)
      PROVE  TypeInv'
  <2>1. writes' \in 0..MaxTurns
    BY <1>5, EditorAssumption DEF OtherRenames, Room, TypeInv
  <2>2. old \in Files \ {f}
    BY <1>5 DEF OtherRenames
  <2>3. /\ events' \in Seq(EventRec) /\ unaware' \subseteq Files
        /\ \A i \in DOMAIN events' :
             events'[i].action = "renamed" => events'[i].old \in Files \ {events'[i].path}
    BY <1>5, <2>2, TellType DEF OtherRenames
  <2> QED
    BY <1>5, <2>1, <2>3 DEF OtherRenames, TypeInv, Open
<1> QED
  BY <1>1, <1>2, <1>3, <1>4, <1>5 DEF TypeInv

(* What arrives.                                                           *)
LEMMA TypeAnswer ==
  ASSUME TypeInv, SaveAnswer \/ SaveFails \/ \E r \in Reads : ReadAnswer(r)
  PROVE  TypeInv'
<1> USE DEF place, server, history
<1>1. CASE SaveFails
  BY <1>1 DEF SaveFails, Untaken, TypeInv, Open
<1>2. CASE SaveAnswer
  <2>1. save \in SaveRec /\ save.path \in Files /\ save.answer \in Texts
    BY <1>2 DEF SaveAnswer, TypeInv, SaveRec
  <2>2. CASE ~Open(save.path)
    BY <1>2, <2>2 DEF SaveAnswer, Untaken, TypeInv, Open
  <2>3. CASE Open(save.path)
    <3> DEFINE saved == [text |-> save.answer, dirty |-> FALSE, conflict |-> None]
    <3>1. saved \in Tab /\ tabs[save.path] \in Tab
      BY <2>1, <2>3, TabType DEF TypeInv, Open
    <3>2. tabs' = [tabs EXCEPT ![save.path] = saved]
      BY <1>2, <2>3 DEF SaveAnswer
    <3> HIDE DEF saved
    <3>3. tabs' \in [Files -> Tab \cup {None}] /\ \A f \in Files : Open(f)' => Open(f)
      BY <2>1, <2>3, <3>1, <3>2 DEF TypeInv, Open
    <3> QED
      BY <1>2, <2>1, <2>3, <3>3 DEF SaveAnswer, Missing, TypeInv, Open
  <2> QED
    BY <2>2, <2>3
<1>3. ASSUME NEW r \in Reads, ReadAnswer(r) PROVE TypeInv'
  <2> DEFINE f == reads[r].path
             t == reads[r].answer
  <2>1. reads[r] \in ReadRec /\ f \in Files /\ t \in Texts \cup {None}
    BY <1>3 DEF ReadAnswer, Answered, TypeInv, ReadRec
  <2>2. reads' \in [Reads -> ReadRec \cup {None}]
    BY <1>3 DEF ReadAnswer, TypeInv
  <2>3. CASE ~Open(f) \/ t = None
    BY <1>3, <2>2, <2>3 DEF ReadAnswer, Untaken, TypeInv, Open
  <2>4. CASE Open(f) /\ t # None
    <3>1. t \in Texts /\ tabs[f] \in Tab
      BY <2>1, <2>4 DEF TypeInv, Open
    <3>2. OpenAnswer(f, t) \/ ReloadAnswer(f, t) \/ ConflictAnswer(f, t) \/ TheirsAnswer(f, t)
      BY <1>3, <2>4 DEF ReadAnswer
    <3>3. tabs' \in [Files -> Tab \cup {None}] /\ \A g \in Files : Open(g)' => Open(g)
      <4>1. PICK tab \in Tab : tabs' = tabs \/ tabs' = [tabs EXCEPT ![f] = tab]
        <5>1. CASE OpenAnswer(f, t) \/ ReloadAnswer(f, t)
          BY <3>1, <5>1, TabType DEF OpenAnswer, ReloadAnswer, Ignored
        <5>2. CASE ConflictAnswer(f, t)
          BY <3>1, <5>2, TabType DEF ConflictAnswer, Ignored
        <5>3. CASE TheirsAnswer(f, t)
          BY <3>1, <5>3, TabType DEF TheirsAnswer
        <5> QED
          BY <3>2, <5>1, <5>2, <5>3
      <4> QED
        BY <2>1, <2>4, <4>1 DEF TypeInv, Open
    <3>4. /\ typed' \subseteq Files /\ late' \subseteq Files /\ lost' \subseteq Files
          /\ unaware' \subseteq Files /\ crossed' \subseteq Files
      BY <2>1, <3>2 DEF OpenAnswer, ReloadAnswer, ConflictAnswer, TheirsAnswer, Ignored,
                        Shows, Missing, Missed, OpenTabs, Asked, TypeInv
    <3> QED
      BY <1>3, <2>2, <3>3, <3>4 DEF ReadAnswer, TypeInv
  <2> QED
    BY <2>3, <2>4
<1> QED
  BY <1>1, <1>2, <1>3

LEMMA TypeEvent ==
  ASSUME TypeInv, FileEvent
  PROVE  TypeInv'
<1> USE DEF place, server, history
<1> DEFINE e == Head(events)
<1>1. /\ e \in EventRec /\ e.path \in Files /\ e.old \in Files \cup {None}
      /\ e.action = "renamed" => e.old \in Files \ {e.path}
  <2>1. events \in Seq(EventRec) /\ events # <<>>
    BY DEF FileEvent, TypeInv
  <2>2. e \in EventRec /\ e = events[1] /\ 1 \in DOMAIN events
    BY <2>1
  <2> QED
    BY <2>2 DEF TypeInv, EventRec
<1>2. /\ events' \in Seq(EventRec)
      /\ \A i \in DOMAIN events' :
           events'[i].action = "renamed" => events'[i].old \in Files \ {events'[i].path}
  <2>1. events' = Tail(events) /\ events # <<>>
    BY DEF FileEvent
  <2>2. Len(events') = Len(events) - 1 /\ \A i \in 1..Len(events') : events'[i] = events[i + 1]
    BY <2>1 DEF TypeInv
  <2> QED
    BY <2>1, <2>2 DEF TypeInv
<1>3. /\ tabs' \in [Files -> Tab \cup {None}]
      /\ \A f \in Files : Open(f)' => current \in Projects
  <2>1. CASE UNCHANGED tabs
    BY <2>1 DEF TypeInv, Open
  <2>2. CASE Open(e.path) /\ CloseTabs({e.path})
    BY <2>2 DEF CloseTabs, TypeInv, Open
  <2>3. CASE e.action = "renamed" /\ Open(e.old) /\ RenameTab(e.old, e.path)
    BY <1>1, <2>3 DEF RenameTab, TypeInv, Open
  <2> QED
    BY <2>1, <2>2, <2>3 DEF FileEvent, HandleFileEvent, Ignored
<1>4. reads' \in [Reads -> ReadRec \cup {None}]
  <2>1. CASE UNCHANGED reads
    BY <2>1 DEF TypeInv
  <2>2. CASE Open(e.path) /\ (Send("conflict", e.path) \/ Send("reload", e.path))
    BY <1>1, <2>2, SendType DEF TypeInv
  <2> QED
    BY <2>1, <2>2 DEF FileEvent, HandleFileEvent
<1>5. /\ typed' \subseteq Files /\ late' \subseteq Files /\ lost' \subseteq Files
      /\ unaware' \subseteq Files /\ crossed' \subseteq Files
  BY <1>1 DEF FileEvent, HandleFileEvent, CloseTabs, Forget, RenameTab, Moved, Ignored,
              Missed, OpenTabs, Asked, TypeInv
<1> QED
  BY <1>2, <1>3, <1>4, <1>5 DEF FileEvent, TypeInv

LEMMA TypeNext == TypeInv /\ [Next]_vars => TypeInv'
<1> SUFFICES ASSUME TypeInv, [Next]_vars PROVE TypeInv'
  OBVIOUS
<1>1. CASE UNCHANGED vars
  BY <1>1 DEF vars, place, server, history, TypeInv, Open
<1> QED
  BY <1>1, TypeUser, TypeServer, TypeAnswer, TypeEvent DEF Next

(* Every variable of the editor and of the server it talks to stays in its *)
(* type.                                                                   *)
THEOREM TypeCorrect == Spec => []TypeOK
<1>1. TypeInv => TypeOK
  <2> SUFFICES ASSUME TypeInv PROVE TypeOK
    OBVIOUS
  <2>1. \A r \in Reads \ Free : reads[r] \in ReadRec
    BY DEF TypeInv, Free
  <2>2. \A i \in DOMAIN events : events[i] \in EventRec
    BY DEF TypeInv
  <2>3. save \in {None} \cup SaveRec
    BY DEF TypeInv
  <2> QED
    BY <2>1, <2>2, <2>3 DEF TypeInv, TypeOK, ReadRec, SaveRec, EventRec
<1> QED
  BY <1>1, TypeInit, TypeNext, PTL DEF Spec

-----------------------------------------------------------------------------
(* Conflicts.                                                              *)

LEMMA ConflictNext == TypeInv /\ ConflictOnDirty /\ [Next]_vars => ConflictOnDirty'
<1> SUFFICES ASSUME TypeInv, ConflictOnDirty, [Next]_vars PROVE ConflictOnDirty'
  OBVIOUS
<1> USE DEF place, server, history, Open, TypeInv
<1>1. ASSUME UNCHANGED tabs PROVE ConflictOnDirty'
  BY <1>1 DEF ConflictOnDirty
<1>2. ASSUME NEW F \in SUBSET Files, CloseTabs(F) PROVE ConflictOnDirty'
  BY <1>2 DEF CloseTabs, ConflictOnDirty
<1>3. ASSUME NEW f \in Files, Open(f), NEW tab \in Tab,
             tab.conflict # None => tab.dirty, tabs' = [tabs EXCEPT ![f] = tab]
      PROVE  ConflictOnDirty'
  BY <1>3 DEF ConflictOnDirty
<1>4. CASE OpenEditor
  BY <1>4 DEF OpenEditor, ConflictOnDirty, Empty
<1>5. CASE Close
  BY <1>2, <1>5 DEF Close, OpenTabs
<1>6. ASSUME NEW f \in Files, OpenTab(f) \/ Type(f) \/ KeepMine(f) PROVE ConflictOnDirty'
  <2>1. CASE OpenTab(f)
    BY <2>1 DEF OpenTab, ConflictOnDirty, Empty
  <2>2. CASE Type(f) \/ KeepMine(f)
    <3>1. tabs[f] \in Tab
      BY <2>2 DEF Type, KeepMine, Loaded
    <3> QED
      BY <2>2, <3>1 DEF Type, KeepMine, ConflictOnDirty, Tab
  <2> QED
    BY <1>6, <2>1, <2>2
<1>7. CASE SaveAnswer
  <2>1. save.path \in Files /\ save.answer \in Texts
    BY <1>7 DEF SaveAnswer, SaveRec
  <2>2. CASE Open(save.path)
    <3> DEFINE saved == [text |-> save.answer, dirty |-> FALSE, conflict |-> None]
    <3>1. saved \in Tab /\ saved.conflict = None
      BY <2>1, <2>2, TabType
    <3>2. tabs' = [tabs EXCEPT ![save.path] = saved]
      BY <1>7, <2>2 DEF SaveAnswer
    <3> QED
      BY <1>3, <2>1, <2>2, <3>1, <3>2
  <2> QED
    BY <1>1, <1>7, <2>2 DEF SaveAnswer, Untaken
<1>8. ASSUME NEW r \in Reads, ReadAnswer(r) PROVE ConflictOnDirty'
  <2> DEFINE f == reads[r].path
             t == reads[r].answer
  <2>1. f \in Files /\ t \in Texts \cup {None}
    BY <1>8 DEF ReadAnswer, Answered, ReadRec
  <2>2. CASE ~Open(f) \/ t = None
    BY <1>1, <1>8, <2>2 DEF ReadAnswer, Untaken
  <2>3. CASE Open(f) /\ t # None
    <3>1. t \in Texts /\ tabs[f] \in Tab /\ (tabs[f].conflict # None => tabs[f].dirty)
      BY <2>1, <2>3 DEF ConflictOnDirty
    <3>2. CASE OpenAnswer(f, t) \/ ReloadAnswer(f, t)
      <4> DEFINE tab == [tabs[f] EXCEPT !.text = t]
      <4>1. tab \in Tab /\ tab.conflict = tabs[f].conflict /\ tab.dirty = tabs[f].dirty
        BY <3>1 DEF Tab
      <4>2. tabs' = tabs \/ tabs' = [tabs EXCEPT ![f] = tab]
        BY <3>2 DEF OpenAnswer, ReloadAnswer, Ignored
      <4> HIDE DEF tab
      <4> QED
        BY <1>1, <1>3, <2>1, <2>3, <3>1, <4>1, <4>2
    <3>3. CASE ConflictAnswer(f, t)
      <4> DEFINE tab == [tabs[f] EXCEPT !.conflict = t]
      <4>1. tab \in Tab /\ tab.dirty = tabs[f].dirty
        BY <3>1 DEF Tab
      <4>2. tabs' = tabs \/ (tabs[f].dirty /\ tabs' = [tabs EXCEPT ![f] = tab])
        BY <3>3 DEF ConflictAnswer, Ignored
      <4> HIDE DEF tab
      <4> QED
        BY <1>1, <1>3, <2>1, <2>3, <4>1, <4>2
    <3>4. CASE TheirsAnswer(f, t)
      <4> DEFINE tab == [text |-> t, dirty |-> FALSE, conflict |-> None]
      <4>1. tab \in Tab /\ tab.conflict = None
        BY <3>1 DEF Tab
      <4>2. tabs' = [tabs EXCEPT ![f] = tab]
        BY <3>4 DEF TheirsAnswer
      <4> HIDE DEF tab
      <4> QED
        BY <1>3, <2>1, <2>3, <4>1, <4>2
    <3> QED
      BY <1>8, <2>3, <3>2, <3>3, <3>4 DEF ReadAnswer
  <2> QED
    BY <2>2, <2>3
<1>9. CASE FileEvent
  <2> DEFINE e == Head(events)
  <2>1. /\ e.path \in Files
        /\ e.action = "renamed" => e.old \in Files
    <3>1. e \in EventRec /\ e = events[1] /\ 1 \in DOMAIN events
      BY <1>9 DEF FileEvent
    <3> QED
      BY <3>1 DEF EventRec
  <2>2. CASE CloseTabs({e.path})
    BY <1>2, <2>1, <2>2
  <2>3. CASE e.action = "renamed" /\ RenameTab(e.old, e.path)
    BY <2>1, <2>3 DEF RenameTab, ConflictOnDirty
  <2> QED
    BY <1>1, <1>9, <2>2, <2>3 DEF FileEvent, HandleFileEvent, Ignored
<1>10. ASSUME \/ \E p \in Projects : SelectProject(p)
              \/ \E f \in Files : Save(f) \/ LoadTheirs(f)
              \/ ServeSave \/ SaveFails \/ (\E r \in Reads : ServeRead(r))
              \/ \E p \in Projects, f \in Files :
                   OtherWrites(p, f) \/ OtherDeletes(p, f) \/ \E old \in Files : OtherRenames(p, old, f)
              \/ UNCHANGED vars
       PROVE  ConflictOnDirty'
  BY <1>1, <1>10 DEF SelectProject, Save, LoadTheirs, ServeSave, SaveFails, Untaken, ServeRead,
                     OtherWrites, OtherDeletes, OtherRenames, vars
<1> QED
  BY <1>4, <1>5, <1>6, <1>7, <1>8, <1>9, <1>10 DEF Next

(* A conflict is shown on a tab with changes only, however the answers to  *)
(* conflicts, reloads, saves and the user's choices cross.                 *)
THEOREM ConflictOnDirtyCorrect == Spec => []ConflictOnDirty
<1>1. Init => ConflictOnDirty
  BY DEF Init, ConflictOnDirty, Open
<1> QED
  BY <1>1, TypeInit, TypeNext, ConflictNext, PTL DEF Spec

-----------------------------------------------------------------------------
(* Typing.                                                                 *)

(* A step that lets what was typed alone, and asks for nothing that would  *)
(* replace it.                                                             *)
LEMMA TypingFrame ==
  ASSUME TypeInv, TypingInv, UNCHANGED <<shown, typed, late, lost>>,
         \A f \in typed : /\ Loaded(f)' /\ tabs'[f].dirty
                          /\ Pending(f)' => Pending(f)
  PROVE  TypingInv'
<1>1. ~shown' => typed' = {} /\ lost' = {}
  BY DEF TypingInv
<1>2. lost' \subseteq late'
  BY DEF TypingInv, TypingKept
<1>3. ASSUME NEW f \in typed'
      PROVE  Loaded(f)' /\ tabs'[f].dirty /\ (Pending(f)' => f \in late')
  BY <1>3 DEF TypingInv
<1> QED
  BY <1>1, <1>2, <1>3 DEF TypingInv, TypingKept

(* A request of another kind than "open".                                  *)
LEMMA OtherRequest ==
  ASSUME TypeInv, NEW f \in Files, NEW k \in {"reload", "conflict", "theirs"},
         Send(k, f), UNCHANGED save, NEW g \in Files, Pending(g)'
  PROVE  Pending(g)
  BY DEF Send, Request, Pending, Out, Free, Saving, TypeInv

LEMMA TypingUser ==
  ASSUME TypeInv, TypingInv,
         OpenEditor \/ Close \/ (\E p \in Projects : SelectProject(p))
           \/ \E f \in Files : OpenTab(f) \/ Type(f) \/ Save(f) \/ KeepMine(f) \/ LoadTheirs(f)
  PROVE  TypingInv'
<1> USE DEF place, server, history
<1>1. ASSUME NEW p \in Projects, SelectProject(p) PROVE TypingInv'
  BY <1>1 DEF SelectProject, TypingInv, TypingKept
<1>2. CASE OpenEditor
  <2>1. typed' = {} /\ lost' = {}
    BY <1>2 DEF OpenEditor, TypingInv
  <2> QED
    BY <2>1 DEF TypingInv, TypingKept
<1>3. CASE Close
  <2>1. PICK F \in SUBSET Files : CloseTabs(F)
    BY <1>3 DEF Close, OpenTabs
  <2>2. \A f \in typed' : f \in typed /\ f \notin F /\ tabs'[f] = tabs[f]
    BY <2>1 DEF CloseTabs, Forget, TypeInv
  <2>3. shown' = shown /\ reads' = reads /\ save' = save
    BY <1>3 DEF Close
  <2> QED
    BY <2>1, <2>2, <2>3
       DEF CloseTabs, Forget, TypingInv, TypingKept, Loaded, Open, Pending, Saving, Out, Free
<1>4. ASSUME NEW f \in Files, OpenTab(f) PROVE TypingInv'
  <2>1. CASE Loaded(f)
    <3>1. UNCHANGED <<tabs, reads, save, shown, typed, late, lost>>
      BY <1>4, <2>1 DEF OpenTab
    <3> QED
      BY <3>1 DEF TypingInv, TypingKept, Loaded, Open, Pending, Saving, Out, Free
  <2>2. CASE ~Loaded(f)
    <3>1. f \notin typed
      BY <2>2 DEF TypingInv
    <3>2. \A g \in typed : tabs'[g] = tabs[g]
      BY <1>4, <2>2, <3>1 DEF OpenTab, TypeInv
    <3>3. \A g \in typed : Pending(g)' => Pending(g)
      BY <1>4, <2>2, <3>1 DEF OpenTab, Send, Request, Pending, Out, Free, Saving, TypeInv
    <3> QED
      BY <1>4, <3>2, <3>3, TypingFrame DEF OpenTab, TypingInv, Loaded, Open
  <2> QED
    BY <2>1, <2>2
<1>5. ASSUME NEW f \in Files, Type(f) PROVE TypingInv'
  <2>1. tabs[f] \in Tab /\ tabs[f].text # None /\ shown
    BY <1>5 DEF Type, Loaded, Open, TypeInv
  <2> DEFINE tab == [tabs[f] EXCEPT !.dirty = TRUE]
  <2>2. tab \in Tab /\ tab.text = tabs[f].text /\ tab.dirty
    BY <2>1 DEF Tab
  <2>3. tabs' = [tabs EXCEPT ![f] = tab]
    BY <1>5 DEF Type
  <2> HIDE DEF tab
  <2>4. ASSUME NEW g \in typed' PROVE Loaded(g)' /\ tabs'[g].dirty
    <3>1. g \in typed \cup {f} /\ g \in Files
      BY <1>5, <2>4 DEF Type, TypeInv
    <3>2. CASE g = f
      BY <2>1, <2>2, <2>3, <3>2, EditorAssumption DEF TypeInv, Loaded, Open
    <3>3. CASE g # f
      BY <2>3, <3>1, <3>3 DEF TypeInv, TypingInv, Loaded, Open
    <3> QED
      BY <3>2, <3>3
  <2>5. \A g \in Files : Pending(g)' = Pending(g)
    BY <1>5 DEF Type, Pending, Saving, Out, Free
  <2>6. late' = IF Pending(f) THEN late \cup {f} ELSE late
    BY <1>5 DEF Type, Pending
  <2>7. typed' = typed \cup {f} /\ lost' = lost /\ shown'
    BY <1>5, <2>1 DEF Type
  <2> QED
    BY <2>4, <2>5, <2>6, <2>7 DEF TypingInv, TypingKept, TypeInv
<1>6. ASSUME NEW f \in Files, Save(f) PROVE TypingInv'
  <2>1. UNCHANGED <<tabs, reads, shown, late, lost>> /\ typed' = typed \ {f}
    BY <1>6 DEF Save
  <2>2. \A g \in typed' : Saving(g)' => FALSE
    BY <1>6, <2>1 DEF Save, Saving
  <2> QED
    BY <2>1, <2>2 DEF TypingInv, TypingKept, Loaded, Open, Pending, Out, Free
<1>7. ASSUME NEW f \in Files, KeepMine(f) PROVE TypingInv'
  <2>1. tabs[f] \in Tab
    BY <1>7 DEF KeepMine, Loaded, Open, TypeInv
  <2> DEFINE tab == [tabs[f] EXCEPT !.conflict = None]
  <2>2. tab \in Tab /\ tab.text = tabs[f].text /\ tab.dirty = tabs[f].dirty
    BY <2>1 DEF Tab
  <2>3. tabs' = [tabs EXCEPT ![f] = tab]
    BY <1>7 DEF KeepMine
  <2> HIDE DEF tab
  <2>4. \A g \in typed : Loaded(g)' /\ tabs'[g].dirty
    BY <1>7, <2>1, <2>2, <2>3, EditorAssumption DEF KeepMine, TypeInv, TypingInv, Loaded, Open
  <2>5. \A g \in typed : Pending(g)' => Pending(g)
    BY <1>7 DEF KeepMine, Pending, Saving, Out, Free
  <2> QED
    BY <1>7, <2>4, <2>5, TypingFrame DEF KeepMine
<1>8. ASSUME NEW f \in Files, LoadTheirs(f) PROVE TypingInv'
  <2>1. Send("theirs", f) /\ UNCHANGED <<tabs, save, shown, typed, late, lost>>
    BY <1>8 DEF LoadTheirs
  <2>2. \A g \in typed : Pending(g)' => Pending(g)
    BY <2>1, OtherRequest DEF TypeInv
  <2> QED
    BY <2>1, <2>2, TypingFrame DEF TypingInv, Loaded, Open
<1> QED
  BY <1>1, <1>2, <1>3, <1>4, <1>5, <1>6, <1>7, <1>8

LEMMA TypingServer ==
  ASSUME TypeInv, TypingInv,
         \/ ServeSave \/ \E r \in Reads : ServeRead(r)
         \/ \E p \in Projects, f \in Files :
              OtherWrites(p, f) \/ OtherDeletes(p, f) \/ \E old \in Files : OtherRenames(p, old, f)
  PROVE  TypingInv'
<1> USE DEF place, server, history
<1>1. UNCHANGED <<shown, typed, late, lost, tabs>>
  BY DEF ServeSave, ServeRead, OtherWrites, OtherDeletes, OtherRenames
<1>2. ASSUME NEW f \in Files, Pending(f)' PROVE Pending(f)
  <2>1. CASE ServeSave
    <3>1. save' = [save EXCEPT !.answer = save'.answer] /\ save \in SaveRec /\ reads' = reads
      BY <2>1 DEF ServeSave, TypeInv
    <3>2. save'.path = save.path /\ save # None
      BY <2>1, <3>1 DEF SaveRec, ServeSave
    <3> QED
      BY <1>2, <3>1, <3>2 DEF Pending, Saving, Out, Free
  <2>2. ASSUME NEW r \in Reads, ServeRead(r) PROVE Pending(f)
    <3>1. /\ reads[r] # None /\ reads[r] \in ReadRec /\ save' = save
          /\ reads' = [reads EXCEPT ![r] = [reads[r] EXCEPT !.answer = reads'[r].answer]]
      BY <2>2 DEF ServeRead, TypeInv
    <3>2. reads'[r].path = reads[r].path /\ reads'[r].kind = reads[r].kind
      BY <3>1 DEF ReadRec, TypeInv
    <3>3. \A q \in Reads \ {r} : reads'[q] = reads[q]
      BY <3>1 DEF TypeInv
    <3> QED
      BY <1>2, <3>1, <3>2, <3>3 DEF Pending, Saving, Out, Free
  <2>3. CASE UNCHANGED <<reads, save>>
    BY <1>2, <2>3 DEF Pending, Saving, Out, Free
  <2> QED
    BY <2>1, <2>2, <2>3 DEF OtherWrites, OtherDeletes, OtherRenames
<1> QED
  BY <1>1, <1>2, TypingFrame DEF TypingInv, Loaded, Open, TypeInv

LEMMA TypingAnswer ==
  ASSUME TypeInv, TypingInv, SaveAnswer \/ SaveFails \/ \E r \in Reads : ReadAnswer(r)
  PROVE  TypingInv'
<1> USE DEF place, server, history
<1>1. CASE SaveFails
  <2>1. UNCHANGED <<shown, typed, late, lost, tabs, reads>> /\ save' = None
    BY <1>1 DEF SaveFails, Untaken
  <2> QED
    BY <2>1 DEF TypingInv, TypingKept, Loaded, Open, Pending, Saving, Out, Free
<1>2. CASE SaveAnswer
  <2> DEFINE f == save.path
             saved == [text |-> save.answer, dirty |-> FALSE, conflict |-> None]
  <2>1. f \in Files /\ Saving(f) /\ save' = None /\ reads' = reads /\ shown' = shown
    BY <1>2 DEF SaveAnswer, TypeInv, SaveRec, Saving
  <2>2. \A g \in Files : Pending(g)' => Pending(g)
    BY <2>1 DEF Pending, Saving, Out, Free
  <2>3. CASE ~Open(f)
    <3>1. UNCHANGED <<typed, late, lost, tabs>>
      BY <1>2, <2>3 DEF SaveAnswer, Untaken
    <3> QED
      BY <2>1, <2>2, <3>1, TypingFrame DEF TypingInv, Loaded, Open, TypeInv
  <2>4. CASE Open(f)
    <3>1. /\ tabs' = [tabs EXCEPT ![f] = saved]
          /\ lost' = IF f \in typed THEN lost \cup {f} ELSE lost \ {f}
          /\ late' = IF f \in typed THEN late ELSE late \ {f}
          /\ typed' = typed \ {f}
      BY <1>2, <2>4 DEF SaveAnswer
    <3>2. \A g \in typed' : g \in typed /\ g # f /\ tabs'[g] = tabs[g]
      BY <3>1 DEF TypeInv
    <3>3. f \in typed => f \in late
      BY <2>1 DEF TypingInv, Pending
    <3> HIDE DEF saved, f
    <3>4. lost' \subseteq late'
      BY <3>1, <3>3 DEF TypingInv, TypingKept
    <3>5. \A g \in typed' : /\ Loaded(g)' /\ tabs'[g].dirty
                            /\ Pending(g)' => g \in late'
      BY <2>2, <3>1, <3>2 DEF TypingInv, Loaded, Open, TypeInv
    <3>6. ~shown' => typed' = {} /\ lost' = {}
      BY <2>1, <3>1 DEF TypingInv
    <3> QED
      BY <3>4, <3>5, <3>6 DEF TypingInv, TypingKept
  <2> QED
    BY <2>3, <2>4
<1>3. ASSUME NEW r \in Reads, ReadAnswer(r) PROVE TypingInv'
  <2> DEFINE f == reads[r].path
             t == reads[r].answer
  <2>1. /\ reads[r] \in ReadRec /\ f \in Files /\ r \in Out(f)
        /\ t \in Texts \cup {None}
    BY <1>3 DEF ReadAnswer, Answered, TypeInv, ReadRec, Out, Free
  <2>2. save' = save /\ shown' = shown /\ reads' = [reads EXCEPT ![r] = None]
    BY <1>3 DEF ReadAnswer
  <2>3. \A g \in Files : Pending(g)' => Pending(g)
    BY <2>2 DEF Pending, Saving, Out, Free, TypeInv
  <2>4. CASE UNCHANGED <<tabs, typed, late, lost>>
    BY <2>2, <2>3, <2>4, TypingFrame DEF TypingInv, Loaded, Open, TypeInv
  <2>5. ASSUME Open(f), t # None, NEW tab \in Tab, tab.text # None,
               tabs' = [tabs EXCEPT ![f] = tab], tab.dirty = tabs[f].dirty,
               Shows(f, t), f \in typed => f \in late
        PROVE  TypingInv'
    <3>1. /\ typed' \subseteq typed /\ late' = late
          /\ lost' \subseteq lost \cup ({f} \cap typed)
      BY <2>5 DEF Shows
    <3> HIDE DEF f, t
    <3>2. \A g \in typed' : Loaded(g)' /\ tabs'[g].dirty
      BY <2>1, <2>5, <3>1, EditorAssumption DEF TypingInv, TypeInv, Loaded, Open
    <3>3. ~shown' => typed' = {} /\ lost' = {}
      BY <2>2, <3>1 DEF TypingInv
    <3>4. lost' \subseteq late'
      BY <2>5, <3>1 DEF TypingInv, TypingKept
    <3> QED
      BY <2>3, <3>1, <3>2, <3>3, <3>4 DEF TypingInv, TypingKept, TypeInv
  <2>6. CASE Open(f) /\ t # None /\ reads[r].kind = "open" /\ OpenAnswer(f, t)
    <3> DEFINE tab == [tabs[f] EXCEPT !.text = t]
    <3>1. tab \in Tab /\ tab.text # None /\ tab.dirty = tabs[f].dirty
      BY <2>1, <2>6 DEF TypeInv, Open, Tab
    <3>2. f \in typed => f \in late
      BY <2>1, <2>6 DEF TypingInv, Pending
    <3>3. tabs' = [tabs EXCEPT ![f] = tab] /\ Shows(f, t)
      BY <2>6 DEF OpenAnswer
    <3> HIDE DEF tab
    <3> QED
      BY <2>5, <2>6, <3>1, <3>2, <3>3
  <2>7. CASE Open(f) /\ t # None /\ ~tabs[f].dirty /\ OpenAnswer(f, t)
    <3> DEFINE tab == [tabs[f] EXCEPT !.text = t]
    <3>1. tab \in Tab /\ tab.text # None /\ tab.dirty = tabs[f].dirty
      BY <2>1, <2>7 DEF TypeInv, Open, Tab
    <3>2. f \in typed => f \in late
      BY <2>7 DEF TypingInv
    <3>3. tabs' = [tabs EXCEPT ![f] = tab] /\ Shows(f, t)
      BY <2>7 DEF OpenAnswer
    <3> HIDE DEF tab
    <3> QED
      BY <2>5, <2>7, <3>1, <3>2, <3>3
  <2>8. CASE /\ Open(f) /\ tabs[f].dirty /\ UNCHANGED history
             /\ tabs' = [tabs EXCEPT ![f].conflict = t]
    <3> DEFINE tab == [tabs[f] EXCEPT !.conflict = t]
    <3>1. tab \in Tab /\ tab.text = tabs[f].text /\ tab.dirty = tabs[f].dirty
      BY <2>1, <2>8 DEF TypeInv, Open, Tab
    <3>2. tabs' = [tabs EXCEPT ![f] = tab]
      BY <2>8
    <3> HIDE DEF tab, f, t
    <3>3. \A g \in typed : Loaded(g)' /\ tabs'[g].dirty
      BY <2>1, <3>1, <3>2, EditorAssumption DEF TypingInv, TypeInv, Loaded, Open
    <3> QED
      BY <2>2, <2>3, <2>8, <3>3, TypingFrame DEF TypeInv
  <2>9. CASE Open(f) /\ t # None /\ TheirsAnswer(f, t)
    <3> DEFINE tab == [text |-> t, dirty |-> FALSE, conflict |-> None]
    <3>1. /\ tabs' = [tabs EXCEPT ![f] = tab]
          /\ typed' = typed \ {f} /\ late' = late \ {f} /\ lost' = lost \ {f}
      BY <2>9 DEF TheirsAnswer
    <3> HIDE DEF tab, f
    <3>2. \A g \in typed' : g \in typed /\ g # f /\ tabs'[g] = tabs[g]
      BY <3>1 DEF TypeInv
    <3> QED
      BY <2>2, <2>3, <3>1, <3>2 DEF TypingInv, TypingKept, TypeInv, Loaded, Open
  <2>10. CASE Untaken
    BY <2>4, <2>10 DEF Untaken
  <2>11. CASE Ignored(f)
    BY <2>4, <2>11 DEF Ignored
  <2>12. CASE Open(f) /\ t # None /\ reads[r].kind = "reload" /\ ReloadAnswer(f, t)
    BY <2>7, <2>11, <2>12 DEF ReloadAnswer, OpenAnswer
  <2>13. CASE Open(f) /\ t # None /\ ConflictAnswer(f, t)
    BY <2>8, <2>11, <2>13 DEF ConflictAnswer
  <2> QED
    BY <1>3, <2>6, <2>9, <2>10, <2>12, <2>13 DEF ReadAnswer
<1> QED
  BY <1>1, <1>2, <1>3

LEMMA TypingEvent ==
  ASSUME TypeInv, TypingInv, FileEvent
  PROVE  TypingInv'
<1> USE DEF place, server, history
<1> DEFINE e == Head(events)
<1>1. /\ e.path \in Files
      /\ e.action = "renamed" => e.old \in Files \ {e.path}
  <2>1. e \in EventRec /\ e = events[1] /\ 1 \in DOMAIN events
    BY DEF FileEvent, TypeInv
  <2> QED
    BY <2>1 DEF EventRec, TypeInv
<1>2. shown' = shown /\ save' = save
  BY DEF FileEvent
<1>3. CASE UNCHANGED <<tabs, reads, typed, late, lost>>
  BY <1>2, <1>3 DEF TypingInv, TypingKept, Loaded, Open, Pending, Saving, Out, Free
<1>4. CASE CloseTabs({e.path}) /\ UNCHANGED reads
  <2>1. \A f \in typed' : f \in typed /\ f # e.path /\ tabs'[f] = tabs[f]
    BY <1>4 DEF CloseTabs, Forget, TypeInv
  <2> QED
    BY <1>2, <1>4, <2>1
       DEF CloseTabs, Forget, TypingInv, TypingKept, Loaded, Open, Pending, Saving, Out, Free
<1>5. CASE /\ Send("conflict", e.path) \/ Send("reload", e.path)
           /\ UNCHANGED <<tabs, typed, late, lost>>
  <2>1. \A g \in typed : Pending(g)' => Pending(g)
    BY <1>1, <1>2, <1>5, OtherRequest DEF TypeInv
  <2> QED
    BY <1>2, <1>5, <2>1, TypingFrame DEF TypingInv, Loaded, Open
<1>6. CASE e.action = "renamed" /\ RenameTab(e.old, e.path) /\ Open(e.old) /\ UNCHANGED reads
  <2> DEFINE f == e.path
             old == e.old
  <2>1. f \in Files /\ old \in Files /\ f # old
    BY <1>1, <1>6
  <2>2. /\ tabs' = [tabs EXCEPT ![f] = tabs[old], ![old] = None]
        /\ typed' = Moved(typed, old, f) /\ lost' = Moved(lost, old, f)
        /\ late' = Moved(late, old, f) \cup ({f} \cap Asked)
    BY <1>6 DEF RenameTab
  <2> HIDE DEF f, old
  <2>3. \A g \in Files : Pending(g)' = Pending(g)
    BY <1>2, <1>6 DEF Pending, Saving, Out, Free
  <2>4. Pending(f) => f \in Asked
    BY <2>1 DEF Pending, Asked
  <2>5. lost' \subseteq late' /\ (~shown' => typed' = {} /\ lost' = {})
    BY <1>2, <2>2 DEF Moved, TypingInv, TypingKept
  <2>6. ASSUME NEW g \in typed'
        PROVE  Loaded(g)' /\ tabs'[g].dirty /\ (Pending(g)' => g \in late')
    <3>1. CASE g = f
      <4>1. old \in typed /\ tabs'[g] = tabs[old]
        BY <2>1, <2>2, <2>6, <3>1 DEF Moved, TypeInv
      <4> QED
        BY <2>1, <2>2, <2>3, <2>4, <3>1, <4>1 DEF TypingInv, Loaded, Open
    <3>2. CASE g # f
      <4>1. g \in typed /\ g # old
        BY <2>1, <2>2, <2>6, <3>2 DEF Moved
      <4>2. tabs'[g] = tabs[g] /\ (g \in late => g \in late')
        BY <2>1, <2>2, <3>2, <4>1 DEF Moved, TypeInv
      <4> QED
        BY <2>3, <4>1, <4>2 DEF TypingInv, Loaded, Open, TypeInv
    <3> QED
      BY <3>1, <3>2
  <2> QED
    BY <2>5, <2>6 DEF TypingInv, TypingKept
<1> QED
  BY <1>3, <1>4, <1>5, <1>6 DEF FileEvent, HandleFileEvent, Ignored

LEMMA TypingNext == TypeInv /\ TypingInv /\ [Next]_vars => TypingInv'
<1> SUFFICES ASSUME TypeInv, TypingInv, [Next]_vars PROVE TypingInv'
  OBVIOUS
<1>1. CASE UNCHANGED vars
  BY <1>1 DEF vars, place, server, history, TypingInv, TypingKept, Loaded, Open, Pending,
              Saving, Out, Free
<1>2. {selected, current} \ {None} \subseteq Projects
  BY DEF TypeInv
<1> QED
  BY <1>1, <1>2, TypingUser, TypingServer, TypingAnswer, TypingEvent DEF Next

(* While the editor is open, nothing that arrives takes the place of what  *)
(* was typed, but in the tabs that were typed in, or renamed, while a save *)
(* or a second request to open them was out.                               *)
THEOREM TypingKeptCorrect == Spec => []TypingKept
<1>1. Init => TypingInv
  BY DEF Init, TypingInv, TypingKept
<1>2. TypingInv => TypingKept
  BY DEF TypingInv
<1> QED
  BY <1>1, <1>2, TypeInit, TypeNext, TypingNext, PTL DEF Spec

-----------------------------------------------------------------------------
(* Whose texts.  OwnInv: the server's files and the answers have texts of  *)
(* their own project, and a request for another project than the one open  *)
(* is one for a path that was asked for at the switch.                     *)

ReadOwn(r) ==
  reads[r] # None =>
    /\ reads[r].answer \notin {None, Waiting} => reads[r].answer.from = reads[r].project
    /\ reads[r].project = current \/ reads[r].path \in crossed

SaveOwn ==
  save # None => /\ save.answer # Waiting => save.answer.from = save.project
                 /\ save.project = current \/ save.path \in crossed

DiskOwn == \A p \in Projects, f \in Files : disk[p][f] # None => disk[p][f].from = p

TextOwn(f) == Loaded(f) => tabs[f].text.from = current \/ f \in crossed

OwnInv ==
  /\ shown => current = selected
  /\ DiskOwn /\ SaveOwn
  /\ \A r \in Reads : ReadOwn(r)
  /\ \A f \in Files : TextOwn(f)

LEMMA SendOwn ==
  ASSUME TypeInv, OwnInv, NEW f \in Files, NEW k \in {"open", "reload", "conflict", "theirs"},
         Send(k, f), current' = current, crossed' = crossed
  PROVE  \A r \in Reads : ReadOwn(r)'
<1>1. PICK q \in Reads : reads' = [reads EXCEPT ![q] = Request(k, f)]
  BY DEF Send, Free
<1>2. ASSUME NEW r \in Reads PROVE ReadOwn(r)'
  <2>1. CASE r = q
    <3>1. reads'[r] = Request(k, f)
      BY <1>1, <2>1 DEF TypeInv
    <3> QED
      BY <3>1 DEF Request, ReadOwn
  <2>2. CASE r # q
    <3>1. reads'[r] = reads[r] /\ ReadOwn(r)
      BY <1>1, <2>2 DEF TypeInv, OwnInv
    <3> QED
      BY <3>1 DEF ReadOwn
  <2> QED
    BY <2>1, <2>2
<1> QED
  BY <1>2

(* Tabs that keep their texts, or have none.                               *)
LEMMA TextFrame ==
  ASSUME NEW f \in Files, TextOwn(f), current' = current, f \in crossed => f \in crossed',
         Loaded(f)' => Loaded(f) /\ tabs'[f].text = tabs[f].text
  PROVE  TextOwn(f)'
BY DEF TextOwn

(* What is not asked for may be forgotten.                                 *)
LEMMA CrossedFrame ==
  ASSUME TypeInv, OwnInv, UNCHANGED <<reads, save, current>>, crossed \cap Asked \subseteq crossed'
  PROVE  SaveOwn' /\ \A r \in Reads : ReadOwn(r)'
<1>1. ASSUME NEW r \in Reads PROVE ReadOwn(r)'
  <2>1. ReadOwn(r) /\ (reads[r] # None => reads[r].path \in Asked)
    BY DEF OwnInv, TypeInv, ReadRec, Asked, Out, Free
  <2> QED
    BY <2>1 DEF ReadOwn
<1>2. SaveOwn'
  <2>1. SaveOwn /\ (save # None => save.path \in Asked)
    BY DEF OwnInv, TypeInv, SaveRec, Asked, Saving
  <2> QED
    BY <2>1 DEF SaveOwn
<1> QED
  BY <1>1, <1>2

LEMMA OwnUser ==
  ASSUME TypeInv, OwnInv,
         OpenEditor \/ Close \/ (\E p \in Projects : SelectProject(p))
           \/ \E f \in Files : OpenTab(f) \/ Type(f) \/ Save(f) \/ KeepMine(f) \/ LoadTheirs(f)
  PROVE  OwnInv'
<1> USE DEF place, server, history
<1>1. ASSUME NEW p \in Projects, SelectProject(p) PROVE OwnInv'
  <2>1. UNCHANGED <<current, tabs, reads, save, disk, crossed>> /\ ~shown'
    BY <1>1 DEF SelectProject
  <2> QED
    BY <2>1 DEF OwnInv, DiskOwn, SaveOwn, ReadOwn, TextOwn, Loaded, Open
<1>2. CASE OpenEditor /\ current = selected
  <2>1. UNCHANGED <<current, selected, tabs, reads, save, disk, crossed>>
    BY <1>2 DEF OpenEditor
  <2> QED
    BY <1>2, <2>1 DEF OwnInv, DiskOwn, SaveOwn, ReadOwn, TextOwn, Loaded, Open
<1>3. CASE OpenEditor /\ current # selected
  <2>1. /\ current' = selected /\ selected' = selected /\ crossed' = Asked
        /\ UNCHANGED <<disk, save>>
        /\ tabs' = [f \in Files |-> IF f \in stored'[current'] THEN Empty ELSE None]
    BY <1>3 DEF OpenEditor
  <2>2. \A f \in Files : ~Loaded(f)'
    BY <2>1 DEF Loaded, Open, Empty
  <2>3. ASSUME NEW r \in Reads PROVE ReadOwn(r)'
    <3>1. CASE reads'[r] = reads[r]
      <4>1. ReadOwn(r) /\ (reads[r] # None => reads[r].path \in Asked)
        BY DEF OwnInv, TypeInv, ReadRec, Asked, Out, Free
      <4> QED
        BY <2>1, <3>1, <4>1 DEF ReadOwn
    <3>2. CASE \E f : reads'[r] = [Request("open", f) EXCEPT !.project = current']
      <4>1. reads'[r].answer = Waiting /\ reads'[r].project = current'
        BY <3>2 DEF Request
      <4> QED
        BY <4>1 DEF ReadOwn
    <3>3. reads'[r] = reads[r] \/ \E f : reads'[r] = [Request("open", f) EXCEPT !.project = current']
      BY <1>3 DEF OpenEditor
    <3> QED
      BY <3>1, <3>2, <3>3
  <2>4. SaveOwn'
    <3>1. SaveOwn /\ (save # None => save.path \in Asked)
      BY DEF OwnInv, TypeInv, SaveRec, Asked, Saving
    <3> QED
      BY <2>1, <3>1 DEF SaveOwn
  <2>5. DiskOwn'
    BY <2>1 DEF OwnInv, DiskOwn
  <2> QED
    BY <2>1, <2>2, <2>3, <2>4, <2>5 DEF OwnInv, TextOwn
<1>4. CASE Close
  <2>1. PICK F \in SUBSET Files : CloseTabs(F)
    BY <1>4 DEF Close, OpenTabs
  <2>2. UNCHANGED <<shown, selected, current, disk, reads, save>>
    BY <1>4 DEF Close
  <2>3. /\ tabs' = [f \in Files |-> IF f \in F THEN None ELSE tabs[f]]
        /\ crossed' = crossed \ (F \ Asked)
    BY <2>1 DEF CloseTabs, Forget
  <2>4. SaveOwn' /\ \A r \in Reads : ReadOwn(r)'
    BY <2>2, <2>3, CrossedFrame
  <2>5. \A f \in Files : TextOwn(f)'
    BY <2>2, <2>3 DEF OwnInv, TextOwn, Loaded, Open
  <2> QED
    BY <2>2, <2>4, <2>5 DEF OwnInv, DiskOwn
<1>5. ASSUME NEW f \in Files, OpenTab(f) \/ LoadTheirs(f) PROVE OwnInv'
  <2>1. UNCHANGED <<shown, selected, current, disk, save, crossed>>
    BY <1>5 DEF OpenTab, LoadTheirs
  <2>2. \A r \in Reads : ReadOwn(r)'
    <3>1. CASE reads' = reads
      BY <2>1, <3>1 DEF OwnInv, ReadOwn
    <3>2. CASE Send("open", f) \/ Send("theirs", f)
      BY <2>1, <3>2, SendOwn
    <3> QED
      BY <1>5, <3>1, <3>2 DEF OpenTab, LoadTheirs
  <2>3. ASSUME NEW g \in Files PROVE TextOwn(g)'
    <3>1. tabs'[g] = tabs[g] \/ tabs'[g] = Empty
      BY <1>5 DEF OpenTab, LoadTheirs, TypeInv
    <3>2. Loaded(g)' => Loaded(g) /\ tabs'[g].text = tabs[g].text
      BY <3>1 DEF Loaded, Open, Empty
    <3> QED
      BY <2>1, <3>2, TextFrame DEF OwnInv
  <2> QED
    BY <2>1, <2>2, <2>3 DEF OwnInv, DiskOwn, SaveOwn
<1>6. ASSUME NEW f \in Files, Type(f) \/ KeepMine(f) PROVE OwnInv'
  <2>1. UNCHANGED <<shown, selected, current, disk, reads, save, crossed>> /\ Loaded(f)
    BY <1>6 DEF Type, KeepMine
  <2>2. ASSUME NEW g \in Files PROVE TextOwn(g)'
    <3>1. g # f => tabs'[g] = tabs[g]
      BY <1>6 DEF Type, KeepMine, TypeInv
    <3>2. tabs'[f].text = tabs[f].text
      BY <1>6, <2>1 DEF Type, KeepMine, TypeInv, Tab, Loaded, Open
    <3> QED
      BY <2>1, <3>1, <3>2, TextFrame DEF OwnInv, Loaded, Open
  <2> QED
    BY <2>1, <2>2 DEF OwnInv, DiskOwn, SaveOwn, ReadOwn
<1>7. ASSUME NEW f \in Files, Save(f) PROVE OwnInv'
  <2>1. /\ UNCHANGED <<shown, selected, current, tabs, disk, reads, crossed>>
        /\ save'.answer = Waiting /\ save'.project = current
    BY <1>7 DEF Save, OwnInv
  <2> QED
    BY <2>1 DEF OwnInv, DiskOwn, SaveOwn, ReadOwn, TextOwn, Loaded, Open
<1> QED
  BY <1>1, <1>2, <1>3, <1>4, <1>5, <1>6, <1>7

LEMMA OwnServer ==
  ASSUME TypeInv, OwnInv,
         \/ ServeSave \/ \E r \in Reads : ServeRead(r)
         \/ \E p \in Projects, f \in Files :
              OtherWrites(p, f) \/ OtherDeletes(p, f) \/ \E old \in Files : OtherRenames(p, old, f)
  PROVE  OwnInv'
<1> USE DEF place, server, history
<1>1. UNCHANGED <<shown, selected, current, tabs, crossed>>
  BY DEF ServeSave, ServeRead, OtherWrites, OtherDeletes, OtherRenames, place
<1>2. (shown' => current' = selected') /\ \A f \in Files : TextOwn(f)'
  BY <1>1 DEF OwnInv, TextOwn, Loaded, Open
<1>3. ASSUME NEW p \in Projects, NEW f \in Files, Written(p, f)
      PROVE  DiskOwn' /\ disk'[p][f].from = p
  BY <1>3 DEF Written, TypeInv, OwnInv, DiskOwn
<1>4. ASSUME NEW r \in Reads, ServeRead(r) PROVE OwnInv'
  <2>1. /\ reads[r] \in ReadRec /\ UNCHANGED <<save, disk>>
        /\ reads' = [reads EXCEPT ![r] = [reads[r] EXCEPT !.answer =
                                            disk[reads[r].project][reads[r].path]]]
    BY <1>4 DEF ServeRead, TypeInv
  <2>2. ASSUME NEW q \in Reads PROVE ReadOwn(q)'
    <3>1. CASE q = r
      <4>1. /\ reads'[r].answer = disk[reads[r].project][reads[r].path]
            /\ reads'[r].project = reads[r].project /\ reads'[r].path = reads[r].path
        BY <2>1 DEF TypeInv, ReadRec
      <4>2. reads[r].project \in Projects /\ reads[r].path \in Files /\ reads[r] # None
        BY <1>4, <2>1 DEF ReadRec, ServeRead
      <4>3. reads[r].project = current \/ reads[r].path \in crossed
        BY <4>2 DEF OwnInv, ReadOwn
      <4>4. reads'[r].answer # None => reads'[r].answer.from = reads'[r].project
        BY <4>1, <4>2 DEF OwnInv, DiskOwn
      <4> QED
        BY <1>1, <3>1, <4>1, <4>3, <4>4 DEF ReadOwn
    <3>2. CASE q # r
      <4>1. reads'[q] = reads[q] /\ ReadOwn(q)
        BY <2>1, <3>2 DEF TypeInv, OwnInv
      <4> QED
        BY <1>1, <4>1 DEF ReadOwn
    <3> QED
      BY <3>1, <3>2
  <2> QED
    BY <1>1, <1>2, <2>1, <2>2 DEF OwnInv, DiskOwn, SaveOwn
<1>5. CASE ServeSave
  <2>1. /\ save \in SaveRec /\ save.project \in Projects /\ save.path \in Files /\ save # None
        /\ Written(save.project, save.path) /\ reads' = reads
        /\ save' = [save EXCEPT !.answer = disk'[save.project][save.path]]
    BY <1>5 DEF ServeSave, TypeInv, SaveRec
  <2>2. DiskOwn' /\ disk'[save.project][save.path].from = save.project
    BY <1>3, <2>1
  <2>3. /\ save'.answer = disk'[save.project][save.path]
        /\ save'.project = save.project /\ save'.path = save.path
    BY <2>1 DEF SaveRec
  <2>4. SaveOwn'
    BY <1>1, <2>1, <2>2, <2>3 DEF SaveOwn, OwnInv
  <2>5. \A r \in Reads : ReadOwn(r)'
    BY <1>1, <2>1 DEF OwnInv, ReadOwn
  <2> QED
    BY <1>2, <2>2, <2>4, <2>5 DEF OwnInv
<1>6. ASSUME DiskOwn', UNCHANGED <<reads, save>> PROVE OwnInv'
  BY <1>1, <1>2, <1>6 DEF OwnInv, ReadOwn, SaveOwn
<1>7. ASSUME NEW p \in Projects, NEW f \in Files, OtherWrites(p, f) PROVE OwnInv'
  BY <1>3, <1>6, <1>7 DEF OtherWrites
<1>8. ASSUME NEW p \in Projects, NEW f \in Files, OtherDeletes(p, f) PROVE OwnInv'
  <2>1. DiskOwn'
    BY <1>8 DEF OtherDeletes, OwnInv, DiskOwn, TypeInv
  <2> QED
    BY <1>6, <1>8, <2>1 DEF OtherDeletes
<1>9. ASSUME NEW p \in Projects, NEW f \in Files, NEW old \in Files, OtherRenames(p, old, f)
      PROVE  OwnInv'
  <2>1. /\ disk' = [disk EXCEPT ![p][f] = disk[p][old], ![p][old] = None]
        /\ disk[p][old] # None /\ disk[p][old].from = p /\ f # old
    BY <1>9 DEF OtherRenames, OwnInv, DiskOwn
  <2>2. \A q \in Projects, g \in Files :
          disk'[q][g] = IF q = p /\ g = old THEN None
                        ELSE IF q = p /\ g = f THEN disk[p][old] ELSE disk[q][g]
    BY <2>1 DEF TypeInv
  <2>3. ASSUME NEW q \in Projects, NEW g \in Files, disk'[q][g] # None
        PROVE  disk'[q][g].from = q
    <3> DEFINE d == disk'[q][g]
    <3>1. disk[q][g] # None => disk[q][g].from = q
      BY DEF OwnInv, DiskOwn
    <3>2. d = IF q = p /\ g = old THEN None ELSE IF q = p /\ g = f THEN disk[p][old] ELSE disk[q][g]
      BY <2>2
    <3>3. disk[p][old].from = p
      BY <2>1
    <3> HIDE DEF d
    <3>4. d # None => d.from = q
      BY <3>1, <3>2, <3>3
    <3> QED
      BY <2>3, <3>4 DEF d
  <2>4. DiskOwn'
    BY <2>3 DEF DiskOwn
  <2> QED
    BY <1>6, <1>9, <2>4 DEF OtherRenames
<1> QED
  BY <1>4, <1>5, <1>7, <1>8, <1>9

LEMMA OwnAnswer ==
  ASSUME TypeInv, OwnInv, SaveAnswer \/ SaveFails \/ \E r \in Reads : ReadAnswer(r)
  PROVE  OwnInv'
<1> USE DEF place, server, history
<1>1. UNCHANGED <<shown, selected, current, disk>>
  BY DEF SaveAnswer, SaveFails, ReadAnswer
<1>2. (shown' => current' = selected') /\ DiskOwn'
  BY <1>1 DEF OwnInv, DiskOwn
<1>3. \A r \in Reads : reads'[r] \in {reads[r], None}
  BY DEF SaveAnswer, SaveFails, ReadAnswer, TypeInv
<1>4. save' \in {save, None}
  BY DEF SaveAnswer, SaveFails, ReadAnswer
<1>5. crossed' = crossed \/ crossed' = crossed \cap (OpenTabs \cup Asked')
  BY DEF SaveAnswer, SaveFails, ReadAnswer, Untaken, OpenAnswer, ReloadAnswer, ConflictAnswer,
         TheirsAnswer, Ignored, Shows
<1>6. ASSUME NEW r \in Reads PROVE ReadOwn(r)'
  <2>1. SUFFICES ASSUME reads'[r] # None PROVE ReadOwn(r)'
    BY DEF ReadOwn
  <2>2. reads'[r] = reads[r] /\ ReadOwn(r)
    BY <1>3, <2>1 DEF OwnInv
  <2>3. reads[r].path \in Files
    BY <2>1, <2>2 DEF TypeInv, ReadRec
  <2>4. reads[r].path \in Asked'
    BY <2>1, <2>2, <2>3 DEF Asked, Out, Free
  <2> QED
    BY <1>1, <1>5, <2>2, <2>4 DEF ReadOwn
<1>7. SaveOwn'
  <2>1. SUFFICES ASSUME save' # None PROVE SaveOwn'
    BY DEF SaveOwn
  <2>2. save' = save /\ SaveOwn
    BY <1>4, <2>1 DEF OwnInv
  <2>3. save.path \in Files
    BY <2>1, <2>2 DEF TypeInv, SaveRec
  <2>4. save.path \in Asked'
    BY <2>1, <2>2, <2>3 DEF Asked, Saving
  <2> QED
    BY <1>1, <1>5, <2>2, <2>4 DEF SaveOwn
<1>8. ASSUME UNCHANGED tabs PROVE \A f \in Files : TextOwn(f)'
  BY <1>1, <1>5, <1>8 DEF OwnInv, TextOwn, Loaded, Open, OpenTabs
<1>9. ASSUME NEW f \in Files, NEW t, t.from = current \/ f \in crossed, crossed' = crossed,
             Open(f), tabs'[f].text \in {t, tabs[f].text}, \A g \in Files \ {f} : tabs'[g] = tabs[g]
      PROVE  \A g \in Files : TextOwn(g)'
  <2> SUFFICES ASSUME NEW g \in Files PROVE TextOwn(g)'
    OBVIOUS
  <2>1. CASE g = f
    BY <1>1, <1>9, <2>1 DEF OwnInv, TextOwn, Loaded, Open
  <2>2. CASE g # f
    BY <1>1, <1>9, <2>2, TextFrame DEF OwnInv, Loaded, Open
  <2> QED
    BY <2>1, <2>2
<1>10. CASE SaveFails
  BY <1>8, <1>10, <1>2, <1>6, <1>7 DEF SaveFails, Untaken, OwnInv
<1>11. CASE SaveAnswer
  <2> DEFINE f == save.path
             t == save.answer
  <2>1. f \in Files /\ (t.from = current \/ f \in crossed)
    BY <1>11 DEF SaveAnswer, OwnInv, SaveOwn, TypeInv, SaveRec
  <2>2. CASE ~Open(f)
    BY <1>2, <1>6, <1>7, <1>8, <1>11, <2>2 DEF SaveAnswer, Untaken, OwnInv
  <2>3. CASE Open(f)
    <3>1. /\ tabs' = [tabs EXCEPT ![f] = [text |-> t, dirty |-> FALSE, conflict |-> None]]
          /\ crossed' = crossed
      BY <1>11, <2>3 DEF SaveAnswer
    <3>2. tabs'[f].text = t /\ \A g \in Files \ {f} : tabs'[g] = tabs[g]
      BY <2>1, <3>1 DEF TypeInv
    <3> HIDE DEF f, t
    <3>3. \A g \in Files : TextOwn(g)'
      BY <1>9, <2>1, <2>3, <3>1, <3>2
    <3> QED
      BY <1>2, <1>6, <1>7, <3>3 DEF OwnInv
  <2> QED
    BY <2>2, <2>3
<1>12. ASSUME NEW r \in Reads, ReadAnswer(r) PROVE OwnInv'
  <2> DEFINE f == reads[r].path
             t == reads[r].answer
  <2>1. reads[r] # None /\ t # Waiting /\ f \in Files
    BY <1>12 DEF ReadAnswer, Answered, TypeInv, ReadRec
  <2>2. CASE ~Open(f) \/ t = None
    BY <1>2, <1>6, <1>7, <1>8, <1>12, <2>2 DEF ReadAnswer, Untaken, OwnInv
  <2>3. CASE Open(f) /\ t # None
    <3>1. t.from = current \/ f \in crossed
      BY <2>1, <2>3 DEF OwnInv, ReadOwn
    <3>2. OpenAnswer(f, t) \/ ReloadAnswer(f, t) \/ ConflictAnswer(f, t) \/ TheirsAnswer(f, t)
      BY <1>12, <2>3 DEF ReadAnswer
    <3>3. crossed' = crossed
      BY <3>2 DEF OpenAnswer, ReloadAnswer, ConflictAnswer, TheirsAnswer, Ignored, Shows
    <3>4. tabs[f] \in Tab
      BY <2>1, <2>3 DEF TypeInv, Open
    <3>5. tabs'[f].text \in {t, tabs[f].text} /\ \A g \in Files \ {f} : tabs'[g] = tabs[g]
      <4> HIDE DEF f, t
      <4> QED
        BY <2>1, <3>2, <3>4 DEF OpenAnswer, ReloadAnswer, ConflictAnswer, TheirsAnswer, Ignored,
                               TypeInv, Tab
    <3> HIDE DEF f, t
    <3>6. \A g \in Files : TextOwn(g)'
      BY <1>9, <2>1, <2>3, <3>1, <3>3, <3>5
    <3> QED
      BY <1>2, <1>6, <1>7, <3>6 DEF OwnInv
  <2> QED
    BY <2>2, <2>3
<1> QED
  BY <1>10, <1>11, <1>12

LEMMA OwnEvent ==
  ASSUME TypeInv, OwnInv, FileEvent
  PROVE  OwnInv'
<1> USE DEF place, server, history
<1> DEFINE e == Head(events)
<1>1. /\ e.path \in Files
      /\ e.action = "renamed" => e.old \in Files \ {e.path}
  <2>1. e \in EventRec /\ e = events[1] /\ 1 \in DOMAIN events
    BY DEF FileEvent, TypeInv
  <2> QED
    BY <2>1 DEF EventRec, TypeInv
<1>2. UNCHANGED <<shown, selected, current, disk, save>>
  BY DEF FileEvent
<1>3. (shown' => current' = selected') /\ DiskOwn'
  BY <1>2 DEF OwnInv, DiskOwn
<1>4. CASE UNCHANGED <<tabs, reads, crossed>>
  BY <1>2, <1>3, <1>4 DEF OwnInv, SaveOwn, ReadOwn, TextOwn, Loaded, Open
<1>5. CASE CloseTabs({e.path}) /\ UNCHANGED reads
  <2>1. /\ tabs' = [f \in Files |-> IF f \in {e.path} THEN None ELSE tabs[f]]
        /\ crossed' = crossed \ ({e.path} \ Asked)
    BY <1>5 DEF CloseTabs, Forget
  <2>2. SaveOwn' /\ \A r \in Reads : ReadOwn(r)'
    BY <1>2, <1>5, <2>1, CrossedFrame
  <2>3. \A f \in Files : TextOwn(f)'
    BY <1>2, <2>1 DEF OwnInv, TextOwn, Loaded, Open
  <2> QED
    BY <1>3, <2>2, <2>3 DEF OwnInv
<1>6. CASE /\ Send("conflict", e.path) \/ Send("reload", e.path)
           /\ UNCHANGED <<tabs, crossed>>
  <2>1. \A r \in Reads : ReadOwn(r)'
    BY <1>1, <1>2, <1>6, SendOwn
  <2> QED
    BY <1>2, <1>3, <1>6, <2>1 DEF OwnInv, SaveOwn, TextOwn, Loaded, Open
<1>7. CASE e.action = "renamed" /\ RenameTab(e.old, e.path) /\ Open(e.old) /\ UNCHANGED reads
  <2> DEFINE f == e.path
             old == e.old
  <2>1. f \in Files /\ old \in Files /\ f # old
    BY <1>1, <1>7
  <2>2. /\ tabs' = [tabs EXCEPT ![f] = tabs[old], ![old] = None]
        /\ crossed' = IF old \in crossed THEN crossed \cup {f} ELSE crossed
    BY <1>7 DEF RenameTab
  <2> HIDE DEF f, old
  <2>3. SaveOwn' /\ \A r \in Reads : ReadOwn(r)'
    BY <1>2, <1>7, <2>2, CrossedFrame
  <2>4. ASSUME NEW g \in Files PROVE TextOwn(g)'
    <3>1. tabs'[g] = IF g = old THEN None ELSE IF g = f THEN tabs[old] ELSE tabs[g]
      BY <2>1, <2>2 DEF TypeInv
    <3> QED
      BY <1>2, <2>1, <2>2, <3>1 DEF OwnInv, TextOwn, Loaded, Open
  <2> QED
    BY <1>3, <2>3, <2>4 DEF OwnInv
<1> QED
  BY <1>4, <1>5, <1>6, <1>7 DEF FileEvent, HandleFileEvent, Ignored

LEMMA OwnNext == TypeInv /\ OwnInv /\ [Next]_vars => OwnInv'
<1> SUFFICES ASSUME TypeInv, OwnInv, [Next]_vars PROVE OwnInv'
  OBVIOUS
<1>1. CASE UNCHANGED vars
  BY <1>1 DEF vars, place, server, history, OwnInv, DiskOwn, SaveOwn, ReadOwn, TextOwn, Loaded,
              Open
<1>2. {selected, current} \ {None} \subseteq Projects
  BY DEF TypeInv
<1> QED
  BY <1>1, <1>2, OwnUser, OwnServer, OwnAnswer, OwnEvent DEF Next

LEMMA OwnInit == Init => OwnInv
BY EditorAssumption DEF Init, OwnInv, DiskOwn, SaveOwn, ReadOwn, TextOwn, Loaded, Open

(* A tab shows a text of the project it belongs to, but where a request    *)
(* for its path was out when the project was switched: for any number of   *)
(* projects and requests, and in whatever order the answers come.          *)
THEOREM OwnContentCorrect == Spec => []OwnContent
<1>1. OwnInv => OwnContent
  BY DEF OwnInv, TextOwn, OwnContent
<1> QED
  BY <1>1, TypeInit, TypeNext, OwnInit, OwnNext, PTL DEF Spec

-----------------------------------------------------------------------------
(* What a tab is told.  KnownInv says of a path that is not exempt: answers*)
(* are out only for an open tab; a file that is gone has an event about it *)
(* on its way, if a text of it is shown or coming; and if such a text is   *)
(* not the file's, there is a sign: an event, an answer that will correct  *)
(* it, or a conflict.                                                      *)

Exempt(f)   == f \in unaware \cup crossed
About(e, f) == e.project = current /\ f \in {e.path, e.old}
Tellings(f) == {events[i] : i \in {j \in DOMAIN events : About(events[j], f)}}
Answers(f)  == {reads[r].answer : r \in Out(f)}
Saved(f)    == IF Saving(f) THEN {save.answer} ELSE {}
Coming(f)   == (Answers(f) \cup Saved(f)) \ {None, Waiting}
Leaves(e, f) == \/ e.action = "deleted" /\ e.path = f
                \/ e.action = "renamed" /\ e.old = f

TabFor(f) == Answers(f) \cup Saved(f) # {} => Open(f)
GoneTold(f) ==
  (Loaded(f) \/ Coming(f) # {}) /\ disk[current][f] = None =>
    \E e \in Tellings(f) : Leaves(e, f)
Stale(f) ==
  \/ Loaded(f) /\ tabs[f].text # disk[current][f]
  \/ \E t \in Coming(f) : t # disk[current][f]
Corrects(f, a) == a # None /\ a \in {Waiting, disk[current][f]}
Signed(f) ==
  \/ Tellings(f) # {}
  \/ \E a \in Answers(f) : Corrects(f, a)
  \/ Open(f) /\ tabs[f].conflict # None

Known(f) == ~Exempt(f) => TabFor(f) /\ GoneTold(f) /\ (Stale(f) => Signed(f))

OldNames == \A i \in DOMAIN events : events[i].action # "renamed" => events[i].old = None

KnownInv == OldNames /\ \A f \in Files : Known(f)

LEMMA AskedFor ==
  ASSUME NEW f \in Files
  PROVE  /\ f \in Asked <=> Answers(f) \cup Saved(f) # {}
         /\ (f \in Asked <=> Answers(f) \cup Saved(f) # {})'
BY DEF Asked, Answers, Saved

(* A path that is neither open nor asked for.                              *)
LEMMA Idle ==
  ASSUME NEW f \in Files, ~Open(f)', f \notin Asked'
  PROVE  Known(f)'
<1>1. (Answers(f) \cup Saved(f) = {})'
  BY AskedFor
<1> QED
  BY <1>1 DEF Known, TabFor, GoneTold, Stale, Coming, Loaded

(* A tab that shows what it showed, with no new answer coming.             *)
LEMMA KnownFrame ==
  ASSUME NEW f \in Files, Known(f), Exempt(f) => Exempt(f)',
         disk'[current'][f] = disk[current][f], Tellings(f) \subseteq Tellings(f)',
         Open(f)' \/ ~Open(f), Loaded(f)' => Loaded(f) /\ tabs'[f].text = tabs[f].text,
         Open(f) /\ tabs[f].conflict # None => tabs'[f].conflict # None,
         Coming(f)' \subseteq Coming(f), TabFor(f) => TabFor(f)',
         \A a \in Answers(f) : Corrects(f, a) => a \in Answers(f)'
  PROVE  Known(f)'
<1> SUFFICES ASSUME ~Exempt(f)' PROVE (TabFor(f) /\ GoneTold(f) /\ (Stale(f) => Signed(f)))'
  BY DEF Known
<1>1. TabFor(f) /\ GoneTold(f) /\ (Stale(f) => Signed(f))
  BY DEF Known
<1>2. GoneTold(f)'
  BY <1>1 DEF GoneTold
<1>3. Stale(f)' => Stale(f)
  BY DEF Stale
<1>4. Signed(f) => Signed(f)'
  BY DEF Signed, Corrects
<1> QED
  BY <1>1, <1>2, <1>3, <1>4

(* The same, when nothing is asked or answered.                            *)
LEMMA QuietFrame ==
  ASSUME NEW f \in Files, Known(f), Exempt(f) => Exempt(f)',
         UNCHANGED <<reads, save, current>>, disk'[current][f] = disk[current][f],
         Tellings(f) \subseteq Tellings(f)', tabs'[f] = tabs[f]
  PROVE  Known(f)'
<1>1. Answers(f)' = Answers(f) /\ Saved(f)' = Saved(f)
  BY DEF Answers, Saved, Out, Free, Saving
<1> QED
  BY <1>1, KnownFrame DEF Loaded, Open, Coming, TabFor

(* A request that is sent.                                                 *)
LEMMA SendAnswers ==
  ASSUME TypeInv, current \in Projects, NEW f \in Files,
         NEW k \in {"open", "reload", "conflict", "theirs"}, Send(k, f), NEW g \in Files
  PROVE  Answers(g)' = IF g = f THEN Answers(g) \cup {Waiting} ELSE Answers(g)
<1>1. PICK q \in Reads : reads[q] = None /\ reads' = [reads EXCEPT ![q] = Request(k, f)]
  BY DEF Send, Free
<1>2. \A r \in Reads : reads'[r] = IF r = q THEN Request(k, f) ELSE reads[r]
  BY <1>1 DEF TypeInv
<1>3. /\ Request(k, f) # None /\ Request(k, f).path = f /\ Request(k, f).answer = Waiting
  <2>1. Request(k, f) = reads'[q]
    BY <1>2
  <2>2. Request(k, f).path = f /\ Request(k, f).answer = Waiting
    BY DEF Request
  <2>3. Request(k, f) # None
    BY EditorAssumption DEF Request, ReadRec
  <2> QED
    BY <2>2, <2>3
<1>4. ASSUME NEW a PROVE a \in Answers(g)' <=> a \in (IF g = f THEN Answers(g) \cup {Waiting} ELSE Answers(g))
  <2>1. a \in Answers(g) <=> \E r \in Reads : reads[r] # None /\ reads[r].path = g /\ reads[r].answer = a
    BY DEF Answers, Out, Free
  <2>2. a \in Answers(g)' <=> \E r \in Reads : reads'[r] # None /\ reads'[r].path = g /\ reads'[r].answer = a
    BY DEF Answers, Out, Free
  <2> QED
    BY <1>1, <1>2, <1>3, <2>1, <2>2
<1> QED
  BY <1>4

(* A request for the text of an open tab is a sign.                        *)
LEMMA KnownSend ==
  ASSUME TypeInv, current \in Projects, NEW f \in Files,
         NEW k \in {"open", "reload", "conflict", "theirs"}, Send(k, f),
         UNCHANGED <<save, current, unaware, crossed, disk>>, NEW g \in Files, Known(g),
         \A e \in Tellings(g) : e \in Tellings(g)' \/ (g = f /\ ~Leaves(e, g)),
         g # f => tabs'[g] = tabs[g],
         g = f => Open(g)' /\ (Loaded(g)' => Loaded(g) /\ tabs'[g].text = tabs[g].text)
  PROVE  Known(g)'
<1>1. Answers(g)' = IF g = f THEN Answers(g) \cup {Waiting} ELSE Answers(g)
  BY SendAnswers
<1>2. Saved(g)' = Saved(g)
  BY DEF Saved, Saving
<1>3. CASE g # f
  <2>1. Coming(g)' = Coming(g) /\ Tellings(g) \subseteq Tellings(g)'
    BY <1>1, <1>2, <1>3 DEF Coming
  <2>2. TabFor(g) => TabFor(g)'
    BY <1>1, <1>2, <1>3 DEF TabFor, Open
  <2> QED
    BY <1>1, <1>3, <2>1, <2>2, KnownFrame DEF Loaded, Open, Exempt
<1>4. CASE g = f
  <2> SUFFICES ASSUME ~Exempt(g)' PROVE (TabFor(g) /\ GoneTold(g) /\ (Stale(g) => Signed(g)))'
    BY DEF Known
  <2>1. TabFor(g) /\ GoneTold(g)
    BY DEF Known, Exempt
  <2>2. TabFor(g)'
    BY <1>4 DEF TabFor
  <2>3. Coming(g)' = Coming(g)
    BY <1>1, <1>2, <1>4 DEF Coming
  <2>4. GoneTold(g)'
    <3>1. SUFFICES ASSUME (Loaded(g) \/ Coming(g) # {})', (disk[current][g] = None)'
                   PROVE  \E e \in Tellings(g)' : Leaves(e, g)
      BY DEF GoneTold
    <3>2. PICK e \in Tellings(g) : Leaves(e, g)
      BY <1>4, <2>1, <2>3, <3>1 DEF GoneTold
    <3> QED
      BY <3>2
  <2>5. Signed(g)'
    <3>1. Waiting \in Answers(g)' /\ Waiting # None
      BY <1>1, <1>4, EditorAssumption
    <3> QED
      BY <3>1 DEF Signed, Corrects
  <2> QED
    BY <2>2, <2>4, <2>5
<1> QED
  BY <1>3, <1>4

LEMMA KnownUser ==
  ASSUME TypeInv, OwnInv, KnownInv,
         OpenEditor \/ Close \/ (\E p \in Projects : SelectProject(p))
           \/ \E f \in Files : OpenTab(f) \/ Type(f) \/ Save(f) \/ KeepMine(f) \/ LoadTheirs(f)
  PROVE  KnownInv'
<1> USE DEF place, server, history
<1>1. UNCHANGED <<events, disk>>
  BY DEF OpenEditor, Close, SelectProject, OpenTab, Type, Save, KeepMine, LoadTheirs
<1>2. OldNames'
  BY <1>1 DEF KnownInv, OldNames
<1> SUFFICES ASSUME NEW f \in Files PROVE Known(f)'
  BY <1>2 DEF KnownInv
<1>3. Known(f)
  BY DEF KnownInv
<1>4. current' = current => Tellings(f)' = Tellings(f)
  BY <1>1 DEF Tellings, About
<1>5. CASE (\E p \in Projects : SelectProject(p)) \/ (OpenEditor /\ current = selected)
  <2>1. UNCHANGED <<reads, save, current, tabs, unaware, crossed>>
    BY <1>5 DEF SelectProject, OpenEditor
  <2> QED
    BY <1>1, <1>3, <1>4, <2>1, QuietFrame DEF Exempt
<1>6. CASE OpenEditor /\ current # selected
  <2>1. /\ current' = selected /\ crossed' = Asked /\ save' = save
        /\ tabs' = [g \in Files |-> IF g \in stored'[current'] THEN Empty ELSE None]
    BY <1>6 DEF OpenEditor
  <2>2. CASE f \in Asked
    BY <2>1, <2>2 DEF Known, Exempt
  <2>3. CASE f \notin Asked
    <3>1. Saved(f)' = {}
      BY <2>1, <2>3, AskedFor DEF Saved, Saving
    <3>2. ASSUME NEW r \in Reads, reads'[r] # None, reads'[r].path = f
          PROVE  reads'[r].answer = Waiting /\ f \in stored'[current']
      <4>1. reads'[r] # reads[r]
        BY <2>3, <3>2 DEF Asked, Out, Free
      <4>2. PICK slot \in [stored'[current'] -> Free] :
              reads' = [q \in Reads |->
                          IF \E g \in DOMAIN slot : slot[g] = q
                          THEN [Request("open", CHOOSE g \in DOMAIN slot : slot[g] = q)
                                  EXCEPT !.project = current']
                          ELSE reads[q]]
        BY <1>6 DEF OpenEditor
      <4>3. \E g \in DOMAIN slot : slot[g] = r
        BY <4>1, <4>2
      <4> DEFINE h == CHOOSE g \in DOMAIN slot : slot[g] = r
      <4>4. h \in stored'[current']
        BY <4>2, <4>3
      <4>5. reads'[r] = [Request("open", h) EXCEPT !.project = current']
        BY <4>2, <4>3
      <4> HIDE DEF h
      <4>6. reads'[r].path = h /\ reads'[r].answer = Waiting
        BY <4>5 DEF Request
      <4> QED
        BY <3>2, <4>4, <4>6
    <3>3. Answers(f)' \subseteq {Waiting} /\ (Answers(f)' # {} => f \in stored'[current'])
      BY <3>2 DEF Answers, Out, Free
    <3>4. Empty # None
      BY EditorAssumption, TabType
    <3>5. TabFor(f)' /\ (Coming(f) = {})' /\ ~Loaded(f)'
      BY <2>1, <3>1, <3>3, <3>4 DEF TabFor, Coming, Loaded, Open, Empty
    <3> QED
      BY <3>5 DEF Known, GoneTold, Stale
  <2> QED
    BY <2>2, <2>3
<1>7. CASE Close
  <2>1. PICK F \in SUBSET Files : CloseTabs(F)
    BY <1>7 DEF Close, OpenTabs
  <2>2. /\ UNCHANGED <<current, reads, save>>
        /\ tabs' = [g \in Files |-> IF g \in F THEN None ELSE tabs[g]]
        /\ crossed' = crossed \ (F \ Asked)
        /\ unaware' = (unaware \ F) \cup (F \cap Asked)
    BY <1>7, <2>1 DEF Close, CloseTabs, Forget
  <2>3. Asked' = Asked
    BY <2>2 DEF Asked, Out, Free, Saving
  <2>4. CASE f \in F /\ f \notin Asked
    BY <2>2, <2>3, <2>4, Idle DEF Open
  <2>5. CASE f \in F /\ f \in Asked
    BY <2>2, <2>5 DEF Known, Exempt
  <2>6. CASE f \notin F
    BY <1>1, <1>3, <1>4, <2>2, <2>6, QuietFrame DEF Exempt
  <2> QED
    BY <2>4, <2>5, <2>6
<1>8. ASSUME NEW g \in Files, OpenTab(g) \/ LoadTheirs(g) PROVE Known(f)'
  <2>1. UNCHANGED <<current, save, unaware, crossed>> /\ current \in Projects
    BY <1>8 DEF OpenTab, LoadTheirs, TypeInv
  <2>2. CASE reads' = reads /\ tabs' = tabs
    BY <1>1, <1>3, <1>4, <2>1, <2>2, QuietFrame DEF Exempt
  <2>3. CASE OpenTab(g) /\ ~Loaded(g)
    <3>1. Send("open", g) /\ tabs' = [tabs EXCEPT ![g] = IF Open(g) THEN tabs[g] ELSE Empty]
      BY <1>8, <2>3 DEF OpenTab
    <3>2. f # g => tabs'[f] = tabs[f]
      BY <3>1 DEF TypeInv
    <3>3. Open(g)' /\ ~Loaded(g)'
      BY <2>3, <3>1, EditorAssumption, TabType DEF TypeInv, Loaded, Open, Empty
    <3> QED
      BY <1>1, <1>3, <1>4, <2>1, <3>1, <3>2, <3>3, KnownSend
  <2>4. CASE LoadTheirs(g)
    <3>1. Send("theirs", g) /\ tabs' = tabs /\ Open(g)
      BY <2>4 DEF LoadTheirs, Loaded
    <3> QED
      BY <1>1, <1>3, <1>4, <2>1, <3>1, KnownSend DEF Open, Loaded
  <2> QED
    BY <1>8, <2>2, <2>3, <2>4 DEF OpenTab
<1>9. ASSUME NEW g \in Files, Type(g) \/ KeepMine(g) PROVE Known(f)'
  <2>1. /\ UNCHANGED <<current, save, reads, crossed>> /\ Loaded(g)
        /\ unaware' = unaware \/ (KeepMine(g) /\ unaware' = unaware \cup {g})
    BY <1>9 DEF Type, KeepMine
  <2>2. CASE f # g
    <3>1. tabs'[f] = tabs[f]
      BY <1>9, <2>2 DEF Type, KeepMine, TypeInv
    <3> QED
      BY <1>1, <1>3, <1>4, <2>1, <3>1, QuietFrame DEF Exempt
  <2>3. CASE f = g /\ KeepMine(g)
    BY <2>3 DEF KeepMine, Known, Exempt
  <2>4. CASE f = g /\ Type(g)
    <3>1. tabs' = [tabs EXCEPT ![g] = [tabs[g] EXCEPT !.dirty = TRUE]] /\ tabs[g] \in Tab
      BY <2>1, <2>4 DEF Type, TypeInv, Loaded, Open
    <3>2. tabs'[g] \in Tab /\ tabs'[g].text = tabs[g].text /\ tabs'[g].conflict = tabs[g].conflict
      BY <3>1 DEF TypeInv, Tab
    <3>3. Open(g)' /\ Answers(f)' = Answers(f) /\ Saved(f)' = Saved(f) /\ unaware' = unaware
      BY <2>1, <2>4, <3>2, EditorAssumption DEF Open, Answers, Saved, Out, Free, Saving, Type
    <3> QED
      BY <1>1, <1>3, <1>4, <2>1, <2>4, <3>2, <3>3, KnownFrame DEF Exempt, Loaded, Coming, TabFor
  <2> QED
    BY <1>9, <2>2, <2>3, <2>4
<1>10. ASSUME NEW g \in Files, Save(g) PROVE Known(f)'
  <2>1. /\ UNCHANGED <<current, reads, tabs, unaware, crossed>> /\ Loaded(g) /\ save = None
        /\ save' = [project |-> selected, path |-> g, answer |-> Waiting]
    BY <1>10 DEF Save
  <2>2. Answers(f)' = Answers(f) /\ Saved(f)' \subseteq {Waiting} /\ Saved(f) = {}
    BY <2>1 DEF Answers, Saved, Out, Free, Saving
  <2>3. f # g => Saved(f)' = {}
    BY <2>1 DEF Saved, Saving
  <2>4. TabFor(f) => TabFor(f)'
    BY <2>1, <2>2, <2>3 DEF TabFor, Open, Loaded
  <2> QED
    BY <1>1, <1>3, <1>4, <2>1, <2>2, <2>4, KnownFrame DEF Exempt, Loaded, Open, Coming
<1> QED
  BY <1>5, <1>6, <1>7, <1>8, <1>9, <1>10

(* What is told of a change.                                               *)
LEMMA Telling ==
  ASSUME TypeInv, NEW p \in Projects, NEW k, NEW f \in Files, NEW old \in Files \cup {None},
         Tell(p, k, f, old), current' = current, NEW g \in Files
  PROVE  /\ Tellings(g) \subseteq Tellings(g)' /\ unaware \subseteq unaware'
         /\ p = current /\ g \in {f, old} =>
              \/ \E e \in Tellings(g)' : e.action = k /\ e.path = f /\ e.old = old
              \/ g \in unaware'
              \/ ~Open(g) /\ g \notin Asked
         /\ (OldNames /\ (k # "renamed" => old = None)) => OldNames'
<1> DEFINE e == [project |-> p, action |-> k, path |-> f, old |-> old]
<1>1. events \in Seq(EventRec)
  BY DEF TypeInv
<1>2. CASE events' = Append(events, e) /\ UNCHANGED unaware
  <2>1. /\ DOMAIN events = 1..Len(events) /\ DOMAIN events' = 1..(Len(events) + 1)
        /\ Len(events) \in Nat
        /\ \A i \in 1..Len(events) : events'[i] = events[i]
        /\ events'[Len(events) + 1] = e
    BY <1>1, <1>2
  <2>2. e.project = p /\ e.action = k /\ e.path = f /\ e.old = old
    OBVIOUS
  <2> HIDE DEF e
  <2>3. Tellings(g) \subseteq Tellings(g)'
    <3>1. \A i \in DOMAIN events : i \in DOMAIN events' /\ events'[i] = events[i]
      BY <2>1
    <3> QED
      BY <3>1 DEF Tellings, About
  <2>4. p = current /\ g \in {f, old} => e \in Tellings(g)'
    <3>1. Len(events) + 1 \in DOMAIN events'
      BY <2>1
    <3> QED
      BY <2>1, <2>2, <3>1 DEF Tellings, About
  <2>5. (OldNames /\ (k # "renamed" => old = None)) => OldNames'
    BY <2>1, <2>2 DEF OldNames
  <2> QED
    BY <1>2, <2>2, <2>3, <2>4, <2>5
<1>3. CASE UNCHANGED events /\ unaware' = IF p = current THEN Missed({f, old}) ELSE unaware
  <2>1. Tellings(g)' = Tellings(g) /\ (OldNames => OldNames')
    BY <1>3 DEF Tellings, About, OldNames
  <2>2. unaware \subseteq unaware' /\ (p = current => unaware' = Missed({f, old}))
    BY <1>3 DEF Missed
  <2> QED
    BY <2>1, <2>2 DEF Missed, OpenTabs
<1> QED
  BY <1>2, <1>3 DEF Tell

(* A change of the file g of the project that is open.                     *)
LEMMA KnownChange ==
  ASSUME TypeInv, NEW g \in Files, Known(g), UNCHANGED <<current, tabs, crossed>>,
         Answers(g)' = Answers(g), Saved(g)' # {} => Saved(g) # {}, unaware \subseteq unaware',
         \/ \E e \in Tellings(g)' : disk'[current][g] = None => Leaves(e, g)
         \/ g \in unaware'
         \/ ~Open(g) /\ g \notin Asked
  PROVE  Known(g)'
<1>1. CASE g \in unaware'
  BY <1>1 DEF Known, Exempt
<1>2. CASE ~Open(g) /\ g \notin Asked
  <2>1. g \notin Asked'
    BY <1>2, AskedFor
  <2> QED
    BY <1>2, <2>1, Idle DEF Open
<1>3. CASE \E e \in Tellings(g)' : disk'[current][g] = None => Leaves(e, g)
  <2>1. ~Exempt(g)' => TabFor(g)'
    BY DEF Known, TabFor, Exempt, Open
  <2>2. GoneTold(g)' /\ Signed(g)'
    BY <1>3 DEF GoneTold, Signed
  <2> QED
    BY <2>1, <2>2 DEF Known
<1> QED
  BY <1>1, <1>2, <1>3

LEMMA KnownServer ==
  ASSUME TypeInv, OwnInv, KnownInv,
         \/ ServeSave \/ \E r \in Reads : ServeRead(r)
         \/ \E p \in Projects, f \in Files :
              OtherWrites(p, f) \/ OtherDeletes(p, f) \/ \E old \in Files : OtherRenames(p, old, f)
  PROVE  KnownInv'
<1> USE DEF place, server, history
<1> DEFINE
  Only(p, f, old) ==
    \A q \in Projects, g \in Files : (q = p /\ g \in {f, old}) \/ disk'[q][g] = disk[q][g]
  SavedOf(p, f) ==
    \A g \in Files : \/ Saved(g)' = Saved(g)
                     \/ g = f /\ Saved(g) # {} /\ (p = current \/ g \in crossed)
<1>1. UNCHANGED <<current, tabs, crossed>>
  BY DEF ServeSave, ServeRead, OtherWrites, OtherDeletes, OtherRenames
<1>2. \A g \in Files : Known(g)
  BY DEF KnownInv
<1>3. OldNames
  BY DEF KnownInv
<1>4. ASSUME NEW r \in Reads, ServeRead(r) PROVE KnownInv'
  <2>0. reads[r] \in ReadRec /\ reads[r].path \in Files
    BY <1>4 DEF ServeRead, TypeInv, ReadRec
  <2> PICK f \in Files : f = reads[r].path
    BY <2>0
  <2> PICK d : d = disk[reads[r].project][f]
    OBVIOUS
  <2>1. /\ UNCHANGED <<save, disk, events, unaware>> /\ reads[r] # None
        /\ reads[r].answer = Waiting
        /\ reads' = [reads EXCEPT ![r] = [reads[r] EXCEPT !.answer = d]]
    BY <1>4, <2>0 DEF ServeRead, TypeInv
  <2>2. OldNames' /\ \A g \in Files : Tellings(g)' = Tellings(g) /\ Saved(g)' = Saved(g)
    BY <1>1, <1>3, <2>1 DEF OldNames, Tellings, About, Saved, Saving
  <2>3. /\ f \in Files /\ reads'[r].path = f /\ reads'[r].answer = d /\ reads'[r] # None
        /\ \A q \in Reads \ {r} : reads'[q] = reads[q]
    <3>1. reads[r].project \in Projects /\ f \in Files
      BY <2>0 DEF ReadRec
    <3>2. reads'[r] = [reads[r] EXCEPT !.answer = d]
      BY <2>1 DEF TypeInv
    <3>3. d \in Texts \cup {None}
      BY <3>1 DEF TypeInv
    <3>4. reads'[r] \in ReadRec /\ reads'[r].path = f /\ reads'[r].answer = d
      BY <2>0, <3>2, <3>3 DEF ReadRec
    <3> QED
      BY <2>1, <3>1, <3>4, EditorAssumption DEF TypeInv
  <2>4. f \in crossed \/ d = disk[current][f]
    BY <2>1 DEF OwnInv, ReadOwn
  <2>5. ASSUME NEW g \in Files, g # f PROVE Known(g)'
    <3>1. Answers(g)' = Answers(g)
      <4>1. ASSUME NEW a PROVE a \in Answers(g)' <=> a \in Answers(g)
        <5>1. a \in Answers(g) <=> \E q \in Reads : reads[q] # None /\ reads[q].path = g /\ reads[q].answer = a
          BY DEF Answers, Out, Free
        <5>2. a \in Answers(g)' <=> \E q \in Reads : reads'[q] # None /\ reads'[q].path = g /\ reads'[q].answer = a
          BY DEF Answers, Out, Free
        <5> QED
          BY <2>3, <2>5, <5>1, <5>2
      <4> QED
        BY <4>1
    <3> QED
      BY <1>1, <1>2, <2>1, <2>2, <2>5, <3>1, KnownFrame DEF Exempt, Loaded, Open, Coming, TabFor
  <2>6. Known(f)'
    <3> SUFFICES ASSUME ~Exempt(f)' PROVE (TabFor(f) /\ GoneTold(f) /\ (Stale(f) => Signed(f)))'
      BY DEF Known
    <3>1. TabFor(f) /\ GoneTold(f) /\ (Stale(f) => Signed(f)) /\ d = disk[current][f]
      BY <1>1, <1>2, <2>1, <2>3, <2>4 DEF Known, Exempt
    <3>2. /\ d \in Answers(f)' /\ Answers(f)' \subseteq Answers(f) \cup {d}
          /\ \A a \in Answers(f) : a = Waiting \/ a \in Answers(f)'
          /\ Answers(f) # {}
      <4>1. \A a : a \in Answers(f) <=> \E q \in Reads : reads[q] # None /\ reads[q].path = f /\ reads[q].answer = a
        BY DEF Answers, Out, Free
      <4>2. \A a : a \in Answers(f)' <=> \E q \in Reads : reads'[q] # None /\ reads'[q].path = f /\ reads'[q].answer = a
        BY DEF Answers, Out, Free
      <4> QED
        BY <2>1, <2>3, <4>1, <4>2
    <3>3. TabFor(f)'
      BY <1>1, <3>1, <3>2 DEF TabFor, Open
    <3>4. Coming(f)' \subseteq Coming(f) \cup ({d} \ {None})
      BY <2>2, <2>3, <3>2 DEF Coming
    <3>5. GoneTold(f)'
      BY <1>1, <2>1, <2>2, <2>3, <3>1, <3>4 DEF GoneTold, Loaded, Open
    <3>6. Stale(f)' => Stale(f)
      BY <1>1, <2>1, <2>3, <3>1, <3>4 DEF Stale, Loaded, Open
    <3>7. ASSUME Stale(f) PROVE Signed(f)'
      <4>1. CASE d = None
        <5>1. Tellings(f) # {}
          BY <3>1, <3>7, <4>1 DEF Stale, GoneTold
        <5> QED
          BY <2>2, <2>3, <5>1 DEF Signed
      <4>2. CASE d # None
        BY <1>1, <2>1, <3>1, <3>2, <4>2 DEF Signed, Corrects
      <4> QED
        BY <4>1, <4>2
    <3> QED
      BY <3>3, <3>5, <3>6, <3>7
  <2> QED
    BY <2>2, <2>5, <2>6 DEF KnownInv
<1>5. ASSUME NEW p \in Projects, NEW k \in {"changed", "created", "deleted", "renamed"}, NEW f \in Files,
             NEW old \in Files \cup {None}, Tell(p, k, f, old), reads' = reads,
             k # "renamed" => old = None,
             Only(p, f, old), SavedOf(p, f),
             disk'[p][f] = None => k = "deleted", old # None => k = "renamed"
      PROVE  KnownInv'
  <2>1. ASSUME NEW g \in Files PROVE Known(g)'
    <3>1. Answers(g)' = Answers(g)
      BY <1>5 DEF Answers, Out, Free
    <3>2. /\ Tellings(g) \subseteq Tellings(g)' /\ unaware \subseteq unaware'
          /\ p = current /\ g \in {f, old} =>
               \/ \E e \in Tellings(g)' : e.action = k /\ e.path = f /\ e.old = old
               \/ g \in unaware'
               \/ ~Open(g) /\ g \notin Asked
      BY <1>1, <1>5, Telling
    <3>3. CASE p = current /\ g \in {f, old}
      <4>1. \A e : e.action = k /\ e.path = f /\ e.old = old
                     => (disk'[current][g] = None => Leaves(e, g))
        BY <1>5, <3>3, EditorAssumption DEF Leaves
      <4>2. Saved(g)' # {} => Saved(g) # {}
        BY <1>5
      <4> QED
        BY <1>1, <1>2, <3>1, <3>2, <3>3, <4>1, <4>2, KnownChange
    <3>4. CASE ~(p = current /\ g \in {f, old})
      <4>1. CASE g \in crossed
        BY <1>1, <4>1 DEF Known, Exempt
      <4>2. CASE Saved(g)' = Saved(g)
        <5>1. CASE current \in Projects
          <6>1. disk'[current][g] = disk[current][g]
            BY <1>5, <3>4, <5>1
          <6> QED
            BY <1>1, <1>2, <3>1, <3>2, <4>2, <6>1, KnownFrame
               DEF Exempt, Loaded, Open, Coming, TabFor
        <5>2. CASE current \notin Projects
          <6>1. ~Open(g)
            BY <5>2 DEF TypeInv
          <6>2. CASE g \in Asked
            BY <1>1, <1>2, <3>2, <6>1, <6>2, AskedFor DEF Known, TabFor, Exempt
          <6>3. CASE g \notin Asked
            <7>1. g \notin Asked'
              BY <3>1, <4>2, <6>3, AskedFor
            <7> QED
              BY <1>1, <6>1, <7>1, Idle DEF Open
          <6> QED
            BY <6>2, <6>3
        <5> QED
          BY <5>1, <5>2
      <4> QED
        BY <1>5, <3>4, <4>1, <4>2
    <3> QED
      BY <3>3, <3>4
  <2>2. OldNames'
    BY <1>1, <1>3, <1>5, Telling
  <2> QED
    BY <2>1, <2>2 DEF KnownInv
<1>6. ASSUME NEW p \in Projects, NEW f \in Files, Written(p, f)
      PROVE  /\ \A q \in Projects, g \in Files : (q = p /\ g = f) \/ disk'[q][g] = disk[q][g]
             /\ Room => disk'[p][f] # None
  <2>1. Room => disk'[p][f] \in Texts
    BY <1>6, WrittenType
  <2>2. \A t \in Texts : t # None
    BY EditorAssumption
  <2> QED
    BY <1>6, <2>1, <2>2 DEF Written, TypeInv
<1>7. CASE ServeSave
  <2>0. save \in SaveRec /\ save # None
    BY <1>7 DEF ServeSave, TypeInv
  <2> PICK p \in Projects, f \in Files : p = save.project /\ f = save.path
    BY <2>0 DEF SaveRec
  <2>1. /\ reads' = reads
        /\ Written(p, f) /\ Tell(p, "changed", f, None) /\ Room
        /\ save' = [save EXCEPT !.answer = disk'[p][f]]
        /\ (p = current \/ f \in crossed)
    BY <1>7, <2>0 DEF ServeSave, OwnInv, SaveOwn
  <2>2. save'.path = f
    BY <2>0, <2>1 DEF SaveRec
  <2>3. \A g \in Files : g # f => Saved(g)' = Saved(g)
    BY <2>1, <2>2 DEF Saved, Saving
  <2>4. Saved(f) # {}
    BY <2>0 DEF Saved, Saving
  <2>5. SavedOf(p, f)
    BY <2>1, <2>3, <2>4
  <2>6. Only(p, f, None)
    BY <1>6, <2>1
  <2>7. disk'[p][f] # None
    BY <1>6, <2>1
  <2>8. reads' = reads /\ Tell(p, "changed", f, None)
    BY <2>1
  <2> HIDE DEF Only, SavedOf
  <2> QED
    BY <1>5, <2>5, <2>6, <2>7, <2>8
<1>8. ASSUME NEW p \in Projects, NEW f \in Files, OtherWrites(p, f) PROVE KnownInv'
  <2>1. /\ Written(p, f) /\ Room /\ reads' = reads /\ save' = save
        /\ Tell(p, "changed", f, None) \/ Tell(p, "created", f, None)
    BY <1>8 DEF OtherWrites
  <2>2. SavedOf(p, f)
    BY <2>1 DEF Saved, Saving
  <2>3. Only(p, f, None)
    BY <1>6, <2>1
  <2>4. disk'[p][f] # None
    BY <1>6, <2>1
  <2> HIDE DEF Only, SavedOf
  <2>5. CASE Tell(p, "changed", f, None)
    BY <1>5, <2>1, <2>2, <2>3, <2>4, <2>5
  <2>6. CASE Tell(p, "created", f, None)
    BY <1>5, <2>1, <2>2, <2>3, <2>4, <2>6
  <2> QED
    BY <2>1, <2>5, <2>6
<1>9. ASSUME NEW p \in Projects, NEW f \in Files, OtherDeletes(p, f) PROVE KnownInv'
  <2>1. /\ disk' = [disk EXCEPT ![p][f] = None] /\ reads' = reads /\ save' = save
        /\ Tell(p, "deleted", f, None)
    BY <1>9 DEF OtherDeletes
  <2>2. Only(p, f, None)
    BY <2>1 DEF TypeInv
  <2>3. SavedOf(p, f)
    BY <2>1 DEF Saved, Saving
  <2>4. reads' = reads /\ Tell(p, "deleted", f, None)
    BY <2>1
  <2> HIDE DEF Only, SavedOf
  <2> QED
    BY <1>5, <2>2, <2>3, <2>4
<1>10. ASSUME NEW p \in Projects, NEW f \in Files, NEW old \in Files, OtherRenames(p, old, f)
       PROVE  KnownInv'
  <2>1. /\ disk' = [disk EXCEPT ![p][f] = disk[p][old], ![p][old] = None] /\ f # old
        /\ disk[p][old] # None /\ reads' = reads /\ save' = save
        /\ Tell(p, "renamed", f, old)
    BY <1>10 DEF OtherRenames
  <2>2. \A q \in Projects, g \in Files :
          disk'[q][g] = IF q = p /\ g = old THEN None
                        ELSE IF q = p /\ g = f THEN disk[p][old] ELSE disk[q][g]
    BY <2>1 DEF TypeInv
  <2>3. Only(p, f, old)
    BY <2>2
  <2>4. disk'[p][f] # None
    BY <2>1, <2>2
  <2>5. SavedOf(p, f)
    BY <2>1 DEF Saved, Saving
  <2>6. reads' = reads /\ Tell(p, "renamed", f, old) /\ old \in Files \cup {None}
    BY <2>1
  <2> HIDE DEF Only, SavedOf
  <2> QED
    BY <1>5, <2>3, <2>4, <2>5, <2>6
<1> QED
  BY <1>4, <1>7, <1>8, <1>9, <1>10

(* An answer t to a request for the path f is taken from the wire.         *)
Took(f, t) ==
  /\ \A g \in Files \ {f} : Answers(g)' = Answers(g) /\ Saved(g)' = Saved(g)
  /\ Answers(f)' \subseteq Answers(f) /\ Answers(f) \subseteq Answers(f)' \cup {t}
  /\ Saved(f)' \subseteq Saved(f)
  /\ t \in Answers(f) \cup Saved(f)

LEMMA ReadTook ==
  ASSUME TypeInv, NEW r \in Reads, reads[r] # None, reads' = [reads EXCEPT ![r] = None],
         save' = save, NEW f \in Files, f = reads[r].path
  PROVE  Took(f, reads[r].answer)
<1>1. \A g \in Files : Saved(g)' = Saved(g)
  BY DEF Saved, Saving
<1>2. \A q \in Reads : reads'[q] = IF q = r THEN None ELSE reads[q]
  BY DEF TypeInv
<1>3. ASSUME NEW g \in Files, NEW a
      PROVE  /\ a \in Answers(g) <=>
                  \E q \in Reads : reads[q] # None /\ reads[q].path = g /\ reads[q].answer = a
             /\ a \in Answers(g)' <=>
                  \E q \in Reads : reads'[q] # None /\ reads'[q].path = g /\ reads'[q].answer = a
  BY DEF Answers, Out, Free
<1>4. ASSUME NEW g \in Files \ {f}, NEW a PROVE a \in Answers(g)' <=> a \in Answers(g)
  BY <1>2, <1>3, <1>4
<1>5. ASSUME NEW a PROVE /\ a \in Answers(f)' => a \in Answers(f)
                         /\ a \in Answers(f) => a \in Answers(f)' \cup {reads[r].answer}
  BY <1>2, <1>3
<1>6. reads[r].answer \in Answers(f)
  BY <1>3
<1>7. \A g \in Files \ {f} : Answers(g)' = Answers(g)
  BY <1>4
<1> QED
  BY <1>1, <1>5, <1>6, <1>7 DEF Took

LEMMA SaveTook ==
  ASSUME TypeInv, save # None, save' = None, reads' = reads, NEW f \in Files, f = save.path
  PROVE  Took(f, save.answer) /\ Answers(f)' = Answers(f)
BY DEF Took, Answers, Saved, Out, Free, Saving

(* The tabs of other paths.                                                *)
LEMMA TookOthers ==
  ASSUME TypeInv, NEW f \in Files, NEW t, Took(f, t), UNCHANGED <<current, disk, events>>,
         NEW g \in Files, g # f, Known(g), tabs'[g] = tabs[g],
         Exempt(g) => Exempt(g)' \/ (~Open(g) /\ g \notin Asked')
  PROVE  Known(g)'
<1>1. Answers(g)' = Answers(g) /\ Saved(g)' = Saved(g) /\ Tellings(g)' = Tellings(g)
  BY DEF Took, Tellings, About
<1>2. CASE Exempt(g) => Exempt(g)'
  BY <1>1, <1>2, KnownFrame DEF Loaded, Open, Coming, TabFor
<1>3. CASE ~Open(g) /\ g \notin Asked'
  BY <1>3, Idle DEF Open
<1> QED
  BY <1>2, <1>3

LEMMA KnownUntaken ==
  ASSUME TypeInv, NEW f \in Files, NEW t, Took(f, t), UNCHANGED <<current, disk, events>>,
         Untaken, Open(f) => \A a \in Answers(f) : Corrects(f, a) => a \in Answers(f)',
         NEW g \in Files, Known(g)
  PROVE  Known(g)'
<1>1. tabs' = tabs /\ \A h \in Files : Exempt(h) => Exempt(h)' \/ (~Open(h) /\ h \notin Asked')
  BY DEF Untaken, Exempt, OpenTabs
<1>2. CASE g # f
  BY <1>1, <1>2, TookOthers
<1>3. CASE g = f /\ ~Open(f)
  <2>1. CASE f \notin Asked'
    BY <1>1, <1>3, <2>1, Idle DEF Open
  <2>2. CASE f \in Asked'
    <3>1. Exempt(f)
      BY <1>3 DEF Known, TabFor, Took
    <3> QED
      BY <1>1, <1>3, <2>2, <3>1 DEF Known
  <2> QED
    BY <2>1, <2>2
<1>4. CASE g = f /\ Open(f)
  <2>1. Tellings(f)' = Tellings(f) /\ Coming(f)' \subseteq Coming(f) /\ TabFor(f)'
    BY <1>1, <1>4 DEF Took, Tellings, About, Coming, TabFor, Open
  <2> QED
    BY <1>1, <1>4, <2>1, KnownFrame DEF Loaded, Open
<1> QED
  BY <1>2, <1>3, <1>4

(* A tab takes the text.                                                   *)
LEMMA KnownTakes ==
  ASSUME TypeInv, NEW f \in Files, NEW t \in Texts, t # Waiting, Took(f, t),
         UNCHANGED <<current, disk, events, crossed>>, Open(f),
         Open(f)', tabs'[f].text = t,
         \/ tabs'[f].conflict = tabs[f].conflict /\ unaware' = Missing(f, t, None)
         \/ tabs'[f].conflict = None /\ unaware' = Missing(f, t, tabs[f].conflict),
         \A g \in Files \ {f} : tabs'[g] = tabs[g],
         NEW g \in Files, Known(g), Known(f)
  PROVE  Known(g)'
<1>1. \A h \in Files \ {f} : Exempt(h) => Exempt(h)'
  BY DEF Missing, Exempt
<1>2. CASE g # f
  BY <1>1, <1>2, TookOthers
<1>3. CASE g = f
  <2> SUFFICES ASSUME ~Exempt(f)' PROVE (TabFor(f) /\ GoneTold(f) /\ (Stale(f) => Signed(f)))'
    BY <1>3 DEF Known
  <2>0. t # None /\ t # Waiting
    BY EditorAssumption
  <2>1. TabFor(f)' /\ Loaded(f)' /\ Tellings(f)' = Tellings(f)
    BY EditorAssumption DEF TabFor, Loaded, Open, Tellings, About
  <2>2. Coming(f)' \subseteq Coming(f) /\ t \in Coming(f)
    BY <2>0 DEF Coming, Took
  <2>3. CASE t = disk[current][f] /\ ~Overtakes(f, t)
    <3>1. Coming(f) \subseteq {t}
      <4>1. \A a \in Answers(f) : a \in {None, Waiting, t}
        BY <2>3 DEF Answers, Overtakes
      <4>2. \A a \in Saved(f) : a \in {Waiting, t}
        BY <2>3 DEF Saved, Overtakes
      <4> QED
        BY <4>1, <4>2 DEF Coming
    <3> QED
      BY <2>0, <2>1, <2>2, <2>3, <3>1 DEF GoneTold, Stale
  <2>4. CASE t # disk[current][f] /\ tabs'[f].conflict = tabs[f].conflict /\ f \notin unaware'
    <3>1. unaware' = unaware \/ f \notin unaware
      BY <2>4 DEF Missing
    <3>2. TabFor(f) /\ GoneTold(f) /\ (Stale(f) => Signed(f))
      BY <3>1 DEF Known, Exempt
    <3>3. GoneTold(f)'
      BY <2>1, <2>2, <3>2 DEF GoneTold
    <3>4. Signed(f)
      BY <2>2, <2>4, <3>2 DEF Stale
    <3>5. \A a \in Answers(f) : Corrects(f, a) => a \in Answers(f)'
      BY <2>0, <2>4 DEF Corrects, Took
    <3>6. Signed(f)'
      BY <2>1, <2>4, <3>4, <3>5 DEF Signed, Corrects
    <3> QED
      BY <2>1, <3>3, <3>6
  <2> QED
    BY <2>3, <2>4 DEF Missing, Exempt
<1> QED
  BY <1>2, <1>3

LEMMA KnownAnswer ==
  ASSUME TypeInv, KnownInv, SaveAnswer \/ SaveFails \/ \E r \in Reads : ReadAnswer(r)
  PROVE  KnownInv'
<1> USE DEF place, server, history
<1>1. UNCHANGED <<current, disk, events>>
  BY DEF SaveAnswer, SaveFails, ReadAnswer
<1>2. OldNames'
  BY <1>1 DEF KnownInv, OldNames
<1> SUFFICES ASSUME NEW g \in Files PROVE Known(g)'
  BY <1>2 DEF KnownInv
<1>3. \A h \in Files : Known(h)
  BY DEF KnownInv
<1>4. CASE SaveFails
  <2>1. PICK f \in Files : f = save.path
    BY <1>4 DEF SaveFails, TypeInv, SaveRec
  <2>2. Took(f, save.answer) /\ Answers(f)' = Answers(f) /\ Untaken
    BY <1>4, <2>1, SaveTook DEF SaveFails
  <2> QED
    BY <1>1, <1>3, <2>2, KnownUntaken
<1>5. CASE SaveAnswer
  <2>0. save \in SaveRec /\ save # None /\ save' = None /\ reads' = reads /\ save.answer # Waiting
    BY <1>5 DEF SaveAnswer, TypeInv
  <2> PICK f \in Files, t \in Texts : f = save.path /\ t = save.answer
    BY <2>0 DEF SaveRec
  <2>1. Took(f, t) /\ Answers(f)' = Answers(f)
    BY <2>0, SaveTook
  <2>2. CASE ~Open(f)
    BY <1>1, <1>3, <1>5, <2>1, <2>2, KnownUntaken DEF SaveAnswer
  <2>3. CASE Open(f)
    <3>1. /\ tabs' = [tabs EXCEPT ![f] = [text |-> t, dirty |-> FALSE, conflict |-> None]]
          /\ unaware' = Missing(f, t, tabs[f].conflict) /\ crossed' = crossed
      BY <1>5, <2>3 DEF SaveAnswer
    <3>2. /\ tabs'[f] \in Tab /\ tabs'[f].text = t /\ tabs'[f].conflict = None
          /\ \A h \in Files \ {f} : tabs'[h] = tabs[h]
      BY <3>1, TabType DEF TypeInv
    <3>3. Open(f)'
      BY <3>2, EditorAssumption DEF Open
    <3> QED
      BY <1>1, <1>3, <2>0, <2>1, <2>3, <3>1, <3>2, <3>3, KnownTakes
  <2> QED
    BY <2>2, <2>3
<1>6. ASSUME NEW r \in Reads, ReadAnswer(r) PROVE Known(g)'
  <2>0. /\ reads[r] \in ReadRec /\ reads[r] # None /\ reads' = [reads EXCEPT ![r] = None]
        /\ save' = save /\ reads[r].answer # Waiting
    BY <1>6 DEF ReadAnswer, Answered, TypeInv
  <2> PICK f \in Files, t \in Texts \cup {None} : f = reads[r].path /\ t = reads[r].answer
    BY <2>0 DEF ReadRec
  <2>1. Took(f, t)
    BY <2>0, ReadTook
  <2>2. CASE ~Open(f) \/ t = None
    <3>1. Untaken
      BY <1>6, <2>2 DEF ReadAnswer
    <3>2. Open(f) => \A a \in Answers(f) : Corrects(f, a) => a \in Answers(f)'
      BY <2>1, <2>2 DEF Took, Corrects
    <3> QED
      BY <1>1, <1>3, <2>1, <3>1, <3>2, KnownUntaken
  <2>3. CASE Open(f) /\ t # None
    <3>0. t \in Texts /\ tabs[f] \in Tab
      BY <2>3 DEF TypeInv, Open
    <3>1. OpenAnswer(f, t) \/ ReloadAnswer(f, t) \/ ConflictAnswer(f, t) \/ TheirsAnswer(f, t)
      BY <1>6, <2>3 DEF ReadAnswer
    <3>2. CASE Ignored(f)
      <4>1. tabs' = tabs /\ crossed' = crossed /\ unaware \subseteq unaware' /\ f \in unaware'
        BY <2>3, <3>2 DEF Ignored, Missed, OpenTabs
      <4> QED
        BY <1>1, <1>3, <2>1, <4>1, TookOthers DEF Known, Exempt
    <3>3. CASE tabs' = [tabs EXCEPT ![f].text = t] /\ Shows(f, t)
      <4>1. /\ tabs'[f] \in Tab /\ tabs'[f].text = t /\ tabs'[f].conflict = tabs[f].conflict
            /\ \A h \in Files \ {f} : tabs'[h] = tabs[h]
        BY <3>0, <3>3 DEF TypeInv, Tab
      <4>2. unaware' = Missing(f, t, None) /\ crossed' = crossed
        BY <3>3 DEF Shows
      <4>3. Open(f)'
        BY <4>1, EditorAssumption DEF Open
      <4> QED
        BY <1>1, <1>3, <2>0, <2>1, <2>3, <3>0, <4>1, <4>2, <4>3, KnownTakes
    <3>4. CASE TheirsAnswer(f, t)
      <4>1. /\ tabs' = [tabs EXCEPT ![f] = [text |-> t, dirty |-> FALSE, conflict |-> None]]
            /\ unaware' = Missing(f, t, tabs[f].conflict) /\ crossed' = crossed
        BY <3>4 DEF TheirsAnswer
      <4>2. /\ tabs'[f] \in Tab /\ tabs'[f].text = t /\ tabs'[f].conflict = None
            /\ \A h \in Files \ {f} : tabs'[h] = tabs[h]
        BY <3>0, <4>1, TabType DEF TypeInv
      <4>3. Open(f)'
        BY <4>2, EditorAssumption DEF Open
        <4> QED
        BY <1>1, <1>3, <2>0, <2>1, <2>3, <3>0, <4>1, <4>2, <4>3, KnownTakes
    <3>5. CASE tabs' = [tabs EXCEPT ![f].conflict = t] /\ UNCHANGED history
      <4>1. /\ tabs'[f] \in Tab /\ tabs'[f].text = tabs[f].text /\ tabs'[f].conflict = t
            /\ \A h \in Files \ {f} : tabs'[h] = tabs[h]
        BY <3>0, <3>5 DEF TypeInv, Tab
      <4>2. Open(f)'
        BY <4>1, EditorAssumption DEF Open
      <4>3. CASE g # f
        BY <1>1, <1>3, <2>1, <3>5, <4>1, <4>3, TookOthers DEF Exempt
      <4>4. CASE g = f
        <5> SUFFICES ASSUME ~Exempt(f)' PROVE (TabFor(f) /\ GoneTold(f) /\ (Stale(f) => Signed(f)))'
          BY <4>4 DEF Known
        <5>1. GoneTold(f)
          BY <1>3, <3>5 DEF Known, Exempt
        <5>2. Tellings(f)' = Tellings(f) /\ Coming(f)' \subseteq Coming(f)
          BY <1>1, <2>1 DEF Took, Tellings, About, Coming
        <5>3. GoneTold(f)'
          BY <1>1, <4>1, <5>1, <5>2, <2>3 DEF GoneTold, Loaded, Open
        <5> QED
          BY <2>3, <4>1, <4>2, <5>3 DEF TabFor, Signed
      <4> QED
        BY <4>3, <4>4
    <3> QED
      BY <3>1, <3>2, <3>3, <3>4, <3>5 DEF OpenAnswer, ReloadAnswer, ConflictAnswer
  <2> QED
    BY <2>2, <2>3
<1> QED
  BY <1>4, <1>5, <1>6

(* What of the events is left when the first is taken.                     *)
LEMMA TellingsLeft ==
  ASSUME TypeInv, OldNames, events # <<>>, events' = Tail(events), current' = current
  PROVE  /\ Head(events) \in EventRec
         /\ Head(events).action = "renamed" => Head(events).old \in Files \ {Head(events).path}
         /\ Head(events).action # "renamed" => Head(events).old = None
         /\ \A g \in Files : \A x \in Tellings(g) :
              \/ x \in Tellings(g)'
              \/ x = Head(events) /\ About(x, g)
         /\ OldNames'
<1>1. events \in Seq(EventRec) /\ events # <<>>
  BY DEF TypeInv
<1>2. /\ DOMAIN events = 1..Len(events) /\ Len(events) \in Nat \ {0}
      /\ Head(events) = events[1] /\ events[1] \in EventRec
      /\ DOMAIN events' = 1..(Len(events) - 1)
      /\ \A i \in 1..(Len(events) - 1) : events'[i] = events[i + 1]
  BY <1>1
<1>3. 1 \in DOMAIN events
  BY <1>2
<1>4. OldNames'
  BY <1>2 DEF OldNames
<1>5. ASSUME NEW g \in Files, NEW x \in Tellings(g)
      PROVE  x \in Tellings(g)' \/ (x = Head(events) /\ About(x, g))
  <2>1. PICK i \in DOMAIN events : About(events[i], g) /\ x = events[i]
    BY <1>5 DEF Tellings
  <2>2. CASE i = 1
    BY <1>2, <2>1, <2>2
  <2>3. CASE i # 1
    <3>1. i - 1 \in DOMAIN events' /\ events'[i - 1] = x
      BY <1>2, <2>1, <2>3
    <3> QED
      BY <2>1, <3>1 DEF Tellings, About
  <2> QED
    BY <2>2, <2>3
<1> QED
  BY <1>2, <1>3, <1>4, <1>5 DEF TypeInv, OldNames

(* Nothing but the signs changes, and nobody is told of the paths S.       *)
LEMMA KnownMissed ==
  ASSUME TypeInv, UNCHANGED <<reads, save, current, tabs, disk, crossed>>, NEW S, unaware' = Missed(S),
         NEW g \in Files, Known(g), g \in S \/ Tellings(g) \subseteq Tellings(g)'
  PROVE  Known(g)'
<1>1. unaware \subseteq unaware'
  BY DEF Missed
<1>2. CASE g \in S
  <2>1. CASE Open(g) \/ g \in Asked
    BY <1>2, <2>1 DEF Missed, OpenTabs, Known, Exempt
  <2>2. CASE ~Open(g) /\ g \notin Asked
    <3>1. g \notin Asked'
      BY <2>2 DEF Asked, Out, Free, Saving
    <3> QED
      BY <2>2, <3>1, Idle DEF Open
  <2> QED
    BY <2>1, <2>2
<1>3. CASE Tellings(g) \subseteq Tellings(g)'
  BY <1>1, <1>3, QuietFrame DEF Exempt
<1> QED
  BY <1>2, <1>3

LEMMA KnownEvent ==
  ASSUME TypeInv, KnownInv, FileEvent
  PROVE  KnownInv'
<1> USE DEF place, server, history
<1>1. UNCHANGED <<selected, current, disk, save>> /\ events # <<>> /\ events' = Tail(events)
  BY DEF FileEvent
<1> PICK e \in EventRec : e = Head(events)
  BY <1>1, TellingsLeft DEF KnownInv
<1>2. /\ e.action = "renamed" => e.old \in Files \ {e.path}
      /\ e.action # "renamed" => e.old = None
      /\ \A g \in Files : \A x \in Tellings(g) :
           x \in Tellings(g)' \/ (x = e /\ About(e, g))
      /\ OldNames'
  BY <1>1, TellingsLeft DEF KnownInv
<1> PICK f \in Files, old \in Files \cup {None} : f = e.path /\ old = e.old
  BY DEF EventRec
<1> SUFFICES ASSUME NEW g \in Files PROVE Known(g)'
  BY <1>2 DEF KnownInv
<1>3. Known(g)
  BY DEF KnownInv
<1>4. About(e, g) => e.project = current /\ g \in {f, old}
  BY DEF About
<1>5. ~About(e, g) => Tellings(g) \subseteq Tellings(g)'
  BY <1>2
<1>6. CASE e.project # selected
  <2>1. CASE e.project = current
    <3>1. unaware' = Missed({f, old}) /\ UNCHANGED <<reads, tabs, crossed>>
      BY <1>6, <2>1 DEF FileEvent
    <3> QED
      BY <1>1, <1>3, <1>4, <1>5, <3>1, KnownMissed
  <2>2. CASE e.project # current
    <3>1. unaware' = unaware /\ UNCHANGED <<reads, tabs, crossed>>
      BY <1>6, <2>2 DEF FileEvent
    <3> QED
      BY <1>1, <1>3, <1>4, <1>5, <2>2, <3>1, QuietFrame DEF Exempt
  <2> QED
    BY <2>1, <2>2
<1>7. CASE Ignored(f) /\ reads' = reads /\ e.action # "renamed"
  <2>1. About(e, g) => g \in {f}
    BY <1>2, <1>4, <1>7, EditorAssumption
  <2>2. unaware' = Missed({f}) /\ UNCHANGED <<tabs, crossed>>
    BY <1>7 DEF Ignored
  <2> QED
    BY <1>1, <1>3, <1>5, <1>7, <2>1, <2>2, KnownMissed
<1>8. CASE unaware' = Missed({f, old}) /\ UNCHANGED <<reads, tabs, crossed>>
  BY <1>1, <1>3, <1>4, <1>5, <1>8, KnownMissed
<1>9. CASE CloseTabs({f}) /\ reads' = reads /\ e.action = "deleted"
  <2>1. /\ tabs' = [h \in Files |-> IF h \in {f} THEN None ELSE tabs[h]]
        /\ crossed' = crossed \ ({f} \ Asked)
        /\ unaware' = (unaware \ {f}) \cup ({f} \cap Asked)
    BY <1>9 DEF CloseTabs, Forget
  <2>2. Asked' = Asked
    BY <1>1, <1>9 DEF Asked, Out, Free, Saving
  <2>3. CASE g = f /\ g \notin Asked
    BY <2>1, <2>2, <2>3, Idle DEF Open
  <2>4. CASE g = f /\ g \in Asked
    BY <2>1, <2>4 DEF Known, Exempt
  <2>5. CASE g # f
    <3>1. ~About(e, g)
      BY <1>2, <1>4, <1>9, <2>5, EditorAssumption
    <3>2. Tellings(g) \subseteq Tellings(g)' /\ tabs'[g] = tabs[g] /\ (Exempt(g) => Exempt(g)')
      BY <1>5, <2>1, <2>5, <3>1 DEF Exempt
    <3> QED
      BY <1>1, <1>3, <1>9, <3>2, QuietFrame
  <2> QED
    BY <2>3, <2>4, <2>5
<1>10. CASE RenameTab(old, f) /\ Open(old) /\ reads' = reads /\ e.action = "renamed"
  <2>0. old \in Files /\ f # old
    BY <1>2, <1>10
  <2>1. \A h \in Files : tabs'[h] = IF h = old THEN None ELSE IF h = f THEN tabs[old] ELSE tabs[h]
    BY <1>10, <2>0 DEF RenameTab, TypeInv
  <2>2. Asked' = Asked
    BY <1>1, <1>10 DEF Asked, Out, Free, Saving
  <2>3. CASE g \notin {f, old}
    <3>1. Tellings(g) \subseteq Tellings(g)' /\ tabs'[g] = tabs[g]
      BY <1>4, <1>5, <2>1, <2>3
    <3>2. Exempt(g) => Exempt(g)'
      BY <1>10, <2>3 DEF RenameTab, Moved, Exempt
    <3> QED
      BY <1>1, <1>3, <1>10, <3>1, <3>2, QuietFrame
  <2>4. CASE g \in {f, old} /\ g \notin unaware'
    <3>1. f \notin Asked /\ old \notin Asked
      BY <1>10, <2>4 DEF RenameTab
    <3>2. CASE g = old
      BY <2>1, <2>2, <3>1, <3>2, Idle DEF Open
    <3>3. CASE g = f
      <4>1. tabs[old].text = disk[current][f]
        BY <1>10, <2>0, <2>4, <3>1, <3>3 DEF RenameTab
      <4>2. tabs'[f] = tabs[old] /\ Open(f)'
        BY <1>10, <2>0, <2>1 DEF Open
      <4>3. (Answers(f) \cup Saved(f) = {})'
        BY <2>2, <3>1, AskedFor
      <4> QED
        BY <1>1, <3>3, <4>1, <4>2, <4>3 DEF Known, TabFor, GoneTold, Stale, Coming, Loaded
    <3> QED
      BY <2>4, <3>2, <3>3
  <2> QED
    BY <2>3, <2>4 DEF Known, Exempt
<1>11. CASE e.action = "changed" /\ Open(f) /\ UNCHANGED <<tabs, history>>
              /\ (Send("conflict", f) \/ Send("reload", f))
  <2>1. current \in Projects
    BY <1>11 DEF TypeInv
  <2>2. About(e, g) => g = f
    BY <1>2, <1>4, <1>11, EditorAssumption
  <2>3. ~Leaves(e, g)
    BY <1>11 DEF Leaves
  <2>4. \A x \in Tellings(g) : x \in Tellings(g)' \/ (g = f /\ ~Leaves(x, g))
    BY <1>2, <2>2, <2>3
  <2>5. Open(f)' /\ (Loaded(g)' => Loaded(g) /\ tabs'[g].text = tabs[g].text)
    BY <1>11 DEF Open, Loaded
  <2> QED
    BY <1>1, <1>3, <1>11, <2>1, <2>4, <2>5, KnownSend
<1>12. CASE HandleFileEvent(e)
  <2>1. CASE e.action = "deleted"
    BY <1>7, <1>9, <1>12, <2>1 DEF HandleFileEvent
  <2>2. CASE e.action = "renamed"
    BY <1>8, <1>10, <1>12, <2>2 DEF HandleFileEvent
  <2>3. CASE e.action = "changed"
    BY <1>7, <1>11, <1>12, <2>3 DEF HandleFileEvent
  <2>4. CASE e.action = "created"
    BY <1>7, <1>12, <2>4 DEF HandleFileEvent
  <2> QED
    BY <1>12, <2>1, <2>2, <2>3, <2>4 DEF HandleFileEvent
<1> QED
  BY <1>6, <1>12 DEF FileEvent

LEMMA KnownNext == TypeInv /\ OwnInv /\ KnownInv /\ [Next]_vars => KnownInv'
<1> SUFFICES ASSUME TypeInv, OwnInv, KnownInv, [Next]_vars PROVE KnownInv'
  OBVIOUS
<1>1. CASE UNCHANGED vars
  <2>1. UNCHANGED <<reads, save, current, tabs, disk, events, unaware, crossed>>
    BY <1>1 DEF vars, place, server, history
  <2>2. \A g \in Files : Tellings(g)' = Tellings(g) /\ Known(g)
    BY <2>1 DEF Tellings, About, KnownInv
  <2>3. \A g \in Files : Known(g)'
    BY <2>1, <2>2, QuietFrame DEF Exempt
  <2> QED
    BY <2>1, <2>3 DEF KnownInv, OldNames
<1>2. {selected, current} \ {None} \subseteq Projects
  BY DEF TypeInv
<1> QED
  BY <1>1, <1>2, KnownUser, KnownServer, KnownAnswer, KnownEvent DEF Next

LEMMA KnownInit == Init => KnownInv
<1> SUFFICES ASSUME Init PROVE KnownInv
  OBVIOUS
<1>1. OldNames
  BY DEF Init, OldNames
<1>2. \A f \in Files : Answers(f) = {} /\ Saved(f) = {} /\ ~Open(f)
  BY DEF Init, Answers, Saved, Out, Free, Saving, Open
<1> QED
  BY <1>1, <1>2 DEF KnownInv, Known, TabFor, GoneTold, Stale, Coming, Loaded

(* A tab whose text the server's file no longer has is not left so without *)
(* a sign, but for the tabs that were not told or threw away what they     *)
(* were told: whatever others do to the files, and however late events     *)
(* and answers come.                                                       *)
THEOREM StaleIsKnownCorrect == Spec => []StaleIsKnown
<1>1. KnownInv => StaleIsKnown
  <2> SUFFICES ASSUME KnownInv, NEW f \in Files, Loaded(f), tabs[f].text # disk[current][f],
                      f \notin unaware \cup crossed
               PROVE  \/ tabs[f].conflict # None
                      \/ \E i \in DOMAIN events :
                           events[i].project = current /\ f \in {events[i].path, events[i].old}
                      \/ Out(f) # {} \/ Saving(f)
    BY DEF StaleIsKnown
  <2>1. Signed(f)
    BY DEF KnownInv, Known, Exempt, Stale
  <2> QED
    BY <2>1 DEF Signed, Tellings, About, Answers
<1> QED
  BY <1>1, TypeInit, TypeNext, OwnInit, OwnNext, KnownInit, KnownNext, PTL DEF Spec
=============================================================================
