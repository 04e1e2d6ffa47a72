----------------------------- MODULE EditorStore -----------------------------
(***************************************************************************)
(* The open files of the browser's editor: the tabs of                     *)
(* ui/src/stores/editorStore.ts, what MonacoEditor.tsx does with them, and *)
(* what reaches them from the server: answers to requests, which come in   *)
(* any order, and file events, which come in the order they were sent.     *)
(*                                                                         *)
(* The browser runs one callback at a time, so an action is what happens   *)
(* between two awaits.  projectStore's selectedProjectId and the editor's  *)
(* currentProjectId are two variables: the second follows the first only   *)
(* when the editor is opened.  A text is the project it was read from and  *)
(* the number of the write that made it.  Panes are left out.              *)
(***************************************************************************)
EXTENDS Naturals, Sequences, FiniteSets

CONSTANTS Projects, Files,
          Reads,          \* the requests for a file that may be out at once
          None,           \* no project, no tab, no text, a file that is not there
          Waiting,        \* the answer of a request that is not served yet
          MaxTurns,       \* bound: changes to files and selections of a project
          MaxEvents       \* bound: file events on their way

Texts == [from : Projects, no : 0..MaxTurns]
Tab   == [text : Texts \cup {None}, dirty : BOOLEAN, conflict : Texts \cup {None}]
Empty == [text |-> None, dirty |-> FALSE, conflict |-> None]

(* A request for a text, and a request to save one, with its answer.       *)
ReadRec == [kind : {"open", "reload", "conflict", "theirs"}, project : Projects,
            path : Files, answer : Texts \cup {None, Waiting}]
SaveRec == [project : Projects, path : Files, answer : Texts \cup {Waiting}]

ASSUME EditorAssumption ==
  /\ None \notin Projects \cup Files \cup Reads \cup {Waiting}
  /\ None \notin Tab /\ None \notin ReadRec /\ None \notin Texts
  /\ MaxTurns \in Nat /\ MaxEvents \in Nat

VARIABLES
  selected,              \* projectStore's selectedProjectId
  shown,                 \* is mainView the editor?
  current,               \* currentProjectId
  tabs,                  \* the open tabs by path
  stored,                \* localStorage: the paths that were open, by project
  reads, save,           \* the requests under way
  events,                \* file events on their way
  disk, writes,          \* the server's files, and how many writes there were
  switches,
  typed,                 \* history: tabs with typing that no save was given
  late,                  \* history: tabs typed in, or renamed, while an answer to them was out
  lost,                  \* history: tabs whose typing was replaced
  crossed,               \* history: paths with a request out at the last switch
  unaware                \* history: tabs that were not told, that threw away what they were
                         \* told or had it overtaken, and renamed ones with another text

place    == <<selected, shown, current, stored, switches>>
server   == <<disk, writes, events>>
history  == <<typed, late, lost, crossed, unaware>>
vars     == <<place, tabs, reads, save, server, history>>

Open(f)    == tabs[f] # None
OpenTabs   == {f \in Files : Open(f)}
Loaded(f)  == Open(f) /\ tabs[f].text # None
Free       == {r \in Reads : reads[r] = None}
Out(f)     == {r \in Reads \ Free : reads[r].path = f}
Saving(f)  == save # None /\ save.path = f

Init ==
  /\ selected = None /\ current = None /\ shown = FALSE
  /\ tabs = [f \in Files |-> None] /\ stored = [p \in Projects |-> {}]
  /\ reads = [r \in Reads |-> None] /\ save = None
  /\ events = <<>> /\ writes = 0 /\ switches = 0
  /\ disk = [p \in Projects |-> [f \in Files |-> [from |-> p, no |-> 0]]]
  /\ typed = {} /\ late = {} /\ lost = {} /\ crossed = {} /\ unaware = {}

Request(kind, f) == [kind |-> kind, project |-> current, path |-> f, answer |-> Waiting]

(* One more request, put where there is room.                              *)
Send(kind, f) == \E r \in Free : reads' = [reads EXCEPT ![r] = Request(kind, f)]

(* What ceases with the tabs F.  An answer that is out may still come for  *)
(* the next tab of the same path.                                          *)
Asked == {f \in Files : Out(f) # {} \/ Saving(f)}

Forget(F) ==
  /\ typed' = typed \ F /\ late' = late \ F /\ lost' = lost \ F
  /\ unaware' = (unaware \ F) \cup (F \cap Asked)
  /\ crossed' = crossed \ (F \ Asked)

(* An answer comes for a path that has no tab.                             *)
Untaken ==
  /\ unaware' = unaware \cap (OpenTabs \cup Asked')
  /\ crossed' = crossed \cap (OpenTabs \cup Asked')
  /\ UNCHANGED <<tabs, typed, late, lost>>

(* Nobody is told of a change to the files F.                              *)
Missed(F) == unaware \cup (F \cap (OpenTabs \cup Asked))

-----------------------------------------------------------------------------
(* Which project: projectStore.ts and initForProject.                      *)

(* selectProject, which leaves the editor: what was typed goes with it.    *)
SelectProject(p) ==
  /\ p # selected /\ writes + switches < MaxTurns
  /\ selected' = p /\ shown' = FALSE /\ switches' = switches + 1
  /\ typed' = {} /\ late' = {} /\ lost' = {}
  /\ UNCHANGED <<current, stored, tabs, reads, save, server, crossed, unaware>>

(* Mutant: the tabs of the other project stay.                             *)
OpenEditorAsItWas ==
  /\ selected # None /\ ~shown /\ shown' = TRUE /\ current' = selected
  /\ UNCHANGED <<selected, stored, switches, tabs, reads, save, server, history>>

(* initForProject: the open paths are stored, and the tabs of the other    *)
(* project opened without their text; a request is sent for each.  (What   *)
(* other functions store in between is read after a reload of the page     *)
(* only, which is left out.)                                               *)
OpenEditor ==
  /\ selected # None /\ ~shown /\ shown' = TRUE
  /\ IF current = selected
     THEN UNCHANGED <<current, stored, tabs, reads, history>>
     ELSE /\ current' = selected
          /\ stored' = [p \in Projects |-> IF p = current THEN OpenTabs ELSE stored[p]]
          /\ tabs' = [f \in Files |-> IF f \in stored'[current'] THEN Empty ELSE None]
          /\ \E slot \in [stored'[current'] -> Free] :
               /\ \A f, g \in stored'[current'] : slot[f] = slot[g] => f = g
               /\ reads' = [r \in Reads |->
                              IF \E f \in DOMAIN slot : slot[f] = r
                              THEN [Request("open", CHOOSE f \in DOMAIN slot : slot[f] = r)
                                      EXCEPT !.project = current']
                              ELSE reads[r]]
          /\ crossed' = Asked
          /\ unaware' = {} /\ UNCHANGED <<typed, late, lost>>
  /\ UNCHANGED <<selected, switches, save, server>>

-----------------------------------------------------------------------------
(* What the user does in the editor.                                       *)

(* openTab: a tab without a text asks for it, again if it has asked.       *)
OpenTab(f) ==
  /\ shown
  /\ IF Loaded(f) THEN UNCHANGED <<tabs, reads>>
     ELSE /\ Send("open", f)
          /\ tabs' = [tabs EXCEPT ![f] = IF Open(f) THEN @ ELSE Empty]
  /\ UNCHANGED <<place, save, server, history>>

(* closeTab, closeOtherTabs, closeAllTabs and closeSavedTabs.              *)
CloseTabs(F) ==
  /\ tabs' = [f \in Files |-> IF f \in F THEN None ELSE tabs[f]]
  /\ Forget(F)

Close ==
  /\ shown
  /\ \E F \in {{f} : f \in OpenTabs} \cup {OpenTabs \ {f} : f \in OpenTabs}
              \cup {OpenTabs, {f \in OpenTabs : ~tabs[f].dirty}} :
       F # {} /\ CloseTabs(F)
  /\ UNCHANGED <<place, reads, save, server>>

(* The editor's onChange: markDirty.  The text stays in Monaco.            *)
Type(f) ==
  /\ shown /\ Loaded(f)
  /\ tabs' = [tabs EXCEPT ![f].dirty = TRUE]
  /\ typed' = typed \cup {f}
  /\ late' = IF Saving(f) \/ \E r \in Out(f) : reads[r].kind = "open"
             THEN late \cup {f} ELSE late
  /\ UNCHANGED <<place, reads, save, server, lost, crossed, unaware>>

(* handleSave, up to its await: what is in the editor is on its way.       *)
Save(f) ==
  /\ shown /\ Loaded(f) /\ save = None
  /\ save' = [project |-> selected, path |-> f, answer |-> Waiting]
  /\ typed' = typed \ {f}
  /\ UNCHANGED <<place, tabs, reads, server, late, lost, crossed, unaware>>

(* resolveConflict: "keep-mine", and "load-theirs" up to its await.        *)
KeepMine(f) ==
  /\ shown /\ Loaded(f) /\ tabs[f].conflict # None
  /\ tabs' = [tabs EXCEPT ![f].conflict = None]
  /\ unaware' = unaware \cup {f}
  /\ UNCHANGED <<place, reads, save, server, typed, late, lost, crossed>>

LoadTheirs(f) ==
  /\ shown /\ Loaded(f) /\ tabs[f].conflict # None /\ Send("theirs", f)
  /\ UNCHANGED <<place, tabs, save, server, history>>

-----------------------------------------------------------------------------
(* The server: requests are served in any order, others write files, and   *)
(* what changes is told to whom the connection is subscribed to.           *)

(* broadcastFileEvent, with the change it tells of: the browser is not     *)
(* told when no agent of the project is selected, when the connection is   *)
(* broken, or when its buffer is full.                                     *)
Tell(p, action, f, old) ==
  \/ /\ events' = Append(events, [project |-> p, action |-> action, path |-> f, old |-> old])
     /\ UNCHANGED unaware
  \/ /\ unaware' = IF p = current THEN Missed({f, old}) ELSE unaware
     /\ UNCHANGED events

(* The bounds.  What happens before the editor is opened reaches nobody,   *)
(* and Next has others change the project selected or open, as no other    *)
(* one is seen in the browser.                                             *)
Room == current # None /\ writes + switches < MaxTurns /\ Len(events) < MaxEvents

Written(p, f) ==
  /\ disk' = [disk EXCEPT ![p][f] = [from |-> p, no |-> writes + 1]]
  /\ writes' = writes + 1

ServeRead(r) ==
  /\ reads[r] # None /\ reads[r].answer = Waiting
  /\ reads' = [reads EXCEPT ![r].answer = disk[reads[r].project][reads[r].path]]
  /\ UNCHANGED <<place, tabs, save, server, history>>

ServeSave ==
  /\ save # None /\ save.answer = Waiting /\ Room
  /\ Written(save.project, save.path) /\ Tell(save.project, "changed", save.path, None)
  /\ save' = [save EXCEPT !.answer = disk'[save.project][save.path]]
  /\ UNCHANGED <<place, tabs, reads, typed, late, lost, crossed>>

(* An agent or another browser: an edit, or an upload over what is there.  *)
OtherWrites(p, f) ==
  /\ Room /\ Written(p, f)
  /\ \E action \in {"changed", "created"} : Tell(p, action, f, None)
  /\ UNCHANGED <<place, tabs, reads, save, typed, late, lost, crossed>>

OtherDeletes(p, f) ==
  /\ Room /\ disk[p][f] # None /\ disk' = [disk EXCEPT ![p][f] = None]
  /\ writes' = writes + 1 /\ Tell(p, "deleted", f, None)
  /\ UNCHANGED <<place, tabs, reads, save, typed, late, lost, crossed>>

OtherRenames(p, old, f) ==
  /\ Room /\ disk[p][old] # None /\ disk[p][f] = None
  /\ disk' = [disk EXCEPT ![p][f] = disk[p][old], ![p][old] = None]
  /\ writes' = writes + 1 /\ Tell(p, "renamed", f, old)
  /\ UNCHANGED <<place, tabs, reads, save, typed, late, lost, crossed>>

-----------------------------------------------------------------------------
(* What arrives in the browser.                                            *)

(* An answer with another text was given before, and comes later.          *)
Overtakes(f, t) ==
  \/ \E r \in Out(f) : reads[r].answer \notin {None, Waiting, t}
  \/ Saving(f) /\ save.answer \notin {Waiting, t}

(* What the tab has missed once t is its text, and its conflict is gone.   *)
Missing(f, t, conflict) ==
  IF t = disk[current][f] /\ ~Overtakes(f, t) THEN unaware \ {f}
  ELSE IF t = disk[current][f] \/ conflict # None THEN unaware \cup {f}
  ELSE unaware

(* The tab's text becomes t, and Monaco shows it.                          *)
Shows(f, t) ==
  /\ lost' = IF f \in typed /\ t # tabs[f].text THEN lost \cup {f} ELSE lost
  /\ typed' = IF t # tabs[f].text THEN typed \ {f} ELSE typed
  /\ unaware' = Missing(f, t, None)
  /\ UNCHANGED <<late, crossed>>

Ignored(f) ==
  unaware' = Missed({f}) /\ UNCHANGED <<tabs, typed, late, lost, crossed>>

(* The answer to openTab is taken by whatever tab has the path now.        *)
OpenAnswer(f, t) ==
  /\ tabs' = [tabs EXCEPT ![f].text = t] /\ Shows(f, t)

(* Mutant: the tab is not looked at again when the answer has come.        *)
ReloadAnyTab(f, t) == OpenAnswer(f, t)

(* The answer to a "changed" event: only for a tab as it was at the event. *)
ReloadAnswer(f, t) ==
  IF tabs[f].dirty THEN Ignored(f)
  ELSE tabs' = [tabs EXCEPT ![f].text = t] /\ Shows(f, t)

ConflictAnswer(f, t) ==
  IF ~tabs[f].dirty THEN Ignored(f)
  ELSE tabs' = [tabs EXCEPT ![f].conflict = t] /\ UNCHANGED history

(* The user has given up what was typed.                                   *)
TheirsAnswer(f, t) ==
  /\ tabs' = [tabs EXCEPT ![f] = [text |-> t, dirty |-> FALSE, conflict |-> None]]
  /\ typed' = typed \ {f} /\ late' = late \ {f} /\ lost' = lost \ {f}
  /\ unaware' = Missing(f, t, tabs[f].conflict)
  /\ UNCHANGED crossed

(* The await of a request.                                                 *)
Answered(r) == reads[r] # None /\ reads[r].answer # Waiting

ReadAnswer(r) ==
  /\ Answered(r)
  /\ reads' = [reads EXCEPT ![r] = None] /\ UNCHANGED save
  /\ LET q == reads[r] IN
       IF ~Open(q.path) \/ q.answer = None THEN Untaken
       ELSE CASE q.kind = "open"     -> OpenAnswer(q.path, q.answer)
              [] q.kind = "reload"   -> ReloadAnswer(q.path, q.answer)
              [] q.kind = "conflict" -> ConflictAnswer(q.path, q.answer)
              [] OTHER               -> TheirsAnswer(q.path, q.answer)
  /\ UNCHANGED <<place, server>>

(* handleSave goes on: updateContent and markClean, whatever was typed.    *)
SaveAnswer ==
  /\ save # None /\ save.answer # Waiting /\ save' = None /\ UNCHANGED reads
  /\ LET f == save.path  t == save.answer IN
       IF ~Open(f) THEN Untaken
       ELSE /\ tabs' = [tabs EXCEPT ![f] = [text |-> t, dirty |-> FALSE, conflict |-> None]]
            /\ lost' = IF f \in typed THEN lost \cup {f} ELSE lost \ {f}
            /\ late' = IF f \in typed THEN late ELSE late \ {f}
            /\ typed' = typed \ {f}
            /\ unaware' = Missing(f, t, tabs[f].conflict)
            /\ UNCHANGED crossed
  /\ UNCHANGED <<place, server>>

(* The request fails, before or after the server has served it.            *)
SaveFails ==
  /\ save # None /\ save' = None /\ UNCHANGED reads /\ Untaken
  /\ UNCHANGED <<place, server>>

(* handleFileEvent.                                                        *)
Moved(S, old, f) == IF old \in S THEN (S \ {old}) \cup {f} ELSE S \ {f}

(* The text of a renamed tab is not read again: it may be that of another  *)
(* file, which was written under the old name, or of an earlier version.   *)
RenameTab(old, f) ==
  /\ tabs' = [tabs EXCEPT ![f] = tabs[old], ![old] = None]
  /\ typed' = Moved(typed, old, f) /\ lost' = Moved(lost, old, f)
  /\ late' = Moved(late, old, f) \cup ({f} \cap Asked)
  /\ unaware' = IF {old, f} \cap Asked # {} \/ current # selected
                THEN unaware \cup {f, old}
                ELSE IF tabs[old].text # disk[current][f] THEN unaware \cup {f}
                ELSE Moved(unaware, old, f)
  /\ crossed' = IF old \in crossed THEN crossed \cup {f} ELSE crossed

(* Mutant: an event about a tab with changes is left out of account.       *)
ReloadsOnly(e) ==
  /\ IF e.action = "changed" /\ Open(e.path) /\ ~tabs[e.path].dirty
     THEN Send("reload", e.path) ELSE UNCHANGED reads
  /\ UNCHANGED <<tabs, history>>

HandleFileEvent(e) ==
  \/ /\ e.action = "deleted"
     /\ IF Open(e.path) THEN CloseTabs({e.path}) ELSE Ignored(e.path)
     /\ UNCHANGED reads
  \/ /\ e.action = "renamed"
     /\ IF Open(e.old) THEN RenameTab(e.old, e.path)
        ELSE /\ unaware' = Missed({e.path, e.old})
             /\ UNCHANGED <<tabs, typed, late, lost, crossed>>
     /\ UNCHANGED reads
  \/ /\ e.action = "changed"
     /\ IF Open(e.path)
        THEN /\ Send(IF tabs[e.path].dirty THEN "conflict" ELSE "reload", e.path)
             /\ UNCHANGED <<tabs, history>>
        ELSE Ignored(e.path) /\ UNCHANGED reads
  \/ e.action = "created" /\ Ignored(e.path) /\ UNCHANGED reads

(* The file_event handler of projectStore: events of the selected project. *)
FileEvent ==
  /\ events # <<>> /\ events' = Tail(events)
  /\ LET e == Head(events) IN
       IF e.project = selected THEN HandleFileEvent(e)
       ELSE /\ unaware' = IF e.project = current THEN Missed({e.path, e.old}) ELSE unaware
            /\ UNCHANGED <<tabs, reads, typed, late, lost, crossed>>
  /\ UNCHANGED <<place, save, disk, writes>>

Next ==
  \/ OpenEditor \/ Close
  \/ ServeSave \/ SaveAnswer \/ SaveFails \/ FileEvent
  \/ \E p \in Projects : SelectProject(p)
  \/ \E f \in Files : OpenTab(f) \/ Type(f) \/ Save(f) \/ KeepMine(f) \/ LoadTheirs(f)
  \/ \E p \in {selected, current} \ {None}, f \in Files :
       OtherWrites(p, f) \/ OtherDeletes(p, f) \/ \E old \in Files : OtherRenames(p, old, f)
  \/ \E r \in Reads : ServeRead(r) \/ ReadAnswer(r)

Spec == Init /\ [][Next]_vars

-----------------------------------------------------------------------------
(* Properties.                                                             *)

(* Every variable stays in its type.                                       *)
TypeOK ==
  /\ {selected, current} \subseteq Projects \cup {None} /\ shown \in BOOLEAN
  /\ tabs \in [Files -> Tab \cup {None}] /\ stored \in [Projects -> SUBSET Files]
  /\ \A r \in Reads \ Free : reads[r] \in ReadRec
  /\ save \in SaveRec \cup {None}
  /\ \A i \in DOMAIN events :
       events[i] \in [project : Projects, action : {"changed", "created", "deleted", "renamed"},
                      path : Files, old : Files \cup {None}]
  /\ disk \in [Projects -> [Files -> Texts \cup {None}]] /\ writes \in 0..MaxTurns
  /\ UNION {typed, late, lost, unaware, crossed} \subseteq Files

(* A tab shows a text of the project it belongs to, unless a request for   *)
(* its path was out when the project was switched: the answer to one is    *)
(* taken by the tab of that name in the other project, and saved from it.  *)
OwnContent ==
  \A f \in Files : Loaded(f) => tabs[f].text.from = current \/ f \in crossed

(* While the editor is open, typing that no save was given is replaced     *)
(* only in a tab that was typed in while a save of it, or a second request *)
(* to open it, was out, or that was renamed to a path with an answer out:  *)
(* no file event and no other answer takes the place of what was typed.    *)
TypingKept == lost \subseteq late

(* A tab whose text the server's file no longer has is not left so without *)
(* a sign: it is told soon, it shows a conflict, or it is one of the tabs  *)
(* that were not told or threw away what they were told.                   *)
StaleIsKnown ==
  \A f \in Files :
    Loaded(f) /\ tabs[f].text # disk[current][f] =>
      \/ tabs[f].conflict # None
      \/ \E i \in DOMAIN events :
           events[i].project = current /\ f \in {events[i].path, events[i].old}
      \/ Out(f) # {} \/ Saving(f)
      \/ f \in unaware \cup crossed

(* A conflict is shown only on a tab that counts as changed, so that no    *)
(* reload takes the place of the user's answer to it.                      *)
ConflictOnDirty ==
  \A f \in Files : Open(f) /\ tabs[f].conflict # None => tabs[f].dirty
=============================================================================
