------------------------ MODULE ProxyServicesProofs ------------------------
(***************************************************************************)
(* Proofs about ProxyServices, for every number of requests, groups and    *)
(* listeners, every choice of verbs and every fault.                       *)
(***************************************************************************)
EXTENDS ProxyServices, TLAPS

Live == Steps \ (Ended \cup {"idle"})

EditsGroup == {"createGroup", "createService", "updateGroup", "updateService"}
EditsListener == {"createListener", "createService", "updateListener", "updateService"}
FindsListener == {"updateListener", "updateService", "deleteListener", "rotate"}

TaskRecord ==
    [pc : Steps, verb : AllVerbs \cup {None},
     g : GroupIds \cup {None}, l : ListenerIds \cup {None},
     refs : SUBSET GroupIds,
     sawG : GroupRow \cup {None}, sawL : ListenerRow \cup {None},
     oldG : GroupRow \cup {None}, oldL : ListenerRow \cup {None},
     wrote : Nat, wroteL : Nat,
     backG : Edits \cup {None}, backL : Edits \cup {None},
     old : Edits, kept : BOOLEAN, crossed : BOOLEAN]

(* Which requests are found at a step.                                     *)
VerbFits(t) ==
    /\ t.pc = "oread" => t.verb = "updateService"
    /\ t.pc \in {"gcheck", "gwrite", "gapply"} => t.verb \in EditsGroup
    /\ t.pc = "gread" => t.verb \in {"updateGroup", "updateService"}
    /\ t.pc \in {"lcheck", "lwrite", "lapply"} => t.verb \in EditsListener
    /\ t.pc \in {"lread", "lrestore"} => t.verb \in {"updateListener", "updateService"}
    /\ t.pc \in {"gback", "grestore", "greapply"} => t.verb = "updateService"
    /\ t.pc = "sync" => t.verb \in Services
    /\ t.pc \in {"dcheck", "gdelete"} => t.verb \in {"createService", "deleteGroup"}
    /\ t.pc = "ldelete" => t.verb = "deleteListener"
    /\ t.pc = "rotate" => t.verb = "rotate"
    /\ t.pc \in {"sread", "ssave", "sapply", "srestore", "sreapply"} => t.verb = "settings"
    /\ t.pc \in Live => t.verb \in AllVerbs

(* What a request knows at a step.                                         *)
RowsFit(o, t) ==
    t.pc \in Live =>
        /\ t.verb \in {"createGroup", "createService"} => t.g = o
        /\ t.verb \in {"createListener", "createService"} => t.l = o
        /\ t.verb \in {"updateGroup", "updateService", "deleteGroup"} =>
               t.g \in GroupIds /\ t.sawG \in GroupRow
        /\ t.verb \in EditsListener => t.g \in GroupIds
        /\ t.verb \in FindsListener => t.l \in ListenerIds /\ t.sawL \in ListenerRow
        /\ t.verb = "updateService" /\ t.pc # "oread" => t.oldG \in GroupRow
        /\ t.pc \in {"lwrite", "lread", "lapply", "lrestore"} /\ t.verb \in FindsListener =>
               t.oldL \in ListenerRow

TasksTyped ==
    /\ task \in [Ops -> TaskRecord]
    /\ \A o \in Ops : VerbFits(task[o]) /\ RowsFit(o, task[o])

RowsTyped ==
    /\ DOMAIN groups \subseteq GroupIds
    /\ \A g \in DOMAIN groups : groups[g] \in GroupRow
    /\ DOMAIN listeners \subseteq ListenerIds
    /\ \A l \in DOMAIN listeners :
           listeners[l] \in ListenerRow /\ listeners[l].group \in DOMAIN groups

FlagsTyped == settings \in Edits /\ applied \in BOOLEAN /\ drifted \in BOOLEAN

\* A step of one request leaves the others' alone.
LEMMA OwnTask ==
    ASSUME TasksTyped, NEW o \in Ops, Step(o), NEW p \in Ops \ {o}
    PROVE  task'[p] = task[p]
<1> USE DEF TasksTyped
<1>1. CASE SubmitCreate(o) \/ SubmitUpdate(o) \/ SubmitOther(o)
  BY <1>1 DEF SubmitCreate, SubmitUpdate, SubmitOther, Submit
<1>2. CASE \/ ReadOriginal(o) \/ CheckGroup(o) \/ WriteGroup(o) \/ RefuseGroup(o)
           \/ ReadBackGroup(o) \/ LoseGroup(o) \/ ApplyGroup(o)
  BY <1>2 DEF ReadOriginal, CheckGroup, WriteGroup, RefuseGroup, ReadBackGroup,
              LoseGroup, ApplyGroup, Go, End
<1>3. CASE \/ CheckListener(o) \/ WriteListener(o) \/ RefuseListener(o)
           \/ ReadBackListener(o) \/ LoseListener(o)
           \/ SettingsUnread(o) \/ ApplyListener(o)
           \/ RestoreListener(o) \/ KeepListener(o)
  BY <1>3 DEF CheckListener, WriteListener, RefuseListener, ReadBackListener,
              LoseListener, SettingsUnread, ApplyListener, RestoreListener,
              KeepListener, Unwritten, Unrestored, Go, End
<1>4. CASE \/ CheckFormerGroup(o) \/ RestoreGroup(o) \/ KeepGroup(o)
           \/ ReapplyGroup(o) \/ Sync(o)
  BY <1>4 DEF CheckFormerGroup, RestoreGroup, KeepGroup, ReapplyGroup, Sync, Go, End
<1>5. CASE \/ CheckReferences(o) \/ DeleteGroup(o) \/ KeepDeleted(o)
           \/ DeleteListener(o) \/ RefuseDelete(o) \/ ApplyDelete(o)
  BY <1>5 DEF CheckReferences, DeleteGroup, KeepDeleted, DeleteListener,
              RefuseDelete, ApplyDelete, Undeleted, Go, End
<1>6. CASE \/ Rotate(o) \/ ReadSettings(o) \/ SaveSettings(o) \/ SaveFails(o)
           \/ ApplySettings(o)
  BY <1>6 DEF Rotate, ReadSettings, SaveSettings, SaveFails, ApplySettings, Go, End
<1> QED BY <1>1, <1>2, <1>3, <1>4, <1>5, <1>6 DEF Step

(* The task of a request that takes a step stays well-formed.              *)
TaskFits(o) ==
    /\ task' \in [Ops -> TaskRecord]
    /\ VerbFits(task'[o])
    /\ RowsFit(o, task'[o])

\* A request that ends has nothing left to know.
LEMMA EndFits ==
    ASSUME TasksTyped, NEW o \in Ops, NEW how \in Ended, End(o, how)
    PROVE  TaskFits(o)
  BY DEF TasksTyped, TaskRecord, Ended, Steps, Live, End, Idle, TaskFits, VerbFits,
         RowsFit, Edits

\* A request that goes on keeps what it knows; only the step after the rows
\* of a listener were read asks for more.
LEMMA GoFits ==
    ASSUME TasksTyped, NEW o \in Ops, NEW pc \in Live, Go(o, pc),
           task[o].pc \in Live \ {"oread"},
           VerbFits([task[o] EXCEPT !.pc = pc]),
           pc \in {"lwrite", "lread", "lapply", "lrestore"} =>
               task[o].pc \in {"lwrite", "lread", "lapply"}
    PROVE  TaskFits(o)
<1> DEFINE t == [task[o] EXCEPT !.pc = pc]
<1>1. task'[o] = t /\ task' \in [Ops -> TaskRecord]
  BY DEF TasksTyped, TaskRecord, Go, Live
<1>2. RowsFit(o, t)
  BY DEF TasksTyped, TaskRecord, RowsFit, Live, Steps
<1> QED BY <1>1, <1>2 DEF TaskFits

\* What a request knows when it is submitted.
LEMMA SubmitShape ==
    ASSUME TasksTyped, RowsTyped, NEW o \in Ops,
           NEW verb \in AllVerbs, NEW first \in Live,
           NEW g \in GroupIds \cup {None}, NEW l \in ListenerIds \cup {None},
           Submit(o, verb, first, g, l)
    PROVE  /\ task' \in [Ops -> TaskRecord]
           /\ task'[o].pc = first /\ task'[o].verb = verb
           /\ task'[o].g = g /\ task'[o].l = l
           /\ g \in DOMAIN groups => task'[o].sawG = groups[g]
           /\ l \in DOMAIN listeners => task'[o].sawL = listeners[l]
<1> DEFINE seenG == IF g \in DOMAIN groups THEN groups[g] ELSE None
           seenL == IF l \in DOMAIN listeners THEN listeners[l] ELSE None
<1>1. PICK refs \in SUBSET DOMAIN groups :
          task' = [task EXCEPT ![o] =
              [Idle EXCEPT !.pc = first, !.verb = verb, !.g = g, !.l = l,
                           !.refs = refs, !.sawG = seenG, !.sawL = seenL]]
  BY DEF Submit
<1>2. seenG \in GroupRow \cup {None} /\ seenL \in ListenerRow \cup {None}
  BY DEF RowsTyped
<1>3. refs \in SUBSET GroupIds
  BY DEF RowsTyped
<1> DEFINE t == [Idle EXCEPT !.pc = first, !.verb = verb, !.g = g, !.l = l,
                             !.refs = refs, !.sawG = seenG, !.sawL = seenL]
<1>4. /\ t \in TaskRecord
      /\ t.pc = first /\ t.verb = verb /\ t.g = g /\ t.l = l
      /\ t.sawG = seenG /\ t.sawL = seenL
  <2> HIDE DEF seenG, seenL
  <2> QED BY <1>2, <1>3 DEF Idle, TaskRecord, Live, Edits
<1>5. task'[o] = t /\ task' \in [Ops -> TaskRecord]
  <2> HIDE DEF t
  <2> QED BY <1>1, <1>4 DEF TasksTyped, t
<1> HIDE DEF t
<1> QED BY <1>4, <1>5

\* A submitted request fits.
LEMMA SubmitFits ==
    ASSUME TasksTyped, RowsTyped, NEW o \in Ops,
           SubmitCreate(o) \/ SubmitUpdate(o) \/ SubmitOther(o)
    PROVE  TaskFits(o)
<1> USE SubmitShape
    DEF RowsTyped, Steps, Ended, Live, TaskFits, VerbFits, RowsFit, AllVerbs,
        EditsGroup, EditsListener, FindsListener, Services, GroupIds, ListenerIds
<1>1. CASE SubmitCreate(o)
  <2>1. CASE Submit(o, "createGroup", "gcheck", o, None)
    BY <2>1
  <2>2. CASE Submit(o, "createService", "gcheck", o, o)
    BY <2>2
  <2>3. ASSUME NEW g \in DOMAIN groups, Submit(o, "createListener", "lcheck", g, o)
        PROVE  TaskFits(o)
    BY <2>3
  <2> QED BY <1>1, <2>1, <2>2, <2>3 DEF SubmitCreate
<1>2. CASE SubmitUpdate(o)
  <2>1. ASSUME NEW g \in DOMAIN groups, Submit(o, "updateGroup", "gcheck", g, None)
        PROVE  TaskFits(o)
    BY <2>1
  <2>2. ASSUME NEW l \in DOMAIN listeners, NEW g \in DOMAIN groups,
               Submit(o, "updateListener", "lcheck", g, l)
        PROVE  TaskFits(o)
    BY <2>2
  <2>3. ASSUME NEW l \in DOMAIN listeners, NEW g \in DOMAIN groups,
               Submit(o, "updateService", "oread", g, l)
        PROVE  TaskFits(o)
    BY <2>3
  <2> QED BY <1>2, <2>1, <2>2, <2>3 DEF SubmitUpdate
<1>3. CASE SubmitOther(o)
  <2>1. ASSUME NEW g \in DOMAIN groups, Submit(o, "deleteGroup", "dcheck", g, None)
        PROVE  TaskFits(o)
    BY <2>1
  <2>2. ASSUME NEW l \in DOMAIN listeners, Submit(o, "deleteListener", "ldelete", None, l)
        PROVE  TaskFits(o)
    <3>0. /\ "deleteListener" \in AllVerbs /\ "ldelete" \in Live
          /\ None \in GroupIds \cup {None} /\ l \in ListenerIds \cup {None}
      BY <2>2
    <3>1. /\ task' \in [Ops -> TaskRecord]
          /\ task'[o].pc = "ldelete" /\ task'[o].verb = "deleteListener"
          /\ task'[o].l = l /\ task'[o].sawL = listeners[l]
      <4> HIDE DEF Live, AllVerbs, GroupIds, ListenerIds
      <4> QED BY <2>2, <3>0
    <3>2. VerbFits(task'[o])
      BY <3>1
    <3>3. RowsFit(o, task'[o])
      BY <3>1
    <3> QED BY <3>1, <3>2, <3>3
  <2>3. ASSUME NEW l \in DOMAIN listeners, Submit(o, "rotate", "rotate", None, l)
        PROVE  TaskFits(o)
    <3>0. /\ "rotate" \in AllVerbs /\ "rotate" \in Live
          /\ None \in GroupIds \cup {None} /\ l \in ListenerIds \cup {None}
      BY <2>3
    <3>1. /\ task' \in [Ops -> TaskRecord]
          /\ task'[o].pc = "rotate" /\ task'[o].verb = "rotate"
          /\ task'[o].l = l /\ task'[o].sawL = listeners[l]
      <4> HIDE DEF Live, AllVerbs, GroupIds, ListenerIds
      <4> QED BY <2>3, <3>0
    <3>2. VerbFits(task'[o])
      BY <3>1
    <3>3. RowsFit(o, task'[o])
      BY <3>1
    <3> QED BY <3>1, <3>2, <3>3
  <2>4. CASE Submit(o, "settings", "sread", None, None)
    <3>0. /\ "settings" \in AllVerbs /\ "sread" \in Live
          /\ None \in GroupIds \cup {None} /\ None \in ListenerIds \cup {None}
      OBVIOUS
    <3>1. /\ task' \in [Ops -> TaskRecord]
          /\ task'[o].pc = "sread" /\ task'[o].verb = "settings"
      <4> HIDE DEF Live, AllVerbs, GroupIds, ListenerIds
      <4> QED BY <2>4, <3>0
    <3>2. VerbFits(task'[o]) /\ RowsFit(o, task'[o])
      BY <3>1
    <3> QED BY <3>1, <3>2
  <2> QED BY <1>3, <2>1, <2>2, <2>3, <2>4 DEF SubmitOther
<1> QED BY <1>1, <1>2, <1>3

\* Whatever step it takes, a request fits where it arrives.
LEMMA StepFits ==
    ASSUME TasksTyped, RowsTyped, FlagsTyped, NEW o \in Ops, Step(o)
    PROVE  TaskFits(o)
<1> DEFINE t == task[o]
<1>0. t \in TaskRecord /\ VerbFits(t) /\ RowsFit(o, t)
  BY DEF TasksTyped
<1>a. ASSUME NEW pc \in Live, t.pc \in Live \ {"oread"}, Go(o, pc),
             VerbFits([t EXCEPT !.pc = pc]),
             pc \in {"lwrite", "lread", "lapply", "lrestore"} =>
                 t.pc \in {"lwrite", "lread", "lapply"}
      PROVE  TaskFits(o)
  BY <1>a, GoFits
<1>b. ASSUME NEW how \in Ended, End(o, how) PROVE TaskFits(o)
  BY <1>b, EndFits
<1> DEFINE Fits(pc) == pc \in Live /\ VerbFits([t EXCEPT !.pc = pc])
<1>c. /\ t.pc = "gcheck" => Fits("gwrite")
      /\ t.pc = "gapply" /\ t.verb \in Services => Fits("lcheck")
      /\ t.pc \in {"gapply", "lcheck", "lwrite", "lapply", "sync"}
         /\ t.verb = "createService" => Fits("dcheck")
      /\ t.pc \in {"lcheck", "lwrite", "lread", "lrestore"}
         /\ t.verb = "updateService" => Fits("gback")
      /\ t.pc = "lapply" /\ t.verb \in Services => Fits("sync")
      /\ t.pc = "lapply" /\ t.verb \notin {"createListener", "createService"}
         => Fits("lrestore")
      /\ t.pc = "gback" => Fits("grestore")
      /\ t.pc = "grestore" => Fits("greapply")
      /\ t.pc = "dcheck" => Fits("gdelete")
      /\ t.pc \in {"gdelete", "ldelete"} => Fits("dapply")
      /\ t.pc = "ssave" => Fits("sapply")
      /\ t.pc = "sapply" => Fits("srestore")
      /\ t.pc = "srestore" => Fits("sreapply")
  BY <1>0 DEF TaskRecord, VerbFits, Services, EditsGroup, EditsListener, Live, Steps, Ended,
       AllVerbs
<1> HIDE DEF Fits
<1> DEFINE Same(u) == /\ u.verb = t.verb /\ u.g = t.g /\ u.l = t.l
                      /\ u.sawG = t.sawG /\ u.sawL = t.sawL
<1>1. CASE SubmitCreate(o) \/ SubmitUpdate(o) \/ SubmitOther(o)
  BY <1>1, SubmitFits
<1>2. CASE ReadOriginal(o)
  <2>1. CASE t.g \in DOMAIN groups
    <3>1. task' = [task EXCEPT ![o] = [t EXCEPT !.pc = "gcheck", !.oldG = groups[t.g]]]
      BY <1>0, <1>2, <2>1 DEF ReadOriginal, At, TasksTyped, TaskRecord
    <3> DEFINE u == [t EXCEPT !.pc = "gcheck", !.oldG = groups[t.g]]
    <3>2. groups[t.g] \in GroupRow /\ t.pc = "oread" /\ "gcheck" \in Steps
      BY <1>2, <2>1 DEF ReadOriginal, At, RowsTyped, Steps
    <3>3. u \in TaskRecord
      BY <1>0, <3>2 DEF TaskRecord
    <3>4. /\ u.pc = "gcheck" /\ u.oldG = groups[t.g] /\ u.verb = t.verb
          /\ u.g = t.g /\ u.l = t.l /\ u.sawG = t.sawG /\ u.sawL = t.sawL
      BY <1>0 DEF TaskRecord
    <3> HIDE DEF u
    <3>5. VerbFits(u) /\ RowsFit(o, u)
      BY <1>0, <3>2, <3>4 DEF VerbFits, RowsFit, Live, Steps, Ended, EditsGroup,
         EditsListener, FindsListener, AllVerbs
    <3> QED BY <3>1, <3>3, <3>5 DEF TasksTyped, TaskFits, u
  <2>2. CASE t.g \notin DOMAIN groups
    BY <1>2, <2>2, <1>b DEF ReadOriginal, Ended
  <2> QED BY <2>1, <2>2
<1>3. CASE CheckGroup(o)
  BY <1>3, <1>a, <1>c DEF CheckGroup, At, Fits, Live, Steps, Ended
<1>4. CASE WriteGroup(o)
  <2> DEFINE version == IF t.verb \in Creates THEN 1 ELSE t.sawG.version + 1
             next == IF t.verb \in Creates THEN "gapply" ELSE "gread"
             u == [t EXCEPT !.pc = next, !.wrote = version, !.backG = o]
  <2>1. version \in Nat
    BY <1>0, <1>4 DEF WriteGroup, At, VerbFits, RowsFit, EditsGroup, Creates, Live,
       Steps, Ended, GroupRow
  <2>2. task' = [task EXCEPT ![o] = u]
    BY <1>0, <1>4 DEF WriteGroup, TasksTyped, TaskRecord
  <2> HIDE DEF version
  <2>3. u \in TaskRecord /\ Same(u) /\ u.pc = next /\ u.oldG = t.oldG
    <3>1. next \in Steps /\ o \in Edits
      BY DEF Steps, Edits
    <3> HIDE DEF next
    <3>2. u \in TaskRecord
      BY <1>0, <2>1, <3>1 DEF TaskRecord
    <3>3. Same(u) /\ u.pc = next /\ u.oldG = t.oldG
      BY <1>0 DEF TaskRecord
    <3> QED BY <3>2, <3>3
  <2>4. t.pc = "gwrite"
    BY <1>4 DEF WriteGroup, At
  <2> HIDE DEF u
  <2>5. VerbFits(u)
    BY <1>0, <2>3, <2>4 DEF VerbFits, Live, Steps, Ended, TaskRecord, EditsGroup, Creates
  <2>6. RowsFit(o, u)
    BY <1>0, <2>3, <2>4 DEF RowsFit, Live, Steps, Ended
  <2> QED BY <2>2, <2>3, <2>5, <2>6 DEF TasksTyped, TaskFits
<1>22. CASE ReadBackGroup(o)
  <2> DEFINE row == groups[t.g]
             crossed == t.crossed \/ row.version # t.wrote
             u == [t EXCEPT !.pc = "gapply", !.wrote = row.version, !.backG = row.edit,
                            !.crossed = crossed]
  <2>1. row \in GroupRow /\ t.pc = "gread"
    BY <1>22 DEF ReadBackGroup, At, RowsTyped
  <2>2. task' = [task EXCEPT ![o] = u]
    BY <1>0, <1>22 DEF ReadBackGroup, TasksTyped, TaskRecord
  <2> HIDE DEF row
  <2>3. u \in TaskRecord /\ Same(u) /\ u.pc = "gapply" /\ u.oldG = t.oldG
    <3>1. "gapply" \in Steps /\ row.version \in Nat /\ row.edit \in Edits
      BY <2>1 DEF Steps, GroupRow
    <3>2. crossed \in BOOLEAN
      OBVIOUS
    <3> HIDE DEF crossed
    <3>3. u \in TaskRecord
      BY <1>0, <3>1, <3>2 DEF TaskRecord
    <3>4. Same(u) /\ u.pc = "gapply" /\ u.oldG = t.oldG
      BY <1>0 DEF TaskRecord
    <3> QED BY <3>3, <3>4
  <2> HIDE DEF u
  <2>4. VerbFits(u)
    BY <1>0, <2>1, <2>3 DEF VerbFits, Live, Steps, Ended, TaskRecord, EditsGroup
  <2>5. RowsFit(o, u)
    BY <1>0, <2>1, <2>3 DEF RowsFit, Live, Steps, Ended
  <2> QED BY <2>2, <2>3, <2>4, <2>5 DEF TasksTyped, TaskFits
<1>5. CASE \/ RefuseGroup(o) \/ LoseGroup(o) \/ SettingsUnread(o) \/ KeepGroup(o)
           \/ RefuseDelete(o)
  BY <1>5, <1>b DEF RefuseGroup, LoseGroup, SettingsUnread, KeepGroup, RefuseDelete, Ended
<1>6. CASE ApplyGroup(o)
  BY <1>6, <1>a, <1>b, <1>c DEF ApplyGroup, At, Fits, Live, Steps, Ended
<1>d. ASSUME t.pc \in {"lcheck", "lwrite", "lrestore"}, Unwritten(o)
      PROVE  TaskFits(o)
  <2>1. t.pc = "lrestore" => t.verb # "createService"
    BY <1>0 DEF VerbFits
  <2> QED BY <1>d, <2>1, <1>a, <1>b, <1>c DEF Unwritten, Fits, Live, Steps, Ended
<1>7. CASE CheckListener(o)
  <2> DEFINE found == IF t.verb \in Creates THEN None ELSE listeners[t.l]
             u == [t EXCEPT !.pc = "lwrite", !.oldL = found]
  <2>1. /\ found \in ListenerRow \cup {None}
        /\ t.verb \notin Creates => found \in ListenerRow
    BY <1>7 DEF CheckListener, RowsTyped
  <2>2. task' = [task EXCEPT ![o] = u]
    BY <1>0, <1>7 DEF CheckListener, TasksTyped, TaskRecord
  <2> HIDE DEF found
  <2>3. /\ u \in TaskRecord /\ Same(u) /\ u.pc = "lwrite"
        /\ u.oldG = t.oldG /\ u.oldL = found
    <3>0. "lwrite" \in Steps
      BY DEF Steps
    <3>1. u \in TaskRecord
      BY <1>0, <2>1, <3>0 DEF TaskRecord
    <3>2. Same(u) /\ u.pc = "lwrite" /\ u.oldG = t.oldG /\ u.oldL = found
      BY <1>0 DEF TaskRecord
    <3> QED BY <3>1, <3>2
  <2>4. t.pc = "lcheck"
    BY <1>7 DEF CheckListener, At
  <2> HIDE DEF u
  <2>5. VerbFits(u)
    BY <1>0, <2>3, <2>4 DEF VerbFits, Live, Steps, Ended, TaskRecord
  <2>6. RowsFit(o, u)
    BY <1>0, <2>1, <2>3, <2>4 DEF RowsFit, Live, Steps, Ended, FindsListener, Creates
  <2> QED BY <2>2, <2>3, <2>5, <2>6 DEF TasksTyped, TaskFits
<1>8. CASE WriteListener(o)
  <2> DEFINE version == IF t.verb \in Creates THEN 1 ELSE t.sawL.version + 1
             next == IF t.verb \in Creates THEN "lapply" ELSE "lread"
             u == [t EXCEPT !.pc = next, !.wroteL = version, !.backL = o]
  <2>1. version \in Nat
    BY <1>0, <1>8 DEF WriteListener, At, VerbFits, RowsFit, EditsListener,
       FindsListener, Creates, Live, Steps, Ended, ListenerRow
  <2>2. task' = [task EXCEPT ![o] = u]
    BY <1>0, <1>8 DEF WriteListener, TasksTyped, TaskRecord
  <2> HIDE DEF version
  <2>3. /\ u \in TaskRecord /\ Same(u) /\ u.pc = next
        /\ u.oldG = t.oldG /\ u.oldL = t.oldL
    <3>1. next \in Steps /\ o \in Edits
      BY DEF Steps, Edits
    <3> HIDE DEF next
    <3>2. u \in TaskRecord
      BY <1>0, <2>1, <3>1 DEF TaskRecord
    <3>3. Same(u) /\ u.pc = next /\ u.oldG = t.oldG /\ u.oldL = t.oldL
      BY <1>0 DEF TaskRecord
    <3> QED BY <3>2, <3>3
  <2>4. t.pc = "lwrite"
    BY <1>8 DEF WriteListener, At
  <2> HIDE DEF u
  <2>5. VerbFits(u)
    BY <1>0, <2>3, <2>4 DEF VerbFits, Live, Steps, Ended, TaskRecord, EditsListener, Creates
  <2>6. RowsFit(o, u)
    BY <1>0, <2>3, <2>4 DEF RowsFit, Live, Steps, Ended
  <2> QED BY <2>2, <2>3, <2>5, <2>6 DEF TasksTyped, TaskFits
<1>e. ASSUME t.pc \in {"lread", "lrestore"}, Unrestored(o)
      PROVE  TaskFits(o)
  <2>1. CASE t.verb = "updateService"
    <3> DEFINE u == [t EXCEPT !.pc = "gback", !.kept = TRUE]
    <3>1. task' = [task EXCEPT ![o] = u]
      BY <1>0, <1>e, <2>1 DEF Unrestored, TasksTyped, TaskRecord
    <3>2. u \in TaskRecord /\ VerbFits(u) /\ RowsFit(o, u)
      BY <1>0, <1>e, <2>1 DEF TaskRecord, VerbFits,
         RowsFit, Live, Steps, Ended, EditsGroup, EditsListener, FindsListener, AllVerbs
    <3> QED BY <3>1, <3>2 DEF TasksTyped, TaskFits
  <2>2. CASE t.verb # "updateService"
    BY <1>e, <2>2, <1>b DEF Unrestored, Ended
  <2> QED BY <2>1, <2>2
<1>23. CASE ReadBackListener(o)
  <2> DEFINE row == listeners[t.l]
             crossed == t.crossed \/ row.version # t.wroteL
             u == [t EXCEPT !.pc = "lapply", !.wroteL = row.version, !.backL = row.edit,
                            !.crossed = crossed]
  <2>1. row \in ListenerRow /\ t.pc = "lread"
    BY <1>23 DEF ReadBackListener, At, RowsTyped
  <2>2. task' = [task EXCEPT ![o] = u]
    BY <1>0, <1>23 DEF ReadBackListener, TasksTyped, TaskRecord
  <2> HIDE DEF row
  <2>3. /\ u \in TaskRecord /\ Same(u) /\ u.pc = "lapply"
        /\ u.oldG = t.oldG /\ u.oldL = t.oldL
    <3>1. "lapply" \in Steps /\ row.version \in Nat /\ row.edit \in Edits
      BY <2>1 DEF Steps, ListenerRow
    <3>2. crossed \in BOOLEAN
      OBVIOUS
    <3> HIDE DEF crossed
    <3>3. u \in TaskRecord
      BY <1>0, <3>1, <3>2 DEF TaskRecord
    <3>4. Same(u) /\ u.pc = "lapply" /\ u.oldG = t.oldG /\ u.oldL = t.oldL
      BY <1>0 DEF TaskRecord
    <3> QED BY <3>3, <3>4
  <2> HIDE DEF u
  <2>4. VerbFits(u)
    BY <1>0, <2>1, <2>3 DEF VerbFits, Live, Steps, Ended, TaskRecord, EditsListener
  <2>5. RowsFit(o, u)
    BY <1>0, <2>1, <2>3 DEF RowsFit, Live, Steps, Ended
  <2> QED BY <2>2, <2>3, <2>4, <2>5 DEF TasksTyped, TaskFits
<1>24. CASE LoseListener(o)
  BY <1>24, <1>e DEF LoseListener, At
<1>9. CASE RefuseListener(o)
  BY <1>9, <1>d DEF RefuseListener, At
<1>10. CASE ApplyListener(o)
  BY <1>10, <1>a, <1>b, <1>c DEF ApplyListener, At, Fits, Live, Steps, Ended
<1>11. CASE RestoreListener(o)
  BY <1>11, <1>d, <1>e DEF RestoreListener, At
<1>12. CASE KeepListener(o)
  BY <1>12, <1>e DEF KeepListener, At
<1>13. CASE CheckFormerGroup(o) \/ RestoreGroup(o)
  BY <1>13, <1>a, <1>b, <1>c DEF CheckFormerGroup, RestoreGroup, At, Fits, Live, Steps, Ended
<1>14. CASE ReapplyGroup(o) \/ ApplyDelete(o)
  BY <1>14, <1>b DEF ReapplyGroup, ApplyDelete, Ended
<1>15. CASE Sync(o)
  BY <1>15, <1>a, <1>b, <1>c DEF Sync, At, Fits, Live, Steps, Ended
<1>16. CASE CheckReferences(o) \/ KeepDeleted(o)
  BY <1>16, <1>a, <1>b, <1>c
  DEF CheckReferences, KeepDeleted, Undeleted, At, Fits, Live, Steps, Ended
<1>17. CASE DeleteGroup(o) \/ DeleteListener(o)
  BY <1>17, <1>a, <1>c DEF DeleteGroup, DeleteListener, At, Fits, Live, Steps, Ended
<1>18. CASE Rotate(o) \/ SaveFails(o)
  BY <1>18, <1>b DEF Rotate, SaveFails, Ended
<1>19. CASE ReadSettings(o)
  <2> DEFINE u == [t EXCEPT !.pc = "ssave", !.old = settings]
  <2>1. task' = [task EXCEPT ![o] = u]
    BY <1>0, <1>19 DEF ReadSettings, TasksTyped, TaskRecord
  <2>2. u \in TaskRecord /\ Same(u) /\ u.pc = "ssave"
    <3>1. "ssave" \in Steps /\ settings \in Edits
      BY DEF Steps, FlagsTyped
    <3>2. u \in TaskRecord
      BY <1>0, <3>1 DEF TaskRecord
    <3>3. Same(u) /\ u.pc = "ssave"
      BY <1>0 DEF TaskRecord
    <3> QED BY <3>2, <3>3
  <2>3. t.pc = "sread"
    BY <1>19 DEF ReadSettings, At
  <2> HIDE DEF u
  <2>4. t.verb = "settings"
    BY <1>0, <2>3 DEF VerbFits
  <2>5. VerbFits(u)
    BY <2>2, <2>4 DEF VerbFits, Live, Steps, Ended, AllVerbs
  <2>6. RowsFit(o, u)
    BY <2>2, <2>4 DEF RowsFit, EditsListener, FindsListener
  <2> QED BY <2>1, <2>2, <2>5, <2>6 DEF TasksTyped, TaskFits
<1>20. CASE SaveSettings(o)
  BY <1>20, <1>a, <1>c DEF SaveSettings, At, Fits, Live, Steps, Ended
<1>21. CASE ApplySettings(o)
  BY <1>21, <1>a, <1>b, <1>c DEF ApplySettings, At, Fits, Live, Steps, Ended
<1> QED
  BY <1>1, <1>2, <1>3, <1>4, <1>5, <1>6, <1>7, <1>8, <1>9, <1>10, <1>11, <1>12,
     <1>13, <1>14, <1>15, <1>16, <1>17, <1>18, <1>19, <1>20, <1>21, <1>22, <1>23,
     <1>24 DEF Step
-----------------------------------------------------------------------------
(* Rows.                                                                   *)

\* Seven actions change a row, the others none.
LEMMA RowsChange ==
    ASSUME NEW o \in Ops, Step(o)
    PROVE  \/ UNCHANGED <<groups, listeners>>
           \/ WriteGroup(o) \/ RestoreGroup(o) \/ DeleteGroup(o)
           \/ WriteListener(o) \/ RestoreListener(o) \/ DeleteListener(o)
           \/ Rotate(o)
<1> USE DEF database
<1>1. CASE SubmitCreate(o) \/ SubmitUpdate(o) \/ SubmitOther(o)
  BY <1>1 DEF SubmitCreate, SubmitUpdate, SubmitOther, Submit
<1>2. CASE \/ ReadOriginal(o) \/ CheckGroup(o) \/ RefuseGroup(o) \/ ReadBackGroup(o)
           \/ LoseGroup(o) \/ ApplyGroup(o)
  BY <1>2 DEF ReadOriginal, CheckGroup, RefuseGroup, ReadBackGroup, LoseGroup, ApplyGroup
<1>3. CASE \/ CheckListener(o) \/ RefuseListener(o) \/ ReadBackListener(o)
           \/ LoseListener(o) \/ SettingsUnread(o) \/ ApplyListener(o)
           \/ KeepListener(o)
  BY <1>3 DEF CheckListener, RefuseListener, ReadBackListener, LoseListener,
              SettingsUnread, ApplyListener, KeepListener
<1>4. CASE \/ CheckFormerGroup(o) \/ KeepGroup(o) \/ ReapplyGroup(o) \/ Sync(o)
  BY <1>4 DEF CheckFormerGroup, KeepGroup, ReapplyGroup, Sync
<1>5. CASE CheckReferences(o) \/ KeepDeleted(o) \/ RefuseDelete(o) \/ ApplyDelete(o)
  BY <1>5 DEF CheckReferences, KeepDeleted, RefuseDelete, ApplyDelete
<1>6. CASE ReadSettings(o) \/ SaveSettings(o) \/ SaveFails(o) \/ ApplySettings(o)
  BY <1>6 DEF ReadSettings, SaveSettings, SaveFails, ApplySettings
<1> QED BY <1>1, <1>2, <1>3, <1>4, <1>5, <1>6 DEF Step

\* Rows stay rows, and every listener keeps its group: neither a listener nor
\* its former row is written without the group, and no group is deleted under
\* a listener.
LEMMA RowsStayTyped ==
    ASSUME TasksTyped, RowsTyped, NEW o \in Ops, Step(o)
    PROVE  RowsTyped'
<1> DEFINE t == task[o]
<1>0. t \in TaskRecord /\ VerbFits(t) /\ RowsFit(o, t)
  BY DEF TasksTyped
<1>1. CASE UNCHANGED <<groups, listeners>>
  BY <1>1 DEF RowsTyped
<1>2. CASE WriteGroup(o)
  <2> DEFINE version == IF t.verb \in Creates THEN 1 ELSE t.sawG.version + 1
             row == [edit |-> o, refs |-> t.refs, version |-> version]
  <2>1. t.pc = "gwrite" /\ t.verb \in EditsGroup
    BY <1>0, <1>2 DEF WriteGroup, At, VerbFits
  <2>2. version \in Nat /\ t.g \in GroupIds
    BY <1>0, <2>1 DEF RowsFit, EditsGroup, Creates, Live, Steps, Ended, GroupRow, GroupIds
  <2>3. row \in GroupRow
    BY <1>0, <2>2 DEF TaskRecord, GroupRow, Edits
  <2>4. groups' = Put(groups, t.g, row) /\ listeners' = listeners
    BY <1>2 DEF WriteGroup
  <2> QED BY <2>2, <2>3, <2>4 DEF RowsTyped, Put
<1>3. CASE RestoreGroup(o)
  <2> DEFINE row == [t.oldG EXCEPT !.version = t.wrote + 1]
  <2>1. t.pc = "grestore" /\ t.verb = "updateService"
    BY <1>0, <1>3 DEF RestoreGroup, At, VerbFits
  <2>2. t.oldG \in GroupRow /\ t.wrote \in Nat
    BY <1>0, <2>1 DEF RowsFit, Live, Steps, Ended, TaskRecord
  <2>3. row \in GroupRow
    BY <2>2 DEF GroupRow
  <2>4. groups' = [groups EXCEPT ![t.g] = row] /\ listeners' = listeners
    BY <1>3 DEF RestoreGroup
  <2> QED BY <2>3, <2>4 DEF RowsTyped
<1>4. CASE DeleteGroup(o)
  BY <1>4 DEF DeleteGroup, Deletable, Drop, RowsTyped
<1>5. CASE WriteListener(o)
  <2> DEFINE version == IF t.verb \in Creates THEN 1 ELSE t.sawL.version + 1
             row == [edit |-> o, group |-> t.g, version |-> version]
  <2>1. t.pc = "lwrite" /\ t.verb \in EditsListener /\ t.g \in DOMAIN groups
    BY <1>0, <1>5 DEF WriteListener, At, VerbFits
  <2>2. version \in Nat /\ t.l \in ListenerIds
    BY <1>0, <2>1 DEF RowsFit, EditsListener, FindsListener, Creates, Live, Steps,
       Ended, ListenerRow, ListenerIds
  <2>3. row \in ListenerRow
    BY <2>1, <2>2 DEF RowsTyped, ListenerRow, Edits
  <2>4. listeners' = Put(listeners, t.l, row) /\ groups' = groups
    BY <1>5 DEF WriteListener
  <2> QED BY <2>1, <2>2, <2>3, <2>4 DEF RowsTyped, Put
<1>6. CASE RestoreListener(o)
  <2> DEFINE row == [t.oldL EXCEPT !.version = t.wroteL + 1]
  <2>1. t.pc = "lrestore" /\ t.verb \in {"updateListener", "updateService"}
    BY <1>0, <1>6 DEF RestoreListener, At, VerbFits
  <2>2. t.oldL \in ListenerRow /\ t.wroteL \in Nat
    BY <1>0, <2>1 DEF RowsFit, Live, Steps, Ended, TaskRecord, FindsListener
  <2>3. row \in ListenerRow /\ row.group = t.oldL.group
    BY <2>2 DEF ListenerRow
  <2>4. /\ listeners' = [listeners EXCEPT ![t.l] = row] /\ groups' = groups
        /\ t.oldL.group \in DOMAIN groups
    BY <1>6 DEF RestoreListener
  <2> QED BY <2>3, <2>4 DEF RowsTyped
<1>7. CASE DeleteListener(o)
  BY <1>7 DEF DeleteListener, Drop, RowsTyped
<1>8. CASE Rotate(o)
  <2>1. CASE t.l \in DOMAIN listeners
               /\ listeners' = [listeners EXCEPT ![t.l].version = @ + 1]
    <3> DEFINE row == [listeners[t.l] EXCEPT !.version = listeners[t.l].version + 1]
    <3>1. row \in ListenerRow /\ row.group = listeners[t.l].group
      BY <2>1 DEF RowsTyped, ListenerRow
    <3>2. listeners' = [listeners EXCEPT ![t.l] = row]
      BY <2>1
    <3>3. groups' = groups
      BY <1>8 DEF Rotate
    <3> QED BY <2>1, <3>1, <3>2, <3>3 DEF RowsTyped
  <2>2. CASE UNCHANGED listeners
    BY <1>8, <2>2 DEF Rotate, RowsTyped
  <2> QED BY <1>8, <2>1, <2>2 DEF Rotate
<1> QED BY <1>1, <1>2, <1>3, <1>4, <1>5, <1>6, <1>7, <1>8, RowsChange

LEMMA FlagsStayTyped ==
    ASSUME TasksTyped, FlagsTyped, NEW o \in Ops, Step(o)
    PROVE  FlagsTyped'
<1> USE DEF FlagsTyped, database, plane, ApplySucceeds, ApplyFails, Drifts, Edits
<1>0. task[o].old \in Edits
  BY DEF TasksTyped, TaskRecord
<1>1. CASE SubmitCreate(o) \/ SubmitUpdate(o) \/ SubmitOther(o)
  BY <1>1 DEF SubmitCreate, SubmitUpdate, SubmitOther, Submit
<1>2. CASE \/ ReadOriginal(o) \/ CheckGroup(o) \/ WriteGroup(o) \/ RefuseGroup(o)
           \/ ReadBackGroup(o) \/ LoseGroup(o) \/ ApplyGroup(o)
  BY <1>2 DEF ReadOriginal, CheckGroup, WriteGroup, RefuseGroup, ReadBackGroup,
              LoseGroup, ApplyGroup
<1>3. CASE \/ CheckListener(o) \/ WriteListener(o) \/ RefuseListener(o)
           \/ ReadBackListener(o) \/ LoseListener(o)
           \/ SettingsUnread(o) \/ ApplyListener(o)
           \/ RestoreListener(o) \/ KeepListener(o)
  BY <1>3 DEF CheckListener, WriteListener, RefuseListener, ReadBackListener,
              LoseListener, SettingsUnread, ApplyListener, RestoreListener, KeepListener
<1>4. CASE \/ CheckFormerGroup(o) \/ RestoreGroup(o) \/ KeepGroup(o)
           \/ ReapplyGroup(o) \/ Sync(o)
  BY <1>4 DEF CheckFormerGroup, RestoreGroup, KeepGroup, ReapplyGroup, Sync
<1>5. CASE \/ CheckReferences(o) \/ DeleteGroup(o) \/ KeepDeleted(o)
           \/ DeleteListener(o) \/ RefuseDelete(o) \/ ApplyDelete(o)
  BY <1>5 DEF CheckReferences, DeleteGroup, KeepDeleted, DeleteListener,
              RefuseDelete, ApplyDelete
<1>6. CASE Rotate(o) \/ ReadSettings(o) \/ SaveFails(o) \/ ApplySettings(o)
  BY <1>6 DEF Rotate, ReadSettings, SaveFails, ApplySettings
<1>7. CASE SaveSettings(o)
  BY <1>0, <1>7 DEF SaveSettings
<1> QED BY <1>1, <1>2, <1>3, <1>4, <1>5, <1>6, <1>7 DEF Step

-----------------------------------------------------------------------------
Typed == TasksTyped /\ RowsTyped /\ FlagsTyped

LEMMA TypedInitially == Init => Typed
<1> SUFFICES ASSUME Init PROVE Typed
  OBVIOUS
<1>1. TasksTyped
  <2>1. Idle \in TaskRecord /\ VerbFits(Idle)
    BY DEF Idle, TaskRecord, VerbFits, Live, Steps, Ended, Edits
  <2>2. ASSUME NEW o \in Ops PROVE RowsFit(o, Idle)
    BY DEF Idle, RowsFit, Live
  <2> QED BY <2>1, <2>2 DEF Init, TasksTyped
<1>2. RowsTyped
  <2>1. PICK owner \in Groups : listeners =
            [l \in Listeners |-> [edit |-> Initial, group |-> owner, version |-> 1]]
    BY DEF Init
  <2> QED BY <2>1 DEF Init, RowsTyped, GroupRow, ListenerRow, GroupIds, ListenerIds, Edits
<1>3. FlagsTyped
  BY DEF Init, FlagsTyped, Edits
<1> QED BY <1>1, <1>2, <1>3 DEF Typed

LEMMA TypedStep == Typed /\ [Next]_vars => Typed'
<1> SUFFICES ASSUME Typed, [Next]_vars PROVE Typed'
  OBVIOUS
<1> USE DEF Typed
<1>1. ASSUME NEW o \in Ops, Step(o) PROVE Typed'
  <2>1. TaskFits(o)
    BY <1>1, StepFits
  <2>2. \A p \in Ops : VerbFits(task'[p]) /\ RowsFit(p, task'[p])
    <3> TAKE p \in Ops
    <3>1. CASE p = o
      BY <2>1, <3>1 DEF TaskFits
    <3>2. CASE p # o
      BY <1>1, <3>2, OwnTask DEF TasksTyped
    <3> QED BY <3>1, <3>2
  <2>3. TasksTyped'
    BY <2>1, <2>2 DEF TasksTyped, TaskFits, VerbFits, RowsFit
  <2> QED BY <1>1, <2>3, RowsStayTyped, FlagsStayTyped
<1>2. CASE UNCHANGED vars
  BY <1>2 DEF vars, database, plane, TasksTyped, RowsTyped, FlagsTyped, VerbFits, RowsFit
<1> QED BY <1>1, <1>2 DEF Next

LEMMA AlwaysTyped == Spec => []Typed
  BY TypedInitially, TypedStep, PTL DEF Spec

\* Every row has its type and every listener its group, in whatever order
\* requests write, restore and delete them.
THEOREM ServicesTyped == Spec => []ServicesTypeOK
<1>1. Typed => ServicesTypeOK
  BY DEF Typed, TasksTyped, TaskRecord, RowsTyped, FlagsTyped, ServicesTypeOK
<1> QED BY <1>1, AlwaysTyped, PTL

-----------------------------------------------------------------------------
(* The data plane.                                                         *)

Applying == {"gread", "gapply", "lread", "lapply", "greapply", "dapply", "sapply",
             "sreapply"}

\* What is not served yet has a request that is about to apply it.
PendingApply ==
    applied /\ ~drifted /\ served # Content =>
        \E o \in Ops : task[o].pc \in Applying

\* A step publishes, is followed by an Apply, or is none of its business.
LEMMA PublishedOrPending ==
    ASSUME Typed, NEW o \in Ops, Step(o)
    PROVE  \/ task'[o].pc \in Applying
           \/ drifted'
           \/ ~applied'
           \/ served' = Content'
           \/ UNCHANGED plane /\ Content' = Content /\ task[o].pc \notin Applying
<1> DEFINE Idles == UNCHANGED <<database, plane>> /\ task[o].pc \notin Applying
<1> USE DEF Typed, TasksTyped
<1>0. UNCHANGED database => Content' = Content
  BY DEF database, Content
<1>1. CASE SubmitCreate(o) \/ SubmitUpdate(o) \/ SubmitOther(o)
  <2>1. Idles
    BY <1>1 DEF SubmitCreate, SubmitUpdate, SubmitOther, Submit, At, Applying
  <2> QED BY <1>0, <2>1
<1>2. CASE \/ ReadOriginal(o) \/ CheckGroup(o) \/ RefuseGroup(o)
           \/ CheckListener(o) \/ RefuseListener(o) \/ SettingsUnread(o)
           \/ KeepListener(o) \/ CheckFormerGroup(o) \/ KeepGroup(o) \/ Sync(o)
  <2>1. Idles
    BY <1>2 DEF ReadOriginal, CheckGroup, RefuseGroup, CheckListener, RefuseListener,
       SettingsUnread, KeepListener, CheckFormerGroup, KeepGroup, Sync, At, Applying
  <2> QED BY <1>0, <2>1
<1>3. CASE \/ CheckReferences(o) \/ KeepDeleted(o) \/ RefuseDelete(o)
           \/ ReadSettings(o) \/ SaveFails(o)
  <2>1. Idles
    BY <1>3 DEF CheckReferences, KeepDeleted, RefuseDelete, ReadSettings, SaveFails,
       At, Applying
  <2> QED BY <1>0, <2>1
<1>4. CASE \/ WriteGroup(o) \/ ReadBackGroup(o) \/ WriteListener(o)
           \/ ReadBackListener(o) \/ DeleteGroup(o)
           \/ DeleteListener(o) \/ SaveSettings(o)
  <2>1. task'[o].pc \in Applying
    BY <1>4 DEF WriteGroup, ReadBackGroup, WriteListener, ReadBackListener, DeleteGroup,
       DeleteListener, SaveSettings, Go, Applying, TaskRecord
  <2> QED BY <2>1
<1>5. CASE LoseGroup(o) \/ LoseListener(o) \/ RestoreListener(o)
  BY <1>5 DEF LoseGroup, LoseListener, RestoreListener, Drifts
<1>8. CASE RestoreGroup(o)
  <2>1. CASE Go(o, "greapply")
    BY <2>1 DEF Go, Applying, TaskRecord
  <2> QED BY <1>8, <2>1 DEF RestoreGroup, Drifts
<1>6. CASE \/ ApplyGroup(o) \/ ApplyListener(o) \/ ReapplyGroup(o) \/ ApplyDelete(o)
           \/ ApplySettings(o)
  <2>1. UNCHANGED database /\ (served' = Content \/ ~applied')
    BY <1>6 DEF ApplyGroup, ApplyListener, ReapplyGroup, ApplyDelete, ApplySettings,
       ApplySucceeds, ApplyFails
  <2> QED BY <1>0, <2>1
<1>7. CASE Rotate(o)
  <2>1. DOMAIN listeners' = DOMAIN listeners
        /\ \A l \in DOMAIN listeners : listeners'[l].edit = listeners[l].edit
    <3>1. CASE task[o].l \in DOMAIN listeners
               /\ listeners' = [listeners EXCEPT ![task[o].l].version = @ + 1]
      BY <3>1 DEF RowsTyped, ListenerRow
    <3>2. CASE UNCHANGED listeners
      BY <3>2
    <3> QED BY <1>7, <3>1, <3>2 DEF Rotate
  <2>2. Content' = Content
    BY <1>7, <2>1 DEF Rotate, Content
  <2> QED BY <1>7, <2>2 DEF Rotate, At, Applying
<1> QED BY <1>1, <1>2, <1>3, <1>4, <1>5, <1>6, <1>7, <1>8 DEF Step

LEMMA PendingStep ==
    Typed /\ PendingApply /\ [Next]_vars => PendingApply'
<1> SUFFICES ASSUME Typed, PendingApply, [Next]_vars PROVE PendingApply'
  OBVIOUS
<1>1. ASSUME NEW o \in Ops, Step(o) PROVE PendingApply'
  <2>1. CASE \/ task'[o].pc \in Applying
             \/ drifted'
             \/ ~applied'
             \/ served' = Content'
    BY <2>1 DEF PendingApply
  <2>2. CASE UNCHANGED plane /\ Content' = Content /\ task[o].pc \notin Applying
    <3>1. \A p \in Ops : task[p].pc \in Applying => task'[p].pc \in Applying
      BY <1>1, <2>2, OwnTask DEF Typed
    <3> QED BY <2>2, <3>1 DEF PendingApply, plane
  <2> QED BY <1>1, <2>1, <2>2, PublishedOrPending
<1>2. CASE UNCHANGED vars
  BY <1>2 DEF vars, database, plane, PendingApply, Content
<1> QED BY <1>1, <1>2 DEF Next

\* Once all requests are answered and the last Apply succeeded, the data plane
\* has what the database holds: an edit of the database is followed by an
\* Apply of the request that made it, unless that request could not read it
\* back or has restored a listener (drifted), and every Apply compiles them all.
THEOREM EditsAreServed == Spec => []ServedIsCurrent
<1>1. Init => PendingApply
  BY DEF Init, PendingApply
<1>2. PendingApply => ServedIsCurrent
  BY DEF PendingApply, ServedIsCurrent, Busy, Applying, Ended
<1> QED BY <1>1, <1>2, PendingStep, AlwaysTyped, PTL DEF Spec

-----------------------------------------------------------------------------
(* Versions.  What a request knows of a row stands for one version of it:   *)
(* whenever the row still has that version, it has the edit known.          *)

SeesGroup == {"updateGroup", "updateService", "deleteGroup"}
MakesListener == {"createListener", "createService"}

GroupSeen(t) == t.pc \in Live /\ t.verb \in SeesGroup
ListenerSeen(t) == t.pc \in Live /\ t.verb \in FindsListener
GroupWritten(t) ==
    t.pc \in Live \ {"oread", "gcheck", "gwrite"} /\ t.verb \in EditsGroup
ListenerWritten(t) == t.pc \in {"lread", "lapply", "lrestore"}
GroupAwaited(t) ==
    \/ t.pc = "idle"
    \/ t.pc \in {"gcheck", "gwrite"} /\ t.verb \in Creates
ListenerAwaited(t) ==
    \/ t.pc = "idle"
    \/ /\ t.pc \in {"gcheck", "gwrite", "gapply", "lcheck", "lwrite"}
       /\ t.verb \in MakesListener

StandsFor(rows, id, version, edit) ==
    id \in DOMAIN rows =>
        /\ rows[id].version >= version
        /\ rows[id].version = version => rows[id].edit = edit

GroupVersions(o) ==
    LET t == task[o]
    IN  /\ GroupSeen(t) =>
               t.g # o /\ StandsFor(groups, t.g, t.sawG.version, t.sawG.edit)
        /\ GroupWritten(t) => StandsFor(groups, t.g, t.wrote, t.backG)
        /\ GroupAwaited(t) =>
               /\ o \notin DOMAIN groups
               /\ \A p \in Ops : GroupSeen(task[p]) => task[p].g # o

ListenerVersions(o) ==
    LET t == task[o]
    IN  /\ ListenerSeen(t) =>
               t.l # o /\ StandsFor(listeners, t.l, t.sawL.version, t.sawL.edit)
        /\ ListenerWritten(t) => StandsFor(listeners, t.l, t.wroteL, t.backL)
        /\ ListenerAwaited(t) =>
               /\ o \notin DOMAIN listeners
               /\ \A p \in Ops : ListenerSeen(task[p]) => task[p].l # o

Versions == \A o \in Ops : GroupVersions(o) /\ ListenerVersions(o)

Submits(o) == SubmitCreate(o) \/ SubmitUpdate(o) \/ SubmitOther(o)

(* What a request keeps when it goes on from t to u.                       *)
Keeps(o, t, u) ==
    /\ t.pc \in Live
    /\ u.verb = t.verb /\ u.g = t.g /\ u.l = t.l
    /\ u.sawG = t.sawG /\ u.sawL = t.sawL
    /\ \/ WriteGroup(o) \/ ReadBackGroup(o)
       \/ u.wrote = t.wrote /\ u.backG = t.backG
    /\ \/ WriteListener(o) \/ ReadBackListener(o)
       \/ u.wroteL = t.wroteL /\ u.backL = t.backL
    /\ ReadBackGroup(o) \/ ReadBackListener(o) \/ u.crossed = t.crossed

(* The order of its steps, as far as rows are concerned.                   *)
Order(o, t, u) ==
    /\ t.pc \in {"oread", "gcheck", "gwrite"} =>
           WriteGroup(o) \/ u.pc \in {"gcheck", "gwrite"}
    /\ u.pc \in {"gcheck", "gwrite"} => t.pc \in {"oread", "gcheck"}
    /\ u.pc \in {"lread", "lapply", "lrestore"} =>
           WriteListener(o) \/ t.pc \in {"lread", "lapply"}
    /\ u.pc \in {"gcheck", "gwrite", "gapply", "lcheck", "lwrite"} =>
           t.pc \in {"oread", "gcheck", "gwrite", "gread", "gapply", "lcheck"}
    /\ t.pc = "gread" => t.verb \in {"updateGroup", "updateService"}
    /\ u.pc # "idle"

\* A request that goes on keeps what it knows.
LEMMA GoesOn ==
    ASSUME TasksTyped, NEW o \in Ops, Step(o), ~Submits(o)
    PROVE  \/ task'[o].pc \in Ended
           \/ Keeps(o, task[o], task'[o]) /\ Order(o, task[o], task'[o])
<1> DEFINE t == task[o]
           u == task'[o]
           OK == u.pc \in Ended \/ (Keeps(o, t, u) /\ Order(o, t, u))
<1>0. t \in TaskRecord /\ VerbFits(t)
  BY DEF TasksTyped
<1>a. ASSUME NEW how, how \in Ended, End(o, how) PROVE OK
  <2>1. u.pc = how
    BY <1>a DEF End, Idle, TasksTyped
  <2> QED BY <1>a, <2>1
<1>b. ASSUME NEW pc, Go(o, pc) PROVE u = [t EXCEPT !.pc = pc]
  BY <1>b DEF Go, TasksTyped
<1>c. ASSUME NEW pc \in Live, Go(o, pc), t.pc \in Live,
             t.pc \notin {"oread", "gwrite"},
             t.pc = "gcheck" => pc = "gwrite",
             pc \in {"gcheck", "gwrite"} => t.pc = "gcheck",
             pc \in {"lread", "lapply", "lrestore"} => t.pc = "lapply",
             pc \in {"gapply", "lcheck", "lwrite"} => t.pc \in {"gapply", "lcheck"}
      PROVE  OK
  <2>1. u = [t EXCEPT !.pc = pc]
    BY <1>b, <1>c
  <2>2. Keeps(o, t, u) /\ u.pc = pc
    BY <1>0, <1>c, <2>1 DEF Keeps, TaskRecord
  <2>3. t.pc = "gread" => t.verb \in {"updateGroup", "updateService"}
    BY <1>0 DEF Live, VerbFits
  <2>4. pc # "idle"
    BY DEF Live
  <2> QED BY <1>c, <2>2, <2>3, <2>4 DEF Order
<1> SUFFICES OK
  OBVIOUS
<1> HIDE DEF OK
<1>1. CASE ReadOriginal(o)
  <2>1. CASE t.g \in DOMAIN groups
    <3>1. u = [t EXCEPT !.pc = "gcheck", !.oldG = groups[t.g]]
      BY <1>1, <2>1 DEF ReadOriginal, TasksTyped, TaskRecord
    <3>2. Keeps(o, t, u) /\ u.pc = "gcheck" /\ t.pc = "oread"
      BY <1>0, <1>1, <3>1 DEF ReadOriginal, At, Keeps, TaskRecord, Live, Steps, Ended
    <3> QED BY <3>2 DEF OK, Order
  <2>2. CASE t.g \notin DOMAIN groups
    BY <1>1, <2>2, <1>a DEF ReadOriginal, Ended
  <2> QED BY <2>1, <2>2
<1>2. CASE CheckGroup(o)
  BY <1>2, <1>c DEF CheckGroup, At, Live, Steps, Ended
<1>3. CASE WriteGroup(o)
  <2>1. PICK version, next :
            /\ next \in {"gapply", "gread"}
            /\ u = [t EXCEPT !.pc = next, !.wrote = version, !.backG = o]
    <3> DEFINE made == IF t.verb \in Creates THEN 1 ELSE t.sawG.version + 1
               then == IF t.verb \in Creates THEN "gapply" ELSE "gread"
    <3>1. u = [t EXCEPT !.pc = then, !.wrote = made, !.backG = o]
      BY <1>3 DEF WriteGroup, TasksTyped, TaskRecord
    <3>2. then \in {"gapply", "gread"}
      OBVIOUS
    <3> HIDE DEF made, then
    <3> QED BY <3>1, <3>2
  <2>2. t.pc = "gwrite"
    BY <1>3 DEF WriteGroup, At
  <2>3. Keeps(o, t, u) /\ u.pc \in {"gapply", "gread"}
    BY <1>0, <1>3, <2>1, <2>2 DEF Keeps, TaskRecord, Live, Steps, Ended
  <2> QED BY <1>3, <2>2, <2>3 DEF OK, Order
<1>18. CASE ReadBackGroup(o)
  <2>1. PICK version, edit, crossed :
            u = [t EXCEPT !.pc = "gapply", !.wrote = version, !.backG = edit,
                          !.crossed = crossed]
    BY <1>18 DEF ReadBackGroup, TasksTyped, TaskRecord
  <2>2. t.pc = "gread" /\ t.verb \in {"updateGroup", "updateService"}
    BY <1>0, <1>18 DEF ReadBackGroup, At, VerbFits
  <2>3. Keeps(o, t, u) /\ u.pc = "gapply"
    BY <1>0, <1>18, <2>1, <2>2 DEF Keeps, TaskRecord, Live, Steps, Ended
  <2> QED BY <2>2, <2>3 DEF OK, Order
<1>4. CASE \/ RefuseGroup(o) \/ LoseGroup(o) \/ SettingsUnread(o) \/ KeepGroup(o)
           \/ RefuseDelete(o)
  BY <1>4, <1>a DEF RefuseGroup, LoseGroup, SettingsUnread, KeepGroup, RefuseDelete, Ended
<1>5. CASE ApplyGroup(o)
  BY <1>5, <1>a, <1>c DEF ApplyGroup, At, Live, Steps, Ended
<1>d. ASSUME t.pc \in {"lcheck", "lwrite", "lrestore"}, Unwritten(o) PROVE OK
  BY <1>d, <1>a, <1>c DEF Unwritten, Live, Steps, Ended
<1>6. CASE CheckListener(o)
  <2>1. PICK found : u = [t EXCEPT !.pc = "lwrite", !.oldL = found]
    BY <1>6 DEF CheckListener, TasksTyped, TaskRecord
  <2>2. t.pc = "lcheck"
    BY <1>6 DEF CheckListener, At
  <2>3. Keeps(o, t, u) /\ u.pc = "lwrite"
    BY <1>0, <1>6, <2>1, <2>2 DEF Keeps, TaskRecord, Live, Steps, Ended
  <2> QED BY <1>6, <2>2, <2>3 DEF OK, Order
<1>7. CASE WriteListener(o)
  <2>1. PICK version, next :
            /\ next \in {"lapply", "lread"}
            /\ u = [t EXCEPT !.pc = next, !.wroteL = version, !.backL = o]
    <3> DEFINE made == IF t.verb \in Creates THEN 1 ELSE t.sawL.version + 1
               then == IF t.verb \in Creates THEN "lapply" ELSE "lread"
    <3>1. u = [t EXCEPT !.pc = then, !.wroteL = made, !.backL = o]
      BY <1>7 DEF WriteListener, TasksTyped, TaskRecord
    <3>2. then \in {"lapply", "lread"}
      OBVIOUS
    <3> HIDE DEF made, then
    <3> QED BY <3>1, <3>2
  <2>2. t.pc = "lwrite"
    BY <1>7 DEF WriteListener, At
  <2>3. Keeps(o, t, u) /\ u.pc \in {"lapply", "lread"}
    BY <1>0, <1>7, <2>1, <2>2 DEF Keeps, TaskRecord, Live, Steps, Ended
  <2> QED BY <1>7, <2>2, <2>3 DEF OK, Order
<1>19. CASE ReadBackListener(o)
  <2>1. PICK version, edit, crossed :
            u = [t EXCEPT !.pc = "lapply", !.wroteL = version, !.backL = edit,
                          !.crossed = crossed]
    BY <1>19 DEF ReadBackListener, TasksTyped, TaskRecord
  <2>2. t.pc = "lread"
    BY <1>19 DEF ReadBackListener, At
  <2>3. Keeps(o, t, u) /\ u.pc = "lapply"
    BY <1>0, <1>19, <2>1, <2>2 DEF Keeps, TaskRecord, Live, Steps, Ended
  <2> QED BY <2>2, <2>3 DEF OK, Order
<1>e. ASSUME t.pc \in {"lread", "lrestore"}, Unrestored(o) PROVE OK
  <2>1. CASE t.verb = "updateService"
    <3>1. u = [t EXCEPT !.pc = "gback", !.kept = TRUE]
      BY <1>e, <2>1 DEF Unrestored, TasksTyped, TaskRecord
    <3>2. Keeps(o, t, u) /\ u.pc = "gback"
      BY <1>0, <1>e, <3>1 DEF Keeps, TaskRecord, Live, Steps, Ended
    <3> QED BY <1>e, <3>2 DEF OK, Order
  <2>2. CASE t.verb # "updateService"
    BY <1>e, <2>2, <1>a DEF Unrestored, Ended
  <2> QED BY <2>1, <2>2
<1>20. CASE LoseListener(o)
  BY <1>20, <1>e DEF LoseListener, At
<1>8. CASE RefuseListener(o) \/ RestoreListener(o)
  BY <1>8, <1>d, <1>e DEF RefuseListener, RestoreListener, At
<1>9. CASE ApplyListener(o)
  BY <1>9, <1>a, <1>c DEF ApplyListener, At, Live, Steps, Ended
<1>10. CASE KeepListener(o)
  BY <1>10, <1>e DEF KeepListener, At
<1>11. CASE CheckFormerGroup(o) \/ RestoreGroup(o)
  BY <1>11, <1>a, <1>c DEF CheckFormerGroup, RestoreGroup, At, Live, Steps, Ended
<1>12. CASE ReapplyGroup(o) \/ ApplyDelete(o) \/ Rotate(o) \/ SaveFails(o)
  BY <1>12, <1>a DEF ReapplyGroup, ApplyDelete, Rotate, SaveFails, Ended
<1>13. CASE Sync(o)
  BY <1>13, <1>a, <1>c DEF Sync, At, Live, Steps, Ended
<1>14. CASE CheckReferences(o) \/ KeepDeleted(o)
  BY <1>14, <1>a, <1>c DEF CheckReferences, KeepDeleted, Undeleted, At, Live, Steps, Ended
<1>15. CASE DeleteGroup(o) \/ DeleteListener(o)
  BY <1>15, <1>c DEF DeleteGroup, DeleteListener, At, Live, Steps, Ended
<1>16. CASE ReadSettings(o)
  <2>1. u = [t EXCEPT !.pc = "ssave", !.old = settings]
    BY <1>16 DEF ReadSettings, TasksTyped, TaskRecord
  <2>2. t.pc = "sread"
    BY <1>16 DEF ReadSettings, At
  <2>3. Keeps(o, t, u) /\ u.pc = "ssave"
    BY <1>0, <1>16, <2>1, <2>2 DEF Keeps, TaskRecord, Live, Steps, Ended
  <2> QED BY <1>16, <2>2, <2>3 DEF OK, Order
<1>17. CASE SaveSettings(o) \/ ApplySettings(o)
  BY <1>17, <1>a, <1>c DEF SaveSettings, ApplySettings, At, Live, Steps, Ended
<1> QED
  BY <1>1, <1>2, <1>3, <1>4, <1>5, <1>6, <1>7, <1>8, <1>9, <1>10, <1>11, <1>12,
     <1>13, <1>14, <1>15, <1>16, <1>17, <1>18, <1>19, <1>20 DEF Step, Submits, OK

(* What a submitted request has seen.                                      *)
Saw(u) ==
    /\ u.pc \in {"gcheck", "lcheck", "oread", "dcheck", "ldelete", "rotate", "sread"}
    /\ u.verb \in EditsGroup => u.pc \in {"oread", "gcheck"}
    /\ u.verb \in SeesGroup => u.g \in DOMAIN groups /\ u.sawG = groups[u.g]
    /\ u.verb \in FindsListener => u.l \in DOMAIN listeners /\ u.sawL = listeners[u.l]

LEMMA SubmittedSaw ==
    ASSUME Typed, NEW o \in Ops, Submits(o)
    PROVE  task[o].pc = "idle" /\ UNCHANGED <<groups, listeners>> /\ Saw(task'[o])
<1> DEFINE u == task'[o]
<1>0. task[o].pc = "idle" /\ UNCHANGED <<groups, listeners>>
  BY DEF Submits, SubmitCreate, SubmitUpdate, SubmitOther, Submit, At, database
<1>a. ASSUME NEW verb \in AllVerbs, NEW first \in Live,
             NEW g \in GroupIds \cup {None}, NEW l \in ListenerIds \cup {None},
             Submit(o, verb, first, g, l)
      PROVE  /\ u.pc = first /\ u.verb = verb /\ u.g = g /\ u.l = l
             /\ g \in DOMAIN groups => u.sawG = groups[g]
             /\ l \in DOMAIN listeners => u.sawL = listeners[l]
  BY <1>a, SubmitShape DEF Typed
<1>b. /\ \A g \in DOMAIN groups : g \in GroupIds
      /\ \A l \in DOMAIN listeners : l \in ListenerIds
      /\ o \in GroupIds /\ o \in ListenerIds
      /\ AllVerbs = {"createGroup", "createListener", "createService",
                     "updateGroup", "updateListener", "updateService",
                     "deleteGroup", "deleteListener", "rotate", "settings"}
      /\ {"gcheck", "lcheck", "oread", "dcheck", "ldelete", "rotate", "sread"} \subseteq Live
  BY DEF Typed, RowsTyped, GroupIds, ListenerIds, AllVerbs, Live, Steps, Ended
<1> USE <1>b DEF Saw, EditsGroup, SeesGroup, FindsListener
<1>1. CASE SubmitCreate(o)
  <2>1. CASE Submit(o, "createGroup", "gcheck", o, None)
    <3>1. /\ "createGroup" \in AllVerbs /\ "gcheck" \in Live
          /\ o \in GroupIds \cup {None} /\ None \in ListenerIds \cup {None}
      OBVIOUS
    <3>2. /\ u.pc = "gcheck" /\ u.verb = "createGroup"
          /\ u.l = None
          /\ None \in DOMAIN listeners => u.sawL = listeners[None]
      <4> HIDE <1>b
      <4> QED BY <2>1, <3>1, <1>a
    <3> QED BY <1>0, <3>2
  <2>2. CASE Submit(o, "createService", "gcheck", o, o)
    <3>1. /\ "createService" \in AllVerbs /\ "gcheck" \in Live
          /\ o \in GroupIds \cup {None} /\ o \in ListenerIds \cup {None}
      OBVIOUS
    <3>2. /\ u.pc = "gcheck" /\ u.verb = "createService"
          /\ u.l = o
          /\ o \in DOMAIN listeners => u.sawL = listeners[o]
      <4> HIDE <1>b
      <4> QED BY <2>2, <3>1, <1>a
    <3> QED BY <1>0, <3>2
  <2>3. ASSUME NEW g \in DOMAIN groups, Submit(o, "createListener", "lcheck", g, o)
        PROVE  Saw(u)
    BY <2>3, <1>a
  <2>4. Saw(u)
    BY <1>1, <2>1, <2>2, <2>3 DEF SubmitCreate
  <2> QED BY <1>0, <2>4
<1>2. CASE SubmitUpdate(o)
  <2>1. ASSUME NEW g \in DOMAIN groups, Submit(o, "updateGroup", "gcheck", g, None)
        PROVE  Saw(u)
    BY <2>1, <1>a
  <2>2. ASSUME NEW l \in DOMAIN listeners, NEW g \in DOMAIN groups,
               Submit(o, "updateListener", "lcheck", g, l)
        PROVE  Saw(u)
    BY <2>2, <1>a
  <2>3. ASSUME NEW l \in DOMAIN listeners, NEW g \in DOMAIN groups,
               Submit(o, "updateService", "oread", g, l)
        PROVE  Saw(u)
    BY <2>3, <1>a
  <2>4. Saw(u)
    BY <1>2, <2>1, <2>2, <2>3 DEF SubmitUpdate
  <2> QED BY <1>0, <2>4
<1>3. CASE SubmitOther(o)
  <2>1. ASSUME NEW g \in DOMAIN groups, Submit(o, "deleteGroup", "dcheck", g, None)
        PROVE  Saw(u)
    BY <2>1, <1>a
  <2>2. ASSUME NEW l \in DOMAIN listeners, Submit(o, "deleteListener", "ldelete", None, l)
        PROVE  Saw(u)
    <3>1. /\ "deleteListener" \in AllVerbs /\ "ldelete" \in Live
          /\ None \in GroupIds \cup {None} /\ l \in ListenerIds \cup {None}
      BY <2>2
    <3>2. /\ u.pc = "ldelete" /\ u.verb = "deleteListener"
          /\ u.l = l
          /\ l \in DOMAIN listeners => u.sawL = listeners[l]
      <4> HIDE <1>b
      <4> QED BY <2>2, <3>1, <1>a
    <3> QED BY <2>2, <3>2
  <2>3. ASSUME NEW l \in DOMAIN listeners, Submit(o, "rotate", "rotate", None, l)
        PROVE  Saw(u)
    <3>1. /\ "rotate" \in AllVerbs /\ "rotate" \in Live
          /\ None \in GroupIds \cup {None} /\ l \in ListenerIds \cup {None}
      BY <2>3
    <3>2. /\ u.pc = "rotate" /\ u.verb = "rotate"
          /\ u.l = l
          /\ l \in DOMAIN listeners => u.sawL = listeners[l]
      <4> HIDE <1>b
      <4> QED BY <2>3, <3>1, <1>a
    <3> QED BY <2>3, <3>2
  <2>4. CASE Submit(o, "settings", "sread", None, None)
    <3>1. Saw(u)
      BY <2>4, <1>a
    <3> QED BY <1>0, <3>1
  <2>5. Saw(u)
    BY <1>3, <2>1, <2>2, <2>3, <2>4 DEF SubmitOther
  <2> QED BY <1>0, <2>5
<1> QED BY <1>1, <1>2, <1>3 DEF Submits

(* A step of o replaces rows by newer ones and inserts at most its own.    *)
Grows(o, old, new, inserts) ==
    \A i \in DOMAIN new :
        IF i \in DOMAIN old
        THEN new[i] = old[i] \/ new[i].version > old[i].version
        ELSE i = o /\ inserts

LEMMA StandsForStays ==
    ASSUME NEW rows, NEW new, NEW o, NEW inserts \in BOOLEAN,
           Grows(o, rows, new, inserts),
           \A i \in DOMAIN rows : rows[i].version \in Nat,
           \A i \in DOMAIN new : new[i].version \in Nat,
           NEW id, NEW version \in Nat, NEW edit,
           id # o \/ ~inserts,
           StandsFor(rows, id, version, edit)
    PROVE  StandsFor(new, id, version, edit)
  BY DEF Grows, StandsFor

LEMMA GroupsGrow ==
    ASSUME Typed, NEW o \in Ops, GroupVersions(o), Step(o)
    PROVE  Grows(o, groups, groups', WriteGroup(o) /\ task[o].verb \in Creates)
<1> DEFINE t == task[o]
<1> USE DEF Typed
<1>0. t \in TaskRecord /\ VerbFits(t) /\ RowsFit(o, t)
  BY DEF TasksTyped
<1>1. CASE UNCHANGED groups
  BY <1>1 DEF Grows
<1>2. CASE WriteGroup(o)
  <2> DEFINE version == IF t.verb \in Creates THEN 1 ELSE t.sawG.version + 1
             row == [edit |-> o, refs |-> t.refs, version |-> version]
  <2>1. t.pc = "gwrite" /\ t.verb \in EditsGroup
    BY <1>0, <1>2 DEF WriteGroup, At, VerbFits
  <2>2. groups' = Put(groups, t.g, row)
    BY <1>2 DEF WriteGroup
  <2>3. CASE t.verb \in Creates
    <3>1. t.g = o /\ o \notin DOMAIN groups
      BY <1>0, <2>1, <2>3 DEF GroupVersions, GroupAwaited, RowsFit, EditsGroup,
         Creates, Live, Steps, Ended
    <3> QED BY <1>2, <2>2, <2>3, <3>1 DEF Put, Grows
  <2>4. CASE t.verb \notin Creates
    <3>1. t.sawG \in GroupRow
      BY <1>0, <2>1, <2>4 DEF RowsFit, EditsGroup, Creates, Live, Steps, Ended
    <3>2. t.g \in DOMAIN groups /\ groups[t.g].version = t.sawG.version
      BY <1>2, <2>4 DEF WriteGroup, Matches
    <3>3. t.sawG.version \in Nat /\ row.version = t.sawG.version + 1
      BY <2>4, <3>1 DEF GroupRow
    <3> HIDE DEF row
    <3>4. row.version > groups[t.g].version
      BY <3>2, <3>3
    <3> QED BY <2>2, <3>2, <3>4 DEF Put, Grows
  <2> QED BY <2>3, <2>4
<1>3. CASE RestoreGroup(o)
  <2> DEFINE row == [t.oldG EXCEPT !.version = t.wrote + 1]
  <2>1. t.pc = "grestore" /\ t.verb = "updateService"
    BY <1>0, <1>3 DEF RestoreGroup, At, VerbFits
  <2>2. t.oldG \in GroupRow /\ t.wrote \in Nat
    BY <1>0, <2>1 DEF RowsFit, Live, Steps, Ended, TaskRecord
  <2>3. row.version = t.wrote + 1
    BY <2>2 DEF GroupRow
  <2>4. /\ groups' = [groups EXCEPT ![t.g] = row]
        /\ t.g \in DOMAIN groups /\ groups[t.g].version = t.wrote
    BY <1>3 DEF RestoreGroup, Matches
  <2> HIDE DEF row
  <2>5. row.version > groups[t.g].version
    BY <2>2, <2>3, <2>4
  <2> QED BY <2>4, <2>5 DEF Grows
<1>4. CASE DeleteGroup(o)
  BY <1>4 DEF DeleteGroup, Drop, Grows
<1> QED
  BY <1>1, <1>2, <1>3, <1>4, RowsChange
  DEF WriteListener, RestoreListener, DeleteListener, Rotate

LEMMA ListenersGrow ==
    ASSUME Typed, NEW o \in Ops, ListenerVersions(o), Step(o)
    PROVE  Grows(o, listeners, listeners', WriteListener(o) /\ task[o].verb \in Creates)
<1> DEFINE t == task[o]
<1> USE DEF Typed
<1>0. t \in TaskRecord /\ VerbFits(t) /\ RowsFit(o, t)
  BY DEF TasksTyped
<1>1. CASE UNCHANGED listeners
  BY <1>1 DEF Grows
<1>2. CASE WriteListener(o)
  <2> DEFINE version == IF t.verb \in Creates THEN 1 ELSE t.sawL.version + 1
             row == [edit |-> o, group |-> t.g, version |-> version]
  <2>1. t.pc = "lwrite" /\ t.verb \in EditsListener
    BY <1>0, <1>2 DEF WriteListener, At, VerbFits
  <2>2. listeners' = Put(listeners, t.l, row)
    BY <1>2 DEF WriteListener
  <2>3. CASE t.verb \in Creates
    <3>1. t.l = o /\ o \notin DOMAIN listeners
      BY <1>0, <2>1, <2>3 DEF ListenerVersions, ListenerAwaited, RowsFit, EditsListener,
         MakesListener, Creates, Live, Steps, Ended
    <3> QED BY <1>2, <2>2, <2>3, <3>1 DEF Put, Grows
  <2>4. CASE t.verb \notin Creates
    <3>1. t.sawL \in ListenerRow
      BY <1>0, <2>1, <2>4 DEF RowsFit, EditsListener, FindsListener, Creates, Live,
         Steps, Ended
    <3>2. t.l \in DOMAIN listeners /\ listeners[t.l].version = t.sawL.version
      BY <1>2, <2>4 DEF WriteListener, Matches
    <3>3. t.sawL.version \in Nat /\ row.version = t.sawL.version + 1
      BY <2>4, <3>1 DEF ListenerRow
    <3> HIDE DEF row
    <3>4. row.version > listeners[t.l].version
      BY <3>2, <3>3
    <3> QED BY <2>2, <3>2, <3>4 DEF Put, Grows
  <2> QED BY <2>3, <2>4
<1>3. CASE RestoreListener(o)
  <2> DEFINE row == [t.oldL EXCEPT !.version = t.wroteL + 1]
  <2>1. t.pc = "lrestore" /\ t.verb \in {"updateListener", "updateService"}
    BY <1>0, <1>3 DEF RestoreListener, At, VerbFits
  <2>2. t.oldL \in ListenerRow /\ t.wroteL \in Nat
    BY <1>0, <2>1 DEF RowsFit, Live, Steps, Ended, TaskRecord, FindsListener
  <2>3. row.version = t.wroteL + 1
    BY <2>2 DEF ListenerRow
  <2>4. /\ listeners' = [listeners EXCEPT ![t.l] = row]
        /\ t.l \in DOMAIN listeners /\ listeners[t.l].version = t.wroteL
    BY <1>3 DEF RestoreListener, Matches
  <2> HIDE DEF row
  <2>5. row.version > listeners[t.l].version
    BY <2>2, <2>3, <2>4
  <2> QED BY <2>4, <2>5 DEF Grows
<1>4. CASE DeleteListener(o)
  BY <1>4 DEF DeleteListener, Drop, Grows
<1>5. CASE Rotate(o)
  <2>1. CASE t.l \in DOMAIN listeners
               /\ listeners' = [listeners EXCEPT ![t.l].version = @ + 1]
    <3>1. listeners[t.l] \in ListenerRow
      BY <2>1 DEF RowsTyped
    <3> DEFINE row == [listeners[t.l] EXCEPT !.version = listeners[t.l].version + 1]
    <3>2. row.version > listeners[t.l].version
      BY <3>1 DEF ListenerRow
    <3>3. listeners' = [listeners EXCEPT ![t.l] = row]
      BY <2>1
    <3> HIDE DEF row
    <3> QED BY <2>1, <3>2, <3>3 DEF Grows
  <2> QED BY <1>1, <1>5, <2>1 DEF Rotate
<1> QED
  BY <1>1, <1>2, <1>3, <1>4, <1>5, RowsChange
  DEF WriteGroup, RestoreGroup, DeleteGroup

\* What a request knows of a group stays right, whoever takes the step.
LEMMA GroupVersionsStep ==
    ASSUME Typed, Typed', Versions, NEW o \in Ops, Step(o), NEW p \in Ops
    PROVE  GroupVersions(p)'
<1> DEFINE t == task[o]
           u == task'[o]
           inserts == WriteGroup(o) /\ t.verb \in Creates
<1>0. /\ t \in TaskRecord /\ VerbFits(t) /\ RowsFit(o, t)
      /\ u \in TaskRecord /\ VerbFits(u) /\ RowsFit(o, u)
  BY DEF Typed, TasksTyped, VerbFits, RowsFit
<1>1. Grows(o, groups, groups', inserts)
  BY GroupsGrow DEF Versions
<1>2. /\ \A g \in DOMAIN groups : groups[g].version \in Nat
      /\ \A g \in DOMAIN groups' : groups'[g].version \in Nat
  BY DEF Typed, RowsTyped, GroupRow
<1>3. inserts => GroupAwaited(t)
  BY DEF WriteGroup, At, GroupAwaited
<1>4. ASSUME NEW id, NEW version \in Nat, NEW edit, id # o \/ ~inserts,
             StandsFor(groups, id, version, edit)
      PROVE  StandsFor(groups', id, version, edit)
  <2> DEFINE b == IF inserts THEN TRUE ELSE FALSE
  <2>1. b \in BOOLEAN /\ (b <=> inserts)
    OBVIOUS
  <2>2. Grows(o, groups, groups', b)
    BY <1>1, <2>1 DEF Grows
  <2>3. id # o \/ ~b
    BY <1>4, <2>1
  <2> HIDE DEF b, inserts
  <2> QED BY <1>2, <1>4, <2>1, <2>2, <2>3, StandsForStays
<1>5. \/ Submits(o) /\ t.pc = "idle" /\ UNCHANGED <<groups, listeners>> /\ Saw(u)
      \/ u.pc \in Ended
      \/ Keeps(o, t, u) /\ Order(o, t, u)
  BY SubmittedSaw, GoesOn DEF Typed
<1>6. GroupSeen(u) =>
          \/ u.g \in DOMAIN groups /\ UNCHANGED groups /\ u.sawG = groups[u.g]
             /\ GroupAwaited(t)
          \/ GroupSeen(t) /\ u.g = t.g /\ u.sawG = t.sawG
  BY <1>5 DEF GroupSeen, GroupAwaited, Saw, Keeps, Live
<1>7. \A q \in Ops : /\ GroupSeen(task[q]) => task[q].g # q /\ task[q].sawG.version \in Nat
                     /\ GroupWritten(task[q]) => task[q].g = q \/ GroupSeen(task[q])
                     /\ task[q].wrote \in Nat
  <2> TAKE q \in Ops
  <2>1. task[q] \in TaskRecord /\ RowsFit(q, task[q])
    BY DEF Typed, TasksTyped
  <2>2. GroupSeen(task[q]) => task[q].sawG \in GroupRow
    BY <2>1 DEF GroupSeen, SeesGroup, RowsFit
  <2>3. GroupWritten(task[q]) => task[q].g = q \/ GroupSeen(task[q])
    BY <2>1 DEF GroupWritten, GroupSeen, EditsGroup, SeesGroup, RowsFit
  <2>4. GroupSeen(task[q]) => task[q].g # q
    BY DEF Versions, GroupVersions
  <2> QED BY <2>1, <2>2, <2>3, <2>4 DEF GroupRow, TaskRecord
<1>8. /\ GroupAwaited(t) => /\ o \notin DOMAIN groups
                            /\ \A q \in Ops : GroupSeen(task[q]) => task[q].g # o
      /\ GroupSeen(t) => StandsFor(groups, t.g, t.sawG.version, t.sawG.edit)
      /\ GroupWritten(t) => StandsFor(groups, t.g, t.wrote, t.backG)
  BY DEF Versions, GroupVersions
<1>9. \A q \in Ops \ {o} : task'[q] = task[q]
  BY OwnTask DEF Typed
<1> HIDE DEF inserts
<1>10. CASE p # o
  <2> DEFINE s == task[p]
  <2>1. task'[p] = s
    BY <1>9, <1>10
  <2>2. inserts /\ (GroupSeen(s) \/ GroupWritten(s)) => s.g # o
    BY <1>3, <1>7, <1>8, <1>10
  <2>3. GroupSeen(s) =>
            s.g # p /\ StandsFor(groups', s.g, s.sawG.version, s.sawG.edit)
    <3>1. GroupSeen(s) => StandsFor(groups, s.g, s.sawG.version, s.sawG.edit)
      BY DEF Versions, GroupVersions
    <3> QED BY <1>4, <1>7, <2>2, <3>1
  <2>4. GroupWritten(s) => StandsFor(groups', s.g, s.wrote, s.backG)
    <3>1. GroupWritten(s) => StandsFor(groups, s.g, s.wrote, s.backG)
      BY DEF Versions, GroupVersions
    <3> QED BY <1>4, <1>7, <2>2, <3>1
  <2>5. GroupAwaited(s) =>
            /\ p \notin DOMAIN groups'
            /\ \A q \in Ops : GroupSeen(task'[q]) => task'[q].g # p
    <3> SUFFICES ASSUME GroupAwaited(s)
                 PROVE  /\ p \notin DOMAIN groups'
                        /\ \A q \in Ops : GroupSeen(task'[q]) => task'[q].g # p
      OBVIOUS
    <3>1. p \notin DOMAIN groups
          /\ \A q \in Ops : GroupSeen(task[q]) => task[q].g # p
      BY DEF Versions, GroupVersions
    <3>2. p \notin DOMAIN groups'
      BY <1>1, <1>10, <3>1 DEF Grows
    <3>3. GroupSeen(u) => u.g # p
      BY <1>6, <3>1
    <3> QED BY <1>9, <3>1, <3>2, <3>3
  <2> QED BY <2>1, <2>3, <2>4, <2>5 DEF GroupVersions
<1>11. CASE p = o
  <2>1. GroupSeen(u) =>
            u.g # o /\ StandsFor(groups', u.g, u.sawG.version, u.sawG.edit)
    <3>1. CASE u.g \in DOMAIN groups /\ UNCHANGED groups /\ u.sawG = groups[u.g]
               /\ GroupAwaited(t)
      BY <1>2, <1>8, <3>1 DEF StandsFor
    <3>2. CASE GroupSeen(t) /\ u.g = t.g /\ u.sawG = t.sawG
      BY <1>4, <1>7, <1>8, <3>2
    <3> QED BY <1>6, <3>1, <3>2
  <2>2. GroupWritten(u) => StandsFor(groups', u.g, u.wrote, u.backG)
    <3> SUFFICES ASSUME GroupWritten(u) PROVE StandsFor(groups', u.g, u.wrote, u.backG)
      OBVIOUS
    <3>1. Keeps(o, t, u) /\ Order(o, t, u)
      BY <1>5 DEF GroupWritten, Saw, Live
    <3>2. CASE WriteGroup(o)
      <4>1. /\ groups'[t.g].version = u.wrote /\ groups'[t.g].edit = u.backG
            /\ u.wrote \in Nat
        BY <1>0, <3>2 DEF WriteGroup, Put, Typed, TasksTyped, TaskRecord
      <4> QED BY <3>1, <4>1 DEF Keeps, StandsFor
    <3>3. CASE ReadBackGroup(o)
      <4>1. /\ groups'[t.g].version = u.wrote /\ groups'[t.g].edit = u.backG
            /\ u.wrote \in Nat
        BY <1>0, <3>3 DEF ReadBackGroup, database, Typed, TasksTyped, TaskRecord
      <4> QED BY <3>1, <4>1 DEF Keeps, StandsFor
    <3>4. CASE ~WriteGroup(o) /\ ~ReadBackGroup(o)
      <4>1. GroupWritten(t) /\ u.wrote = t.wrote /\ u.backG = t.backG /\ u.g = t.g
        BY <3>1, <3>4 DEF Keeps, Order, GroupWritten
      <4>2. ~inserts
        BY <3>4 DEF inserts
      <4> QED BY <1>4, <1>7, <1>8, <4>1, <4>2
    <3> QED BY <3>2, <3>3, <3>4
  <2>3. GroupAwaited(u) =>
            /\ o \notin DOMAIN groups'
            /\ \A q \in Ops : GroupSeen(task'[q]) => task'[q].g # o
    <3> SUFFICES ASSUME GroupAwaited(u)
                 PROVE  /\ o \notin DOMAIN groups'
                        /\ \A q \in Ops : GroupSeen(task'[q]) => task'[q].g # o
      OBVIOUS
    <3>1. u.pc \in {"gcheck", "gwrite"} /\ u.verb \in Creates
      BY <1>5 DEF GroupAwaited, Saw, Ended, Order
    <3>2. GroupAwaited(t) /\ ~inserts
      <4>1. CASE Submits(o) /\ t.pc = "idle" /\ UNCHANGED <<groups, listeners>> /\ Saw(u)
        BY <4>1 DEF GroupAwaited, inserts, WriteGroup, At
      <4>2. CASE Keeps(o, t, u) /\ Order(o, t, u)
        BY <1>0, <3>1, <4>2 DEF Keeps, Order, GroupAwaited, VerbFits, Creates, inserts,
           WriteGroup, At
      <4> QED BY <1>5, <3>1, <4>1, <4>2 DEF Ended
    <3>3. o \notin DOMAIN groups'
      BY <1>1, <1>8, <3>2 DEF Grows
    <3>4. ~GroupSeen(u)
      BY <3>1 DEF GroupSeen, SeesGroup, Creates
    <3> QED BY <1>8, <1>9, <3>2, <3>3, <3>4
  <2> QED BY <1>11, <2>1, <2>2, <2>3 DEF GroupVersions
<1> QED BY <1>10, <1>11

\* What a request knows of a listener stays right, whoever takes the step.
LEMMA ListenerVersionsStep ==
    ASSUME Typed, Typed', Versions, NEW o \in Ops, Step(o), NEW p \in Ops
    PROVE  ListenerVersions(p)'
<1> DEFINE t == task[o]
           u == task'[o]
           inserts == WriteListener(o) /\ t.verb \in Creates
<1>0. /\ t \in TaskRecord /\ VerbFits(t) /\ RowsFit(o, t)
      /\ u \in TaskRecord /\ VerbFits(u) /\ RowsFit(o, u)
  BY DEF Typed, TasksTyped, VerbFits, RowsFit
<1>1. Grows(o, listeners, listeners', inserts)
  BY ListenersGrow DEF Versions
<1>2. /\ \A l \in DOMAIN listeners : listeners[l].version \in Nat
      /\ \A l \in DOMAIN listeners' : listeners'[l].version \in Nat
  BY DEF Typed, RowsTyped, ListenerRow
<1>3. inserts => ListenerAwaited(t)
  BY <1>0 DEF WriteListener, At, ListenerAwaited, VerbFits, EditsListener, MakesListener,
     Creates
<1>4. ASSUME NEW id, NEW version \in Nat, NEW edit, id # o \/ ~inserts,
             StandsFor(listeners, id, version, edit)
      PROVE  StandsFor(listeners', id, version, edit)
  <2> DEFINE b == IF inserts THEN TRUE ELSE FALSE
  <2>1. b \in BOOLEAN /\ (b <=> inserts)
    OBVIOUS
  <2>2. Grows(o, listeners, listeners', b)
    BY <1>1, <2>1 DEF Grows
  <2>3. id # o \/ ~b
    BY <1>4, <2>1
  <2> HIDE DEF b, inserts
  <2> QED BY <1>2, <1>4, <2>1, <2>2, <2>3, StandsForStays
<1>5. \/ Submits(o) /\ t.pc = "idle" /\ UNCHANGED <<groups, listeners>> /\ Saw(u)
      \/ u.pc \in Ended
      \/ Keeps(o, t, u) /\ Order(o, t, u)
  BY SubmittedSaw, GoesOn DEF Typed
<1>6. ListenerSeen(u) =>
          \/ u.l \in DOMAIN listeners /\ UNCHANGED listeners /\ u.sawL = listeners[u.l]
             /\ ListenerAwaited(t)
          \/ ListenerSeen(t) /\ u.l = t.l /\ u.sawL = t.sawL
  BY <1>5 DEF ListenerSeen, ListenerAwaited, Saw, Keeps, Live
<1>7. \A q \in Ops : /\ ListenerSeen(task[q]) => task[q].l # q /\ task[q].sawL.version \in Nat
                     /\ ListenerWritten(task[q]) => task[q].l = q \/ ListenerSeen(task[q])
                     /\ task[q].wroteL \in Nat
  <2> TAKE q \in Ops
  <2>1. task[q] \in TaskRecord /\ VerbFits(task[q]) /\ RowsFit(q, task[q])
    BY DEF Typed, TasksTyped
  <2>2. ListenerSeen(task[q]) => task[q].sawL \in ListenerRow
    BY <2>1 DEF ListenerSeen, FindsListener, RowsFit
  <2>3. ListenerWritten(task[q]) => task[q].l = q \/ ListenerSeen(task[q])
    BY <2>1 DEF ListenerWritten, ListenerSeen, EditsListener, FindsListener, RowsFit,
       VerbFits, Live, Steps, Ended
  <2>4. ListenerSeen(task[q]) => task[q].l # q
    BY DEF Versions, ListenerVersions
  <2> QED BY <2>1, <2>2, <2>3, <2>4 DEF ListenerRow, TaskRecord
<1>8. /\ ListenerAwaited(t) => /\ o \notin DOMAIN listeners
                            /\ \A q \in Ops : ListenerSeen(task[q]) => task[q].l # o
      /\ ListenerSeen(t) => StandsFor(listeners, t.l, t.sawL.version, t.sawL.edit)
      /\ ListenerWritten(t) => StandsFor(listeners, t.l, t.wroteL, t.backL)
  BY DEF Versions, ListenerVersions
<1>9. \A q \in Ops \ {o} : task'[q] = task[q]
  BY OwnTask DEF Typed
<1> HIDE DEF inserts
<1>10. CASE p # o
  <2> DEFINE s == task[p]
  <2>1. task'[p] = s
    BY <1>9, <1>10
  <2>2. inserts /\ (ListenerSeen(s) \/ ListenerWritten(s)) => s.l # o
    BY <1>3, <1>7, <1>8, <1>10
  <2>3. ListenerSeen(s) =>
            s.l # p /\ StandsFor(listeners', s.l, s.sawL.version, s.sawL.edit)
    <3>1. ListenerSeen(s) => StandsFor(listeners, s.l, s.sawL.version, s.sawL.edit)
      BY DEF Versions, ListenerVersions
    <3> QED BY <1>4, <1>7, <2>2, <3>1
  <2>4. ListenerWritten(s) => StandsFor(listeners', s.l, s.wroteL, s.backL)
    <3>1. ListenerWritten(s) => StandsFor(listeners, s.l, s.wroteL, s.backL)
      BY DEF Versions, ListenerVersions
    <3> QED BY <1>4, <1>7, <2>2, <3>1
  <2>5. ListenerAwaited(s) =>
            /\ p \notin DOMAIN listeners'
            /\ \A q \in Ops : ListenerSeen(task'[q]) => task'[q].l # p
    <3> SUFFICES ASSUME ListenerAwaited(s)
                 PROVE  /\ p \notin DOMAIN listeners'
                        /\ \A q \in Ops : ListenerSeen(task'[q]) => task'[q].l # p
      OBVIOUS
    <3>1. p \notin DOMAIN listeners
          /\ \A q \in Ops : ListenerSeen(task[q]) => task[q].l # p
      BY DEF Versions, ListenerVersions
    <3>2. p \notin DOMAIN listeners'
      BY <1>1, <1>10, <3>1 DEF Grows
    <3>3. ListenerSeen(u) => u.l # p
      BY <1>6, <3>1
    <3> QED BY <1>9, <3>1, <3>2, <3>3
  <2> QED BY <2>1, <2>3, <2>4, <2>5 DEF ListenerVersions
<1>11. CASE p = o
  <2>1. ListenerSeen(u) =>
            u.l # o /\ StandsFor(listeners', u.l, u.sawL.version, u.sawL.edit)
    <3>1. CASE u.l \in DOMAIN listeners /\ UNCHANGED listeners /\ u.sawL = listeners[u.l]
               /\ ListenerAwaited(t)
      BY <1>2, <1>8, <3>1 DEF StandsFor
    <3>2. CASE ListenerSeen(t) /\ u.l = t.l /\ u.sawL = t.sawL
      BY <1>4, <1>7, <1>8, <3>2
    <3> QED BY <1>6, <3>1, <3>2
  <2>2. ListenerWritten(u) => StandsFor(listeners', u.l, u.wroteL, u.backL)
    <3> SUFFICES ASSUME ListenerWritten(u)
                 PROVE  StandsFor(listeners', u.l, u.wroteL, u.backL)
      OBVIOUS
    <3>1. Keeps(o, t, u) /\ Order(o, t, u)
      BY <1>5 DEF ListenerWritten, Saw, Ended
    <3>2. CASE WriteListener(o)
      <4>1. /\ listeners'[t.l].version = u.wroteL /\ listeners'[t.l].edit = u.backL
            /\ u.wroteL \in Nat
        BY <1>0, <3>2 DEF WriteListener, Put, Typed, TasksTyped, TaskRecord
      <4> QED BY <3>1, <4>1 DEF Keeps, StandsFor
    <3>3. CASE ReadBackListener(o)
      <4>1. /\ listeners'[t.l].version = u.wroteL /\ listeners'[t.l].edit = u.backL
            /\ u.wroteL \in Nat
        BY <1>0, <3>3 DEF ReadBackListener, database, Typed, TasksTyped, TaskRecord
      <4> QED BY <3>1, <4>1 DEF Keeps, StandsFor
    <3>4. CASE ~WriteListener(o) /\ ~ReadBackListener(o)
      <4>1. ListenerWritten(t) /\ u.wroteL = t.wroteL /\ u.backL = t.backL /\ u.l = t.l
        BY <3>1, <3>4 DEF Keeps, Order, ListenerWritten
      <4>2. ~inserts
        BY <3>4 DEF inserts
      <4> QED BY <1>4, <1>7, <1>8, <4>1, <4>2
    <3> QED BY <3>2, <3>3, <3>4
  <2>3. ListenerAwaited(u) =>
            /\ o \notin DOMAIN listeners'
            /\ \A q \in Ops : ListenerSeen(task'[q]) => task'[q].l # o
    <3> SUFFICES ASSUME ListenerAwaited(u)
                 PROVE  /\ o \notin DOMAIN listeners'
                        /\ \A q \in Ops : ListenerSeen(task'[q]) => task'[q].l # o
      OBVIOUS
    <3>1. /\ u.pc \in {"gcheck", "gwrite", "gapply", "lcheck", "lwrite"}
          /\ u.verb \in MakesListener
      BY <1>5 DEF ListenerAwaited, Saw, Ended, Order
    <3>2. ListenerAwaited(t) /\ ~inserts
      <4>1. CASE Submits(o) /\ t.pc = "idle" /\ UNCHANGED <<groups, listeners>> /\ Saw(u)
        BY <4>1 DEF ListenerAwaited, inserts, WriteListener, At
      <4>2. CASE Keeps(o, t, u) /\ Order(o, t, u)
        BY <1>0, <3>1, <4>2 DEF Keeps, Order, ListenerAwaited, VerbFits, MakesListener, inserts,
           WriteListener, At
      <4> QED BY <1>5, <3>1, <4>1, <4>2 DEF Ended
    <3>3. o \notin DOMAIN listeners'
      BY <1>1, <1>8, <3>2 DEF Grows
    <3>4. ~ListenerSeen(u)
      BY <3>1 DEF ListenerSeen, FindsListener, MakesListener
    <3> QED BY <1>8, <1>9, <3>2, <3>3, <3>4
  <2> QED BY <1>11, <2>1, <2>2, <2>3 DEF ListenerVersions
<1> QED BY <1>10, <1>11


LEMMA VersionsInitially == Init => Versions
<1> SUFFICES ASSUME Init, NEW o \in Ops PROVE GroupVersions(o) /\ ListenerVersions(o)
  BY DEF Versions
<1>1. \A p \in Ops : task[p].pc = "idle"
  BY DEF Init, Idle
<1>2. o \notin DOMAIN groups /\ o \notin DOMAIN listeners
  BY ServicesAssumption DEF Init
<1> QED
  BY <1>1, <1>2 DEF GroupVersions, ListenerVersions, GroupSeen, GroupWritten,
     ListenerSeen, ListenerWritten, Live

LEMMA VersionsStep == Typed /\ Versions /\ [Next]_vars => Versions'
<1> SUFFICES ASSUME Typed, Versions, [Next]_vars PROVE Versions'
  OBVIOUS
<1>1. Typed'
  BY TypedStep
<1>2. ASSUME NEW o \in Ops, Step(o) PROVE Versions'
  BY <1>1, <1>2, GroupVersionsStep, ListenerVersionsStep DEF Versions
<1>3. CASE UNCHANGED vars
  BY <1>3 DEF vars, database, plane, Versions, GroupVersions, ListenerVersions, GroupSeen,
     GroupWritten, GroupAwaited, ListenerSeen, ListenerWritten, ListenerAwaited, StandsFor
<1> QED BY <1>2, <1>3 DEF Next

(* What NoLostUpdate asks of a step of o.                                  *)
LosesNothing(o) ==
    /\ \A g \in DOMAIN groups :
           (g \notin DOMAIN groups' \/ groups'[g].edit # groups[g].edit)
           => groups[g].edit \in Known(o, task[o].sawG, task[o].backG)
    /\ \A l \in DOMAIN listeners :
           (l \notin DOMAIN listeners' \/ listeners'[l].edit # listeners[l].edit)
           => listeners[l].edit \in Known(o, task[o].sawL, task[o].backL)

LEMMA StepLosesNothing ==
    ASSUME Typed, Versions, NEW o \in Ops, Step(o)
    PROVE  LosesNothing(o)
<1> DEFINE t == task[o]
<1>0. t \in TaskRecord /\ VerbFits(t) /\ RowsFit(o, t)
  BY DEF Typed, TasksTyped
<1>1. CASE UNCHANGED <<groups, listeners>>
  BY <1>1 DEF LosesNothing
<1>2. /\ t.sawG \in GroupRow => t.sawG.edit \in Known(o, t.sawG, t.backG)
      /\ t.sawL \in ListenerRow => t.sawL.edit \in Known(o, t.sawL, t.backL)
      /\ t.backG \in Known(o, t.sawG, t.backG) /\ t.backL \in Known(o, t.sawL, t.backL)
  BY NoRowAssumption DEF Known
<1>3. /\ GroupSeen(t) => StandsFor(groups, t.g, t.sawG.version, t.sawG.edit)
      /\ GroupWritten(t) => StandsFor(groups, t.g, t.wrote, t.backG)
      /\ ListenerSeen(t) => StandsFor(listeners, t.l, t.sawL.version, t.sawL.edit)
      /\ ListenerWritten(t) => StandsFor(listeners, t.l, t.wroteL, t.backL)
  BY DEF Versions, GroupVersions, ListenerVersions
<1>4. CASE WriteGroup(o)
  <2>1. t.pc = "gwrite" /\ t.verb \in EditsGroup
    BY <1>0, <1>4 DEF WriteGroup, At, VerbFits
  <2>2. /\ listeners' = listeners
        /\ \A g \in DOMAIN groups : g # t.g => g \in DOMAIN groups' /\ groups'[g] = groups[g]
    BY <1>4 DEF WriteGroup, Put
  <2>3. CASE t.verb \in Creates
    <3>1. t.g \notin DOMAIN groups
      BY <1>0, <2>1, <2>3 DEF Versions, GroupVersions, GroupAwaited, RowsFit, EditsGroup,
         Creates, Live, Steps, Ended
    <3> QED BY <2>2, <3>1 DEF LosesNothing
  <2>4. CASE t.verb \notin Creates
    <3>1. GroupSeen(t) /\ t.sawG \in GroupRow
      BY <1>0, <2>1, <2>4 DEF GroupSeen, SeesGroup, EditsGroup, Creates, RowsFit, Live,
         Steps, Ended
    <3>2. t.g \in DOMAIN groups /\ groups[t.g].edit = t.sawG.edit
      BY <1>3, <1>4, <2>4, <3>1 DEF WriteGroup, Matches, StandsFor
    <3> QED BY <1>2, <2>2, <3>1, <3>2 DEF LosesNothing
  <2> QED BY <2>3, <2>4
<1>5. CASE RestoreGroup(o)
  <2>1. GroupWritten(t)
    BY <1>0, <1>5 DEF RestoreGroup, At, VerbFits, GroupWritten, EditsGroup, Live, Steps,
       Ended
  <2>2. t.g \in DOMAIN groups /\ groups[t.g].edit = t.backG
    BY <1>3, <1>5, <2>1 DEF RestoreGroup, Matches, StandsFor
  <2>3. /\ listeners' = listeners
        /\ \A g \in DOMAIN groups : g # t.g => g \in DOMAIN groups' /\ groups'[g] = groups[g]
    BY <1>5 DEF RestoreGroup
  <2> QED BY <1>2, <2>2, <2>3 DEF LosesNothing
<1>6. CASE DeleteGroup(o)
  <2>1. t.pc = "gdelete" /\ t.verb \in {"createService", "deleteGroup"}
    BY <1>0, <1>6 DEF DeleteGroup, At, VerbFits
  <2>2. groups[t.g].edit \in Known(o, t.sawG, t.backG)
    <3>1. CASE t.verb = "createService"
      <4>1. GroupWritten(t)
        BY <2>1, <3>1 DEF GroupWritten, EditsGroup, Live, Steps, Ended
      <4> QED BY <1>2, <1>3, <1>6, <3>1, <4>1 DEF DeleteGroup, Deletable, Matches, StandsFor
    <3>2. CASE t.verb = "deleteGroup"
      <4>1. GroupSeen(t) /\ t.sawG \in GroupRow
        BY <1>0, <2>1, <3>2 DEF GroupSeen, SeesGroup, RowsFit, Live, Steps, Ended
      <4> QED BY <1>2, <1>3, <1>6, <3>2, <4>1 DEF DeleteGroup, Deletable, Matches, StandsFor
    <3> QED BY <2>1, <3>1, <3>2
  <2>3. /\ listeners' = listeners
        /\ \A g \in DOMAIN groups : g # t.g => g \in DOMAIN groups' /\ groups'[g] = groups[g]
    BY <1>6 DEF DeleteGroup, Drop
  <2> QED BY <2>2, <2>3 DEF LosesNothing
<1>7. CASE WriteListener(o)
  <2>1. t.pc = "lwrite" /\ t.verb \in EditsListener
    BY <1>0, <1>7 DEF WriteListener, At, VerbFits
  <2>2. /\ groups' = groups
        /\ \A l \in DOMAIN listeners :
               l # t.l => l \in DOMAIN listeners' /\ listeners'[l] = listeners[l]
    BY <1>7 DEF WriteListener, Put
  <2>3. CASE t.verb \in Creates
    <3>1. t.l \notin DOMAIN listeners
      BY <1>0, <2>1, <2>3 DEF Versions, ListenerVersions, ListenerAwaited, RowsFit,
         EditsListener, MakesListener, Creates, Live, Steps, Ended
    <3> QED BY <2>2, <3>1 DEF LosesNothing
  <2>4. CASE t.verb \notin Creates
    <3>1. ListenerSeen(t) /\ t.sawL \in ListenerRow
      BY <1>0, <2>1, <2>4 DEF ListenerSeen, FindsListener, EditsListener, Creates, RowsFit,
         Live, Steps, Ended
    <3>2. t.l \in DOMAIN listeners /\ listeners[t.l].edit = t.sawL.edit
      BY <1>3, <1>7, <2>4, <3>1 DEF WriteListener, Matches, StandsFor
    <3> QED BY <1>2, <2>2, <3>1, <3>2 DEF LosesNothing
  <2> QED BY <2>3, <2>4
<1>8. CASE RestoreListener(o)
  <2>1. ListenerWritten(t)
    BY <1>8 DEF RestoreListener, At, ListenerWritten
  <2>2. t.l \in DOMAIN listeners /\ listeners[t.l].edit = t.backL
    BY <1>3, <1>8, <2>1 DEF RestoreListener, Matches, StandsFor
  <2>3. /\ groups' = groups
        /\ \A l \in DOMAIN listeners :
               l # t.l => l \in DOMAIN listeners' /\ listeners'[l] = listeners[l]
    BY <1>8 DEF RestoreListener
  <2> QED BY <1>2, <2>2, <2>3 DEF LosesNothing
<1>9. CASE DeleteListener(o)
  <2>1. ListenerSeen(t) /\ t.sawL \in ListenerRow
    BY <1>0, <1>9 DEF DeleteListener, At, VerbFits, ListenerSeen, FindsListener, RowsFit,
       Live, Steps, Ended
  <2>2. listeners[t.l].edit = t.sawL.edit
    BY <1>3, <1>9, <2>1 DEF DeleteListener, Matches, StandsFor
  <2>3. /\ groups' = groups
        /\ \A l \in DOMAIN listeners :
               l # t.l => l \in DOMAIN listeners' /\ listeners'[l] = listeners[l]
    BY <1>9 DEF DeleteListener, Drop
  <2> QED BY <1>2, <2>1, <2>2, <2>3 DEF LosesNothing
<1>10. CASE Rotate(o)
  <2>1. CASE t.l \in DOMAIN listeners
               /\ listeners' = [listeners EXCEPT ![t.l].version = @ + 1]
    <3>1. \A l \in DOMAIN listeners : l \in DOMAIN listeners'
                                      /\ listeners'[l].edit = listeners[l].edit
      BY <2>1 DEF Typed, RowsTyped, ListenerRow
    <3> QED BY <1>10, <3>1 DEF Rotate, LosesNothing
  <2> QED BY <1>10, <2>1 DEF Rotate, LosesNothing
<1> QED
  BY <1>1, <1>4, <1>5, <1>6, <1>7, <1>8, <1>9, <1>10, RowsChange

\* No request replaces or removes an edit that its client did not see, that it
\* did not make and that its read-back did not hand to it, not even where it
\* takes its own edit back: the version it asks for stands for the edit it saw
\* or read back.
THEOREM UpdatesNotLost == Spec => NoLostUpdate
<1>1. Typed /\ Versions /\ [Next]_vars =>
          [\A o \in Ops : task'[o] # task[o] => LosesNothing(o)]_vars
  <2> SUFFICES ASSUME Typed, Versions, Next, NEW o \in Ops, task'[o] # task[o]
               PROVE  LosesNothing(o)
    OBVIOUS
  <2>1. PICK p \in Ops : Step(p)
    BY DEF Next
  <2>2. p = o
    BY <2>1, OwnTask DEF Typed
  <2> QED BY <2>1, <2>2, StepLosesNothing
<1> QED
  BY <1>1, AlwaysTyped, VersionsInitially, VersionsStep, PTL
  DEF Spec, NoLostUpdate, LosesNothing

-----------------------------------------------------------------------------
(* Rejected edits.  Whoever made the edit of a row has not taken it back,  *)
(* and neither has whoever made an edit that may be put back.              *)

\* The edit of this request may be in its group, or in its listener.
GroupStands(t) ==
    \/ t.pc \in {"ok", "failed"}
    \/ GroupWritten(t) /\ t.pc \notin {"greapply", "dapply"}

ListenerStands(t) ==
    \/ t.pc \in {"ok", "failed"}
    \/ t.pc \in {"lread", "lapply", "lrestore", "sync"}
    \/ t.pc \in {"gback", "grestore", "greapply"} /\ t.kept
    \/ t.pc \in {"dcheck", "gdelete"} /\ t.verb = "createService"

\* An edit that was in a row before the row had this version.
GroupMade(tasks, edit, g, version) ==
    edit \in Ops =>
        /\ GroupStands(tasks[edit])
        /\ tasks[edit].pc \in Live =>
               tasks[edit].g = g /\ tasks[edit].wrote < version

ListenerMade(tasks, edit, l, group, version) ==
    edit \in Ops =>
        /\ ListenerStands(tasks[edit])
        /\ tasks[edit].pc \in Live =>
               /\ tasks[edit].l = l /\ tasks[edit].g = group
               /\ tasks[edit].wroteL < version

GroupTraces ==
    \A g \in DOMAIN groups : GroupMade(task, groups[g].edit, g, groups[g].version + 1)

ListenerTraces ==
    \A l \in DOMAIN listeners :
        ListenerMade(task, listeners[l].edit, l, listeners[l].group,
                     listeners[l].version + 1)

\* A group that was taken back does not return, so that no listener of it
\* can be put back.
Gone(tasks, rows, g) == g \in Ops /\ g \notin DOMAIN rows /\ ~GroupAwaited(tasks[g])

\* Whoever made an edit seen in a listener of this group has no other group.
Placed(tasks, edit, group) ==
    edit \in Ops =>
        /\ tasks[edit].pc # "idle"
        /\ tasks[edit].pc \in Live => tasks[edit].g = group

\* The rows a request would put back.
GroupBacked(o) ==
    LET t == task[o]
    IN  t.verb = "updateService" =>
            /\ t.pc \in {"gcheck", "gwrite"} =>
                   /\ t.sawG.version <= t.oldG.version
                   /\ StandsFor(groups, t.g, t.oldG.version, t.oldG.edit)
            /\ GroupWritten(t) => GroupMade(task, t.oldG.edit, t.g, t.wrote)

ListenerBacked(o) ==
    LET t == task[o]
    IN  t.verb \in FindsListener =>
            /\ t.pc = "lwrite" =>
                   /\ t.sawL.version <= t.oldL.version
                   /\ StandsFor(listeners, t.l, t.oldL.version, t.oldL.edit)
                   /\ Placed(task, t.oldL.edit, t.oldL.group)
            /\ ListenerWritten(t) =>
                   \/ ListenerMade(task, t.oldL.edit, t.l, t.oldL.group, t.wroteL)
                   \/ Gone(task, groups, t.oldL.group)

KeptFits(t) == t.pc \in Live /\ t.kept => t.pc \in {"gback", "grestore", "greapply"}

(* As long as no read-back found a row written again, every request has     *)
(* read back its own edit, at the version it wrote.                         *)
Uncrossed(tasks) == \A o \in Ops : ~tasks[o].crossed

OwnReadBack(t, o) ==
    /\ t.pc = "idle" => ~t.crossed
    /\ ~t.crossed /\ GroupWritten(t) => t.backG = o
    /\ ~t.crossed /\ ListenerWritten(t) => t.backL = o

Own == \A o \in Ops : OwnReadBack(task[o], o)

Traces ==
    /\ GroupTraces
    /\ ListenerTraces
    /\ \A o \in Ops : GroupBacked(o) /\ ListenerBacked(o) /\ KeptFits(task[o])

\* What a request has crossed is not forgotten.
LEMMA CrossedStays ==
    ASSUME TasksTyped, NEW o \in Ops, Step(o), ~Submits(o), task[o].crossed
    PROVE  task'[o].crossed
<1> DEFINE t == task[o]
<1>0. t \in TaskRecord
  BY DEF TasksTyped
<1>a. ASSUME NEW how, End(o, how) PROVE task'[o].crossed
  BY <1>a DEF End, Idle, TasksTyped
<1>b. ASSUME NEW pc, Go(o, pc) PROVE task'[o].crossed
  <2>1. task'[o] = [t EXCEPT !.pc = pc]
    BY <1>b DEF Go, TasksTyped
  <2> QED BY <1>0, <2>1 DEF TaskRecord
<1>c. ASSUME Unrestored(o) PROVE task'[o].crossed
  <2>1. CASE task' = [task EXCEPT ![o].pc = "gback", ![o].kept = TRUE]
    <3>1. task'[o] = [t EXCEPT !.pc = "gback", !.kept = TRUE]
      BY <2>1 DEF TasksTyped, TaskRecord
    <3> QED BY <1>0, <3>1 DEF TaskRecord
  <2> QED BY <1>a, <1>c, <2>1 DEF Unrestored
<1>1. CASE ReadOriginal(o)
  <2>1. CASE t.g \in DOMAIN groups
    <3>1. task'[o] = [t EXCEPT !.pc = "gcheck", !.oldG = groups[t.g]]
      BY <1>1, <2>1 DEF ReadOriginal, TasksTyped, TaskRecord
    <3> QED BY <1>0, <3>1 DEF TaskRecord
  <2> QED BY <1>1, <1>a, <2>1 DEF ReadOriginal
<1>2. CASE WriteGroup(o)
  <2>1. PICK version, next :
            task'[o] = [t EXCEPT !.pc = next, !.wrote = version, !.backG = o]
    BY <1>2 DEF WriteGroup, TasksTyped, TaskRecord
  <2> QED BY <1>0, <2>1 DEF TaskRecord
<1>3. CASE ReadBackGroup(o)
  <2>1. PICK version, edit :
            task'[o] = [t EXCEPT !.pc = "gapply", !.wrote = version, !.backG = edit,
                                 !.crossed = t.crossed \/ version # t.wrote]
    BY <1>3 DEF ReadBackGroup, TasksTyped, TaskRecord
  <2> QED BY <1>0, <2>1 DEF TaskRecord
<1>4. CASE CheckListener(o)
  <2>1. PICK found : task'[o] = [t EXCEPT !.pc = "lwrite", !.oldL = found]
    BY <1>4 DEF CheckListener, TasksTyped, TaskRecord
  <2> QED BY <1>0, <2>1 DEF TaskRecord
<1>5. CASE WriteListener(o)
  <2>1. PICK version, next :
            task'[o] = [t EXCEPT !.pc = next, !.wroteL = version, !.backL = o]
    BY <1>5 DEF WriteListener, TasksTyped, TaskRecord
  <2> QED BY <1>0, <2>1 DEF TaskRecord
<1>6. CASE ReadBackListener(o)
  <2>1. PICK version, edit :
            task'[o] = [t EXCEPT !.pc = "lapply", !.wroteL = version, !.backL = edit,
                                 !.crossed = t.crossed \/ version # t.wroteL]
    BY <1>6 DEF ReadBackListener, TasksTyped, TaskRecord
  <2> QED BY <1>0, <2>1 DEF TaskRecord
<1>7. CASE ReadSettings(o)
  <2>1. task'[o] = [t EXCEPT !.pc = "ssave", !.old = settings]
    BY <1>7 DEF ReadSettings, TasksTyped, TaskRecord
  <2> QED BY <1>0, <2>1 DEF TaskRecord
<1>8. CASE \/ CheckGroup(o) \/ RefuseGroup(o) \/ LoseGroup(o) \/ ApplyGroup(o)
           \/ CheckFormerGroup(o) \/ RestoreGroup(o) \/ KeepGroup(o)
           \/ ReapplyGroup(o) \/ Sync(o)
  BY <1>8, <1>a, <1>b DEF CheckGroup, RefuseGroup, LoseGroup, ApplyGroup,
     CheckFormerGroup, RestoreGroup, KeepGroup, ReapplyGroup, Sync
<1>9. CASE \/ RefuseListener(o) \/ LoseListener(o) \/ SettingsUnread(o)
           \/ ApplyListener(o) \/ RestoreListener(o) \/ KeepListener(o)
  BY <1>9, <1>a, <1>b, <1>c DEF RefuseListener, LoseListener, SettingsUnread,
     ApplyListener, RestoreListener, KeepListener, Unwritten
<1>10. CASE \/ CheckReferences(o) \/ DeleteGroup(o) \/ KeepDeleted(o)
            \/ DeleteListener(o) \/ RefuseDelete(o) \/ ApplyDelete(o)
  BY <1>10, <1>a, <1>b DEF CheckReferences, DeleteGroup, KeepDeleted, DeleteListener,
     RefuseDelete, ApplyDelete, Undeleted
<1>11. CASE Rotate(o) \/ SaveSettings(o) \/ SaveFails(o) \/ ApplySettings(o)
  BY <1>11, <1>a, <1>b DEF Rotate, SaveSettings, SaveFails, ApplySettings
<1> QED BY <1>1, <1>2, <1>3, <1>4, <1>5, <1>6, <1>7, <1>8, <1>9, <1>10, <1>11
        DEF Step, Submits

\* A read-back that crosses nothing leaves what the request knows.
LEMMA ReadBackOwn ==
    ASSUME TasksTyped, Versions, NEW o \in Ops, ReadBackGroup(o) \/ ReadBackListener(o),
           ~task'[o].crossed
    PROVE  /\ ~task[o].crossed
           /\ task'[o].wrote = task[o].wrote /\ task'[o].wroteL = task[o].wroteL
           /\ task'[o].backG = task[o].backG /\ task'[o].backL = task[o].backL
<1> DEFINE t == task[o]
           u == task'[o]
<1>0. t \in TaskRecord /\ VerbFits(t)
  BY DEF TasksTyped
<1>1. CASE ReadBackGroup(o)
  <2>1. u = [t EXCEPT !.pc = "gapply", !.wrote = groups[t.g].version,
                      !.backG = groups[t.g].edit,
                      !.crossed = t.crossed \/ groups[t.g].version # t.wrote]
    BY <1>1 DEF ReadBackGroup, TasksTyped, TaskRecord
  <2>2. /\ u.wrote = groups[t.g].version /\ u.backG = groups[t.g].edit
        /\ u.crossed = (t.crossed \/ groups[t.g].version # t.wrote)
        /\ u.wroteL = t.wroteL /\ u.backL = t.backL
    BY <1>0, <2>1 DEF TaskRecord
  <2>3. t.pc = "gread" /\ t.g \in DOMAIN groups
    BY <1>1 DEF ReadBackGroup, At
  <2>4. StandsFor(groups, t.g, t.wrote, t.backG)
    BY <1>0, <2>3 DEF Versions, GroupVersions, GroupWritten, VerbFits, EditsGroup, Live,
       Steps, Ended
  <2> QED BY <2>2, <2>3, <2>4 DEF StandsFor
<1>2. CASE ReadBackListener(o)
  <2>1. u = [t EXCEPT !.pc = "lapply", !.wroteL = listeners[t.l].version,
                      !.backL = listeners[t.l].edit,
                      !.crossed = t.crossed \/ listeners[t.l].version # t.wroteL]
    BY <1>2 DEF ReadBackListener, TasksTyped, TaskRecord
  <2>2. /\ u.wroteL = listeners[t.l].version /\ u.backL = listeners[t.l].edit
        /\ u.crossed = (t.crossed \/ listeners[t.l].version # t.wroteL)
        /\ u.wrote = t.wrote /\ u.backG = t.backG
    BY <1>0, <2>1 DEF TaskRecord
  <2>3. t.pc = "lread" /\ t.l \in DOMAIN listeners
    BY <1>2 DEF ReadBackListener, At
  <2>4. StandsFor(listeners, t.l, t.wroteL, t.backL)
    BY <2>3 DEF Versions, ListenerVersions, ListenerWritten
  <2> QED BY <2>2, <2>3, <2>4 DEF StandsFor
<1> QED BY <1>1, <1>2

\* So a request that crossed nothing goes on with the versions it wrote.
LEMMA WroteStays ==
    ASSUME Typed, Versions, NEW o \in Ops, Step(o), ~Submits(o),
           ~task'[o].crossed, task'[o].pc \in Live
    PROVE  /\ WriteGroup(o) \/ (/\ task'[o].wrote = task[o].wrote
                                /\ task'[o].backG = task[o].backG)
           /\ WriteListener(o) \/ (/\ task'[o].wroteL = task[o].wroteL
                                   /\ task'[o].backL = task[o].backL)
  BY GoesOn, ReadBackOwn DEF Typed, Keeps, Live

LEMMA OwnStep ==
    ASSUME Typed, Typed', Versions, Own, NEW o \in Ops, Step(o)
    PROVE  Own' /\ (Uncrossed(task') => Uncrossed(task))
<1> DEFINE t == task[o]
           u == task'[o]
<1>0. t \in TaskRecord /\ VerbFits(t) /\ u \in TaskRecord /\ VerbFits(u)
  BY DEF Typed, TasksTyped, VerbFits
<1>1. \A p \in Ops \ {o} : task'[p] = task[p]
  BY OwnTask DEF Typed
<1>2. ~u.crossed => ~t.crossed
  BY SubmittedSaw, CrossedStays DEF Typed, Own, OwnReadBack
<1>3. OwnReadBack(u, o)
  <2>1. CASE Submits(o)
    <3>1. PICK verb, first, g, l : Submit(o, verb, first, g, l)
      BY <2>1 DEF Submits, SubmitCreate, SubmitUpdate, SubmitOther
    <3>2. Saw(u)
      BY <2>1, SubmittedSaw
    <3> QED BY <3>2 DEF Saw, OwnReadBack, GroupWritten, ListenerWritten, EditsGroup, Live
  <2>2. CASE ~Submits(o) /\ u.pc \in Ended
    BY <2>2 DEF OwnReadBack, GroupWritten, ListenerWritten, Ended, Live
  <2>3. CASE ~Submits(o) /\ Keeps(o, t, u) /\ Order(o, t, u) /\ u.pc \notin Ended
    <3>1. u.pc \in Live /\ u.pc # "idle"
      BY <1>0, <2>3 DEF Order, TaskRecord, Live
    <3>2. SUFFICES ASSUME ~u.crossed
                   PROVE  /\ GroupWritten(u) => u.backG = o
                          /\ ListenerWritten(u) => u.backL = o
      BY <3>1 DEF OwnReadBack
    <3>3. /\ GroupWritten(t) => t.backG = o
          /\ ListenerWritten(t) => t.backL = o
      BY <1>2, <3>2 DEF Own, OwnReadBack
    <3>4. /\ WriteGroup(o) \/ u.backG = t.backG
          /\ WriteListener(o) \/ u.backL = t.backL
      BY <2>3, <3>1, <3>2, WroteStays
    <3>5. WriteGroup(o) => u.backG = o
      BY <1>0 DEF WriteGroup, Typed, TasksTyped, TaskRecord
    <3>6. WriteListener(o) => u.backL = o
      BY <1>0 DEF WriteListener, Typed, TasksTyped, TaskRecord
    <3>7. GroupWritten(u) => WriteGroup(o) \/ GroupWritten(t)
      BY <1>0, <2>3 DEF Keeps, Order, GroupWritten
    <3>8. ListenerWritten(u) => WriteListener(o) \/ ListenerWritten(t)
      BY <2>3 DEF Order, ListenerWritten
    <3> QED BY <3>3, <3>4, <3>5, <3>6, <3>7, <3>8
  <2> QED BY <2>1, <2>2, <2>3, GoesOn DEF Typed
<1>4. Own'
  <2>1. \A p \in Ops : OwnReadBack(task'[p], p)
    BY <1>1, <1>3 DEF Own
  <2> QED BY <2>1 DEF Own, OwnReadBack, GroupWritten, ListenerWritten
<1> QED BY <1>1, <1>2, <1>4 DEF Uncrossed

\* A submitted request has nothing to put back.
LEMMA SubmittedFresh ==
    ASSUME TasksTyped, NEW o \in Ops, Submits(o)
    PROVE  task'[o].kept = FALSE /\ task'[o].oldG = None
<1>1. ASSUME NEW verb, NEW first, NEW g, NEW l, Submit(o, verb, first, g, l)
      PROVE  task'[o].kept = FALSE /\ task'[o].oldG = None
  <2>1. PICK refs, sawG, sawL :
            task' = [task EXCEPT ![o] =
                [Idle EXCEPT !.pc = first, !.verb = verb, !.g = g, !.l = l,
                             !.refs = refs, !.sawG = sawG, !.sawL = sawL]]
    BY <1>1 DEF Submit
  <2> QED BY <2>1 DEF TasksTyped, Idle
<1> QED BY <1>1 DEF Submits, SubmitCreate, SubmitUpdate, SubmitOther

\* An edit stands until it is restored or deleted, and the rows a request
\* would put back are read once.
LEMMA StandsOn ==
    ASSUME TasksTyped, NEW o \in Ops, Step(o), ~Submits(o), KeptFits(task[o])
    PROVE  /\ KeptFits(task'[o])
           /\ GroupStands(task[o]) =>
                  RestoreGroup(o) \/ DeleteGroup(o) \/ GroupStands(task'[o])
           /\ ListenerStands(task[o]) =>
                  RestoreListener(o) \/ DeleteGroup(o) \/ ListenerStands(task'[o])
           /\ task'[o].pc \in Live =>
                  /\ \/ ReadOriginal(o)
                     \/ task'[o].oldG = task[o].oldG /\ task[o].pc # "oread"
                  /\ \/ CheckListener(o)
                     \/ task'[o].oldL = task[o].oldL /\ task'[o].pc # "lwrite"
<1> DEFINE t == task[o]
           u == task'[o]
           Stand == /\ KeptFits(u)
                    /\ GroupStands(t) =>
                           RestoreGroup(o) \/ DeleteGroup(o) \/ GroupStands(u)
                    /\ ListenerStands(t) =>
                           RestoreListener(o) \/ DeleteGroup(o) \/ ListenerStands(u)
           Old == u.pc \in Live =>
                      /\ ReadOriginal(o) \/ (u.oldG = t.oldG /\ t.pc # "oread")
                      /\ CheckListener(o) \/ (u.oldL = t.oldL /\ u.pc # "lwrite")
           OK == Stand /\ Old
<1>0. t \in TaskRecord /\ VerbFits(t) /\ RowsFit(o, t)
  BY DEF TasksTyped
<1>a. ASSUME NEW how \in Ended, End(o, how),
             how = "undone" => ~GroupStands(t) /\ ~ListenerStands(t)
      PROVE  OK
  <2>1. u.pc = how
    BY <1>a DEF End, Idle, TasksTyped
  <2>2. how \notin Live
    BY DEF Live
  <2> QED BY <1>a, <2>1, <2>2 DEF Ended, KeptFits, GroupStands, ListenerStands
<1>b. ASSUME NEW pc, Go(o, pc)
      PROVE  /\ u.pc = pc /\ u.verb = t.verb /\ u.kept = t.kept
             /\ u.oldG = t.oldG /\ u.oldL = t.oldL
  <2>1. u = [t EXCEPT !.pc = pc]
    BY <1>b DEF Go, TasksTyped
  <2> QED BY <1>0, <2>1 DEF TaskRecord
<1>c. ASSUME NEW pc \in Live, Go(o, pc), t.pc # "oread", pc # "lwrite", Stand
      PROVE  OK
  BY <1>b, <1>c
<1> SUFFICES OK
  OBVIOUS
<1> USE DEF GroupStands, ListenerStands, GroupWritten, KeptFits, Live, Steps, Ended,
            EditsGroup, EditsListener, Services
<1>1. CASE ReadOriginal(o)
  <2>1. CASE t.g \in DOMAIN groups
    <3>1. u = [t EXCEPT !.pc = "gcheck", !.oldG = groups[t.g]]
      BY <1>1, <2>1 DEF ReadOriginal, TasksTyped, TaskRecord
    <3>2. u.pc = "gcheck" /\ u.kept = t.kept /\ u.oldL = t.oldL /\ t.pc = "oread"
      BY <1>0, <1>1, <3>1 DEF ReadOriginal, At, TaskRecord
    <3> QED BY <1>1, <3>2
  <2>2. CASE t.g \notin DOMAIN groups
    BY <1>1, <2>2, <1>a DEF ReadOriginal, At
  <2> QED BY <2>1, <2>2
<1>2. CASE CheckGroup(o)
  <2>1. Go(o, "gwrite") /\ t.pc = "gcheck"
    BY <1>2 DEF CheckGroup, At
  <2> QED BY <2>1, <1>b
<1>3. CASE WriteGroup(o)
  <2>1. PICK version, next :
            /\ next \in {"gapply", "gread"}
            /\ u = [t EXCEPT !.pc = next, !.wrote = version, !.backG = o]
    <3> DEFINE made == IF t.verb \in Creates THEN 1 ELSE t.sawG.version + 1
               then == IF t.verb \in Creates THEN "gapply" ELSE "gread"
    <3>1. u = [t EXCEPT !.pc = then, !.wrote = made, !.backG = o]
      BY <1>3 DEF WriteGroup, TasksTyped, TaskRecord
    <3>2. then \in {"gapply", "gread"}
      OBVIOUS
    <3> HIDE DEF made, then
    <3> QED BY <3>1, <3>2
  <2>2. /\ u.pc \in {"gapply", "gread"} /\ u.kept = t.kept
        /\ u.oldG = t.oldG /\ u.oldL = t.oldL
    BY <1>0, <2>1 DEF TaskRecord
  <2>3. t.pc = "gwrite"
    BY <1>3 DEF WriteGroup, At
  <2> QED BY <2>2, <2>3
<1>24. CASE ReadBackGroup(o)
  <2>1. PICK version, edit, crossed :
            u = [t EXCEPT !.pc = "gapply", !.wrote = version, !.backG = edit,
                          !.crossed = crossed]
    BY <1>24 DEF ReadBackGroup, TasksTyped, TaskRecord
  <2>2. /\ u.pc = "gapply" /\ u.kept = t.kept /\ u.verb = t.verb
        /\ u.oldG = t.oldG /\ u.oldL = t.oldL
    BY <1>0, <2>1 DEF TaskRecord
  <2>3. t.pc = "gread"
    BY <1>24 DEF ReadBackGroup, At
  <2> QED BY <2>2, <2>3
<1>25. CASE LoseGroup(o)
  BY <1>25, <1>a DEF LoseGroup
<1>4. CASE RefuseGroup(o)
  BY <1>4, <1>a DEF RefuseGroup, At
<1>5. CASE SettingsUnread(o) \/ KeepGroup(o)
  BY <1>5, <1>a DEF SettingsUnread, KeepGroup
<1>6. CASE ApplyGroup(o)
  <2>1. t.pc = "gapply"
    BY <1>6 DEF ApplyGroup, At
  <2>2. CASE Go(o, "lcheck")
    BY <1>0, <2>1, <2>2, <1>b
  <2>3. CASE Go(o, "dcheck")
    BY <1>0, <2>1, <2>3, <1>b
  <2>4. CASE End(o, "ok") \/ End(o, "failed")
    BY <2>4, <1>a
  <2> QED BY <1>6, <2>2, <2>3, <2>4 DEF ApplyGroup
<1>7. CASE CheckListener(o)
  <2>1. PICK found : u = [t EXCEPT !.pc = "lwrite", !.oldL = found]
    BY <1>7 DEF CheckListener, TasksTyped, TaskRecord
  <2>2. /\ u.pc = "lwrite" /\ u.kept = t.kept /\ u.verb = t.verb
        /\ u.oldG = t.oldG
    BY <1>0, <2>1 DEF TaskRecord
  <2>3. t.pc = "lcheck"
    BY <1>7 DEF CheckListener, At
  <2> QED BY <1>7, <2>2, <2>3
<1>8. CASE WriteListener(o)
  <2>1. PICK version, next :
            /\ next \in {"lapply", "lread"}
            /\ u = [t EXCEPT !.pc = next, !.wroteL = version, !.backL = o]
    <3> DEFINE made == IF t.verb \in Creates THEN 1 ELSE t.sawL.version + 1
               then == IF t.verb \in Creates THEN "lapply" ELSE "lread"
    <3>1. u = [t EXCEPT !.pc = then, !.wroteL = made, !.backL = o]
      BY <1>8 DEF WriteListener, TasksTyped, TaskRecord
    <3>2. then \in {"lapply", "lread"}
      OBVIOUS
    <3> HIDE DEF made, then
    <3> QED BY <3>1, <3>2
  <2>2. /\ u.pc \in {"lapply", "lread"} /\ u.kept = t.kept /\ u.verb = t.verb
        /\ u.oldG = t.oldG /\ u.oldL = t.oldL
    BY <1>0, <2>1 DEF TaskRecord
  <2>3. t.pc = "lwrite"
    BY <1>8 DEF WriteListener, At
  <2> QED BY <2>2, <2>3
<1>26. CASE ReadBackListener(o)
  <2>1. PICK version, edit, crossed :
            u = [t EXCEPT !.pc = "lapply", !.wroteL = version, !.backL = edit,
                          !.crossed = crossed]
    BY <1>26 DEF ReadBackListener, TasksTyped, TaskRecord
  <2>2. /\ u.pc = "lapply" /\ u.kept = t.kept /\ u.verb = t.verb
        /\ u.oldG = t.oldG /\ u.oldL = t.oldL
    BY <1>0, <2>1 DEF TaskRecord
  <2>3. t.pc = "lread"
    BY <1>26 DEF ReadBackListener, At
  <2> QED BY <2>2, <2>3
<1>e. ASSUME t.pc \in {"lread", "lrestore"}, Unrestored(o) PROVE OK
  <2>1. CASE t.verb = "updateService"
    <3>1. u = [t EXCEPT !.pc = "gback", !.kept = TRUE]
      BY <1>e, <2>1 DEF Unrestored, TasksTyped, TaskRecord
    <3>2. /\ u.pc = "gback" /\ u.kept = TRUE /\ u.verb = t.verb
          /\ u.oldG = t.oldG /\ u.oldL = t.oldL
      BY <1>0, <3>1 DEF TaskRecord
    <3> QED BY <1>e, <2>1, <3>2
  <2>2. CASE t.verb # "updateService"
    BY <1>e, <2>2, <1>a DEF Unrestored
  <2> QED BY <2>1, <2>2
<1>27. CASE LoseListener(o) \/ KeepListener(o)
  BY <1>27, <1>e DEF LoseListener, KeepListener, At
<1>9. CASE RefuseListener(o) \/ RestoreListener(o)
  <2>1. \/ t.pc \in {"lcheck", "lwrite"}
        \/ t.pc = "lrestore" /\ RestoreListener(o) /\ t.verb # "createService"
    BY <1>0, <1>9 DEF RefuseListener, RestoreListener, At, VerbFits
  <2>2. t.verb \in EditsListener
    BY <1>0, <2>1 DEF VerbFits
  <2>3. CASE Go(o, "dcheck") /\ t.verb = "createService"
    BY <2>1, <2>3, <1>b
  <2>4. CASE Go(o, "gback") /\ t.verb = "updateService"
    BY <2>1, <2>4, <1>b
  <2>5. CASE End(o, "undone") /\ t.verb \notin Services
    <3>1. ~GroupStands(t)
      BY <2>1, <2>2, <2>5
    <3>2. u.pc = "undone"
      BY <2>5 DEF End, Idle, TasksTyped
    <3> QED BY <2>1, <3>1, <3>2
  <2>6. CASE Unwritten(o)
    BY <2>3, <2>4, <2>5, <2>6 DEF Unwritten
  <2>7. CASE RestoreListener(o) /\ Unrestored(o)
    BY <2>7, <1>e DEF RestoreListener, At
  <2> QED BY <1>9, <2>6, <2>7 DEF RefuseListener, RestoreListener
<1>10. CASE ApplyListener(o)
  <2>1. t.pc = "lapply" /\ t.verb \in EditsListener
    BY <1>0, <1>10 DEF ApplyListener, At, VerbFits
  <2>2. CASE Go(o, "sync")
    BY <2>1, <2>2, <1>b
  <2>3. CASE Go(o, "dcheck") /\ t.verb = "createService"
    BY <2>1, <2>3, <1>b
  <2>4. CASE Go(o, "lrestore")
    BY <2>1, <2>4, <1>b
  <2>5. CASE End(o, "ok") \/ End(o, "failed")
    BY <2>5, <1>a
  <2> QED BY <1>10, <2>2, <2>3, <2>4, <2>5 DEF ApplyListener
<1>12. CASE CheckFormerGroup(o)
  <2>1. Go(o, "grestore") /\ t.pc = "gback"
    BY <1>12 DEF CheckFormerGroup, At
  <2> QED BY <2>1, <1>b
<1>13. CASE RestoreGroup(o)
  <2>1. CASE Go(o, "greapply") /\ t.pc = "grestore"
    BY <1>13, <2>1, <1>b
  <2>2. CASE End(o, "failed")
    BY <2>2, <1>a
  <2> QED BY <1>13, <2>1, <2>2 DEF RestoreGroup, At
<1>14. CASE ReapplyGroup(o)
  <2>1. t.pc = "greapply" /\ End(o, IF t.kept THEN "failed" ELSE "undone")
    BY <1>14 DEF ReapplyGroup, At
  <2> QED BY <2>1, <1>a
<1>15. CASE Sync(o)
  <2>1. t.pc = "sync"
    BY <1>15 DEF Sync, At
  <2>2. CASE Go(o, "dcheck") /\ t.verb = "createService"
    BY <2>1, <2>2, <1>b
  <2>3. CASE End(o, "ok") \/ End(o, "failed")
    BY <2>3, <1>a
  <2> QED BY <1>15, <2>2, <2>3 DEF Sync
<1>d. ASSUME t.pc \in {"dcheck", "gdelete"}, Undeleted(o) PROVE OK
  <2>1. t.verb \in {"createService", "deleteGroup"}
    BY <1>0, <1>d DEF VerbFits
  <2> QED BY <1>d, <2>1, <1>a DEF Undeleted
<1>16. CASE CheckReferences(o) \/ KeepDeleted(o)
  <2>1. CASE Go(o, "gdelete") /\ t.pc = "dcheck"
    BY <2>1, <1>b
  <2>2. CASE Undeleted(o)
    BY <1>16, <2>2, <1>d DEF CheckReferences, KeepDeleted, At
  <2> QED BY <1>16, <2>1, <2>2 DEF CheckReferences, KeepDeleted, At
<1>17. CASE DeleteGroup(o)
  <2>1. Go(o, "dapply") /\ t.pc = "gdelete"
    BY <1>17 DEF DeleteGroup, At
  <2> QED BY <1>17, <2>1, <1>b
<1>18. CASE DeleteListener(o)
  <2>1. Go(o, "dapply") /\ t.pc = "ldelete" /\ t.verb = "deleteListener"
    BY <1>0, <1>18 DEF DeleteListener, At, VerbFits
  <2> QED BY <2>1, <1>b
<1>19. CASE RefuseDelete(o) \/ Rotate(o) \/ SaveFails(o)
  <2>1. /\ t.pc \in {"ldelete", "rotate", "ssave", "srestore"}
        /\ t.verb \in {"deleteListener", "rotate", "settings"}
    BY <1>0, <1>19 DEF RefuseDelete, Rotate, SaveFails, At, VerbFits
  <2>2. ~GroupStands(t) /\ ~ListenerStands(t)
    BY <2>1
  <2> QED BY <1>19, <2>2, <1>a DEF RefuseDelete, Rotate, SaveFails
<1>20. CASE ApplyDelete(o)
  <2>1. t.pc = "dapply"
    BY <1>20 DEF ApplyDelete, At
  <2>2. ~GroupStands(t) /\ ~ListenerStands(t)
    BY <2>1
  <2> QED BY <1>20, <2>2, <1>a DEF ApplyDelete
<1>21. CASE ReadSettings(o)
  <2>1. u = [t EXCEPT !.pc = "ssave", !.old = settings]
    BY <1>21 DEF ReadSettings, TasksTyped, TaskRecord
  <2>2. /\ u.pc = "ssave" /\ u.kept = t.kept /\ u.oldG = t.oldG /\ u.oldL = t.oldL
    BY <1>0, <2>1 DEF TaskRecord
  <2>3. t.pc = "sread"
    BY <1>21 DEF ReadSettings, At
  <2>4. t.verb = "settings"
    BY <1>0, <2>3 DEF VerbFits
  <2> QED BY <2>2, <2>3, <2>4
<1>22. CASE SaveSettings(o)
  <2>1. \/ Go(o, "sapply") /\ t.pc = "ssave"
        \/ Go(o, "sreapply") /\ t.pc = "srestore"
    BY <1>22 DEF SaveSettings, At
  <2>2. t.verb = "settings"
    BY <1>0, <2>1 DEF VerbFits
  <2> QED BY <2>1, <2>2, <1>b
<1>23. CASE ApplySettings(o)
  <2>1. t.pc \in {"sapply", "sreapply"}
    BY <1>23 DEF ApplySettings, At
  <2>2. t.verb = "settings"
    BY <1>0, <2>1 DEF VerbFits
  <2>3. ~GroupStands(t) /\ ~ListenerStands(t)
    BY <2>1, <2>2
  <2>4. CASE Go(o, "srestore") /\ t.pc = "sapply"
    BY <2>2, <2>4, <1>b
  <2>5. CASE End(o, "ok") \/ End(o, "undone")
    BY <2>3, <2>5, <1>a
  <2> QED BY <1>23, <2>4, <2>5 DEF ApplySettings, At
<1> QED
  BY <1>1, <1>2, <1>3, <1>4, <1>5, <1>6, <1>7, <1>8, <1>9, <1>10, <1>12,
     <1>13, <1>14, <1>15, <1>16, <1>17, <1>18, <1>19, <1>20, <1>21, <1>22, <1>23,
     <1>24, <1>25, <1>26, <1>27
  DEF Step, Submits

\* Whoever made an edit goes on without taking it back, unless this is the
\* step that does.
LEMMA GroupMakerStays ==
    ASSUME Typed, Versions, Traces, Uncrossed(task'),
           NEW o \in Ops, Step(o), NEW edit, NEW g, NEW version,
           GroupMade(task, edit, g, version),
           edit # o \/ (~RestoreGroup(o) /\ ~DeleteGroup(o))
    PROVE  GroupMade(task', edit, g, version)
<1> DEFINE t == task[o]
           u == task'[o]
<1>1. CASE edit \notin Ops
  BY <1>1 DEF GroupMade
<1>2. CASE edit \in Ops /\ edit # o
  <2>1. task'[edit] = task[edit]
    BY <1>2, OwnTask DEF Typed
  <2> QED BY <2>1 DEF GroupMade
<1>3. CASE edit = o
  <2>1. GroupStands(t) /\ (t.pc \in Live => t.g = g /\ t.wrote < version)
    BY <1>3 DEF GroupMade
  <2>2. ~Submits(o)
    BY <2>1, SubmittedSaw DEF GroupStands, GroupWritten, Live
  <2>3. GroupStands(u)
    BY <1>3, <2>1, <2>2, StandsOn DEF Typed, Traces
  <2>4. u.pc \in Live => u.g = g /\ u.wrote < version
    <3>1. SUFFICES ASSUME u.pc \in Live PROVE u.g = g /\ u.wrote < version
      OBVIOUS
    <3>2. Keeps(o, t, u)
      BY <2>2, <3>1, GoesOn DEF Typed, Live
    <3>3. ~WriteGroup(o)
      BY <2>1 DEF WriteGroup, At, GroupStands, GroupWritten
    <3>4. u.wrote = t.wrote
      BY <2>2, <3>1, <3>3, WroteStays DEF Uncrossed
    <3> QED BY <2>1, <3>2, <3>4 DEF Keeps
  <2> QED BY <1>3, <2>3, <2>4 DEF GroupMade
<1> QED BY <1>1, <1>2, <1>3

LEMMA ListenerMakerStays ==
    ASSUME Typed, Versions, Traces, Uncrossed(task'),
           NEW o \in Ops, Step(o), NEW edit, NEW l, NEW group, NEW version,
           ListenerMade(task, edit, l, group, version),
           edit # o \/ (~RestoreListener(o) /\ ~DeleteGroup(o))
    PROVE  ListenerMade(task', edit, l, group, version)
<1> DEFINE t == task[o]
           u == task'[o]
<1>1. CASE edit \notin Ops
  BY <1>1 DEF ListenerMade
<1>2. CASE edit \in Ops /\ edit # o
  <2>1. task'[edit] = task[edit]
    BY <1>2, OwnTask DEF Typed
  <2> QED BY <2>1 DEF ListenerMade
<1>3. CASE edit = o
  <2>1. /\ ListenerStands(t)
        /\ t.pc \in Live => t.l = l /\ t.g = group /\ t.wroteL < version
    BY <1>3 DEF ListenerMade
  <2>2. ~Submits(o)
    BY <2>1, SubmittedSaw DEF ListenerStands
  <2>3. ListenerStands(u)
    BY <1>3, <2>1, <2>2, StandsOn DEF Typed, Traces
  <2>4. u.pc \in Live => u.l = l /\ u.g = group /\ u.wroteL < version
    <3>1. SUFFICES ASSUME u.pc \in Live
                   PROVE  u.l = l /\ u.g = group /\ u.wroteL < version
      OBVIOUS
    <3>2. Keeps(o, t, u)
      BY <2>2, <3>1, GoesOn DEF Typed, Live
    <3>3. ~WriteListener(o)
      BY <2>1 DEF WriteListener, At, ListenerStands
    <3>4. u.wroteL = t.wroteL
      BY <2>2, <3>1, <3>3, WroteStays DEF Uncrossed
    <3> QED BY <2>1, <3>2, <3>4 DEF Keeps
  <2> QED BY <1>3, <2>3, <2>4 DEF ListenerMade
<1> QED BY <1>1, <1>2, <1>3

\* A group that is gone stays gone.
LEMMA GoneStays ==
    ASSUME Typed, Versions, NEW o \in Ops, Step(o), NEW g, Gone(task, groups, g)
    PROVE  Gone(task', groups', g)
<1> DEFINE t == task[o]
           u == task'[o]
<1>0. VerbFits(t)
  BY DEF Typed, TasksTyped
<1>1. g \notin DOMAIN groups'
  <2>1. Grows(o, groups, groups', WriteGroup(o) /\ t.verb \in Creates)
    BY GroupsGrow DEF Versions
  <2>2. WriteGroup(o) /\ t.verb \in Creates => GroupAwaited(t)
    BY DEF WriteGroup, At, GroupAwaited
  <2> QED BY <2>1, <2>2 DEF Grows, Gone
<1>2. CASE g # o
  BY <1>1, <1>2, OwnTask DEF Typed, Gone
<1>3. CASE g = o
  <2>1. ~GroupAwaited(t)
    BY <1>3 DEF Gone
  <2>2. ~Submits(o)
    BY <2>1, SubmittedSaw DEF GroupAwaited
  <2>3. u.pc \in Ended \/ (Keeps(o, t, u) /\ Order(o, t, u))
    BY <2>2, GoesOn DEF Typed
  <2>4. ~GroupAwaited(u)
    BY <1>0, <2>1, <2>3 DEF GroupAwaited, Keeps, Order, Ended, VerbFits, Creates
  <2> QED BY <1>1, <1>3, <2>4 DEF Gone
<1> QED BY <1>2, <1>3

\* A request has one group throughout.
LEMMA PlacedStays ==
    ASSUME Typed, NEW o \in Ops, Step(o), NEW edit, NEW group, Placed(task, edit, group)
    PROVE  Placed(task', edit, group)
<1> DEFINE t == task[o]
           u == task'[o]
<1>1. CASE edit # o
  BY <1>1, OwnTask DEF Typed, Placed
<1>2. CASE edit = o
  <2>1. t.pc # "idle" /\ (t.pc \in Live => t.g = group)
    BY <1>2 DEF Placed
  <2>2. u.pc \in Ended \/ (Keeps(o, t, u) /\ Order(o, t, u))
    BY <2>1, SubmittedSaw, GoesOn DEF Typed
  <2>3. u.pc # "idle" /\ (u.pc \in Live => u.g = group)
    BY <2>1, <2>2 DEF Keeps, Order, Ended, Live
  <2> QED BY <1>2, <2>3 DEF Placed
<1> QED BY <1>1, <1>2

\* What anybody knows of a row stays right.
LEMMA GroupKnownStays ==
    ASSUME Typed, Typed', Versions, NEW o \in Ops, Step(o), NEW p \in Ops,
           GroupSeen(task[p]), NEW version \in Nat, NEW edit,
           StandsFor(groups, task[p].g, version, edit)
    PROVE  StandsFor(groups', task[p].g, version, edit)
<1> DEFINE b == IF WriteGroup(o) /\ task[o].verb \in Creates THEN TRUE ELSE FALSE
<1>1. b \in BOOLEAN /\ Grows(o, groups, groups', b)
  <2>1. Grows(o, groups, groups', WriteGroup(o) /\ task[o].verb \in Creates)
    BY GroupsGrow DEF Versions
  <2> QED BY <2>1 DEF Grows
<1>2. /\ \A g \in DOMAIN groups : groups[g].version \in Nat
      /\ \A g \in DOMAIN groups' : groups'[g].version \in Nat
  BY DEF Typed, RowsTyped, GroupRow
<1>3. task[p].g # o \/ ~b
  BY DEF WriteGroup, At, GroupAwaited, Versions, GroupVersions
<1> HIDE DEF b
<1> QED BY <1>1, <1>2, <1>3, StandsForStays

LEMMA ListenerKnownStays ==
    ASSUME Typed, Typed', Versions, NEW o \in Ops, Step(o), NEW p \in Ops,
           ListenerSeen(task[p]), NEW version \in Nat, NEW edit,
           StandsFor(listeners, task[p].l, version, edit)
    PROVE  StandsFor(listeners', task[p].l, version, edit)
<1> DEFINE b == IF WriteListener(o) /\ task[o].verb \in Creates THEN TRUE ELSE FALSE
<1>0. VerbFits(task[o])
  BY DEF Typed, TasksTyped
<1>1. b \in BOOLEAN /\ Grows(o, listeners, listeners', b)
  <2>1. Grows(o, listeners, listeners', WriteListener(o) /\ task[o].verb \in Creates)
    BY ListenersGrow DEF Versions
  <2> QED BY <2>1 DEF Grows
<1>2. /\ \A l \in DOMAIN listeners : listeners[l].version \in Nat
      /\ \A l \in DOMAIN listeners' : listeners'[l].version \in Nat
  BY DEF Typed, RowsTyped, ListenerRow
<1>3. task[p].l # o \/ ~b
  BY <1>0 DEF WriteListener, At, VerbFits, EditsListener, MakesListener, Creates,
     ListenerAwaited, Versions, ListenerVersions
<1> HIDE DEF b
<1> QED BY <1>1, <1>2, <1>3, StandsForStays

\* Who made the edits of the groups, after a step.
LEMMA GroupTracesStep ==
    ASSUME Typed, Typed', Versions, Traces, Uncrossed(task'), NEW o \in Ops, Step(o)
    PROVE  \A g \in DOMAIN groups' :
               GroupMade(task', groups'[g].edit, g, groups'[g].version + 1)
<1> DEFINE t == task[o]
           u == task'[o]
<1>0. t \in TaskRecord /\ VerbFits(t) /\ RowsFit(o, t) /\ u \in TaskRecord
  BY DEF Typed, TasksTyped
<1>1. \A g \in DOMAIN groups : GroupMade(task, groups[g].edit, g, groups[g].version + 1)
  BY DEF Traces, GroupTraces
<1>2. SUFFICES ASSUME NEW g \in DOMAIN groups'
               PROVE  GroupMade(task', groups'[g].edit, g, groups'[g].version + 1)
  OBVIOUS
<1>3. CASE WriteGroup(o)
  <2> DEFINE version == IF t.verb \in Creates THEN 1 ELSE t.sawG.version + 1
             row == [edit |-> o, refs |-> t.refs, version |-> version]
  <2>1. groups' = Put(groups, t.g, row)
    BY <1>3 DEF WriteGroup
  <2> DEFINE next == IF t.verb \in Creates THEN "gapply" ELSE "gread"
  <2>2. u = [t EXCEPT !.pc = next, !.wrote = version, !.backG = o]
    BY <1>0, <1>3 DEF WriteGroup, Typed, TasksTyped, TaskRecord
  <2>3. row.edit = o /\ row.version = version
    OBVIOUS
  <2> HIDE DEF row, version
  <2>4. u.pc \in {"gapply", "gread"} /\ u.wrote = version /\ u.g = t.g /\ u.verb = t.verb
    BY <1>0, <2>2 DEF TaskRecord
  <2>5. CASE g = t.g
    <3>1. groups'[g].edit = o /\ groups'[g].version = u.wrote
      BY <2>1, <2>3, <2>4, <2>5 DEF Put
    <3>2. u.wrote \in Nat
      BY <1>0 DEF TaskRecord
    <3>3. GroupStands(u)
      BY <1>0, <1>3, <2>4 DEF WriteGroup, At, VerbFits, GroupStands, GroupWritten, Live,
         Steps, Ended
    <3> QED BY <2>4, <2>5, <3>1, <3>2, <3>3 DEF GroupMade
  <2>6. CASE g # t.g
    <3>1. g \in DOMAIN groups /\ groups'[g] = groups[g]
      BY <2>1, <2>6 DEF Put
    <3>2. ~RestoreGroup(o) /\ ~DeleteGroup(o)
      BY <1>3 DEF WriteGroup, RestoreGroup, DeleteGroup, At
    <3> QED BY <1>1, <3>1, <3>2, GroupMakerStays
  <2> QED BY <2>5, <2>6
<1>4. CASE RestoreGroup(o)
  <2> DEFINE row == [t.oldG EXCEPT !.version = t.wrote + 1]
  <2>1. /\ t.pc = "grestore" /\ t.pc \in Live /\ t.verb = "updateService"
        /\ t.oldG \in GroupRow /\ t.wrote \in Nat /\ GroupWritten(t)
    BY <1>0, <1>4 DEF RestoreGroup, At, VerbFits, RowsFit, TaskRecord, GroupWritten,
       EditsGroup, Live, Steps, Ended
  <2>2. row.edit = t.oldG.edit /\ row.version = t.wrote + 1
    BY <2>1 DEF GroupRow
  <2>3. groups' = [groups EXCEPT ![t.g] = row]
    BY <1>4 DEF RestoreGroup
  <2> HIDE DEF row
  <2>4. CASE g = t.g
    <3>1. GroupMade(task, t.oldG.edit, t.g, t.wrote)
      BY <2>1 DEF Traces, GroupBacked
    <3>2. t.oldG.edit # o
      BY <2>1, <3>1 DEF GroupMade
    <3>3. GroupMade(task', t.oldG.edit, t.g, t.wrote)
      BY <3>1, <3>2, GroupMakerStays
    <3>4. g \in DOMAIN groups /\ groups'[g] = row
      BY <2>3, <2>4
    <3>5. \A e \in Ops : task'[e].wrote \in Nat
      BY DEF Typed, TasksTyped, TaskRecord
    <3> QED BY <2>1, <2>2, <2>4, <3>3, <3>4, <3>5 DEF GroupMade
  <2>5. CASE g # t.g
    <3>1. g \in DOMAIN groups /\ groups'[g] = groups[g]
      BY <2>3, <2>5
    <3>2. groups[g].edit # o
      BY <1>1, <2>1, <2>5, <3>1 DEF GroupMade
    <3> QED BY <1>1, <3>1, <3>2, GroupMakerStays
  <2> QED BY <2>4, <2>5
<1>5. CASE DeleteGroup(o)
  <2>1. g \in DOMAIN groups /\ g # t.g /\ groups'[g] = groups[g]
    BY <1>5 DEF DeleteGroup, Drop
  <2>2. t.pc \in Live
    BY <1>5 DEF DeleteGroup, At, Live, Steps, Ended
  <2>3. groups[g].edit # o
    BY <1>1, <2>1, <2>2 DEF GroupMade
  <2> QED BY <1>1, <2>1, <2>3, GroupMakerStays
<1>6. CASE ~WriteGroup(o) /\ ~RestoreGroup(o) /\ ~DeleteGroup(o)
  <2>1. groups' = groups
    BY <1>6, RowsChange DEF WriteListener, RestoreListener, DeleteListener, Rotate
  <2> QED BY <1>1, <1>6, <2>1, GroupMakerStays
<1> QED BY <1>3, <1>4, <1>5, <1>6

\* Who made the edits of the listeners, after a step.
LEMMA ListenerTracesStep ==
    ASSUME Typed, Typed', Versions, Traces, Uncrossed(task'), NEW o \in Ops, Step(o)
    PROVE  \A l \in DOMAIN listeners' :
               ListenerMade(task', listeners'[l].edit, l, listeners'[l].group,
                            listeners'[l].version + 1)
<1> DEFINE t == task[o]
           u == task'[o]
<1>0. t \in TaskRecord /\ VerbFits(t) /\ RowsFit(o, t) /\ u \in TaskRecord
  BY DEF Typed, TasksTyped
<1>1. \A l \in DOMAIN listeners :
          ListenerMade(task, listeners[l].edit, l, listeners[l].group,
                       listeners[l].version + 1)
  BY DEF Traces, ListenerTraces
<1>2. SUFFICES ASSUME NEW l \in DOMAIN listeners'
               PROVE  ListenerMade(task', listeners'[l].edit, l, listeners'[l].group,
                                   listeners'[l].version + 1)
  OBVIOUS
<1>3. CASE WriteListener(o)
  <2> DEFINE version == IF t.verb \in Creates THEN 1 ELSE t.sawL.version + 1
             row == [edit |-> o, group |-> t.g, version |-> version]
  <2>1. listeners' = Put(listeners, t.l, row)
    BY <1>3 DEF WriteListener
  <2> DEFINE next == IF t.verb \in Creates THEN "lapply" ELSE "lread"
  <2>2. u = [t EXCEPT !.pc = next, !.wroteL = version, !.backL = o]
    BY <1>0, <1>3 DEF WriteListener, Typed, TasksTyped, TaskRecord
  <2>3. row.edit = o /\ row.group = t.g /\ row.version = version
    OBVIOUS
  <2> HIDE DEF row, version
  <2>4. u.pc \in {"lapply", "lread"} /\ u.wroteL = version /\ u.g = t.g /\ u.l = t.l
    BY <1>0, <2>2 DEF TaskRecord
  <2>5. CASE l = t.l
    <3>1. /\ listeners'[l].edit = o /\ listeners'[l].group = u.g
          /\ listeners'[l].version = u.wroteL
      BY <2>1, <2>3, <2>4, <2>5 DEF Put
    <3>2. u.wroteL \in Nat
      BY <1>0 DEF TaskRecord
    <3> QED BY <2>4, <2>5, <3>1, <3>2 DEF ListenerMade, ListenerStands
  <2>6. CASE l # t.l
    <3>1. l \in DOMAIN listeners /\ listeners'[l] = listeners[l]
      BY <2>1, <2>6 DEF Put
    <3>2. ~RestoreListener(o) /\ ~DeleteGroup(o)
      BY <1>3 DEF WriteListener, RestoreListener, DeleteGroup, At
    <3> QED BY <1>1, <3>1, <3>2, ListenerMakerStays
  <2> QED BY <2>5, <2>6
<1>4. CASE RestoreListener(o)
  <2> DEFINE row == [t.oldL EXCEPT !.version = t.wroteL + 1]
  <2>1. /\ t.pc = "lrestore" /\ t.pc \in Live /\ t.verb \in FindsListener
        /\ t.oldL \in ListenerRow /\ t.wroteL \in Nat /\ ListenerWritten(t)
    BY <1>0, <1>4 DEF RestoreListener, At, VerbFits, RowsFit, TaskRecord,
       ListenerWritten, FindsListener, Live, Steps, Ended
  <2>2. /\ row.edit = t.oldL.edit /\ row.group = t.oldL.group
        /\ row.version = t.wroteL + 1
    BY <2>1 DEF ListenerRow
  <2>3. listeners' = [listeners EXCEPT ![t.l] = row] /\ t.oldL.group \in DOMAIN groups
    BY <1>4 DEF RestoreListener
  <2> HIDE DEF row
  <2>4. CASE l = t.l
    <3>1. ListenerMade(task, t.oldL.edit, t.l, t.oldL.group, t.wroteL)
      BY <2>1, <2>3 DEF Traces, ListenerBacked, Gone
    <3>2. t.oldL.edit # o
      BY <2>1, <3>1 DEF ListenerMade
    <3>3. ListenerMade(task', t.oldL.edit, t.l, t.oldL.group, t.wroteL)
      BY <3>1, <3>2, ListenerMakerStays
    <3>4. l \in DOMAIN listeners /\ listeners'[l] = row
      BY <2>3, <2>4
    <3>5. \A e \in Ops : task'[e].wroteL \in Nat
      BY DEF Typed, TasksTyped, TaskRecord
    <3> QED BY <2>1, <2>2, <2>4, <3>3, <3>4, <3>5 DEF ListenerMade
  <2>5. CASE l # t.l
    <3>1. l \in DOMAIN listeners /\ listeners'[l] = listeners[l]
      BY <2>3, <2>5
    <3>2. listeners[l].edit # o
      BY <1>1, <2>1, <2>5, <3>1 DEF ListenerMade
    <3> QED BY <1>1, <3>1, <3>2, ListenerMakerStays
  <2> QED BY <2>4, <2>5
<1>5. CASE DeleteGroup(o)
  <2>1. listeners' = listeners /\ listeners[l].group # t.g
    BY <1>5 DEF DeleteGroup, Deletable
  <2>2. t.pc \in Live
    BY <1>5 DEF DeleteGroup, At, Live, Steps, Ended
  <2>3. listeners[l].edit # o
    BY <1>1, <2>1, <2>2 DEF ListenerMade
  <2> QED BY <1>1, <2>1, <2>3, ListenerMakerStays
<1>6. CASE DeleteListener(o) \/ Rotate(o)
  <2>1. ~RestoreListener(o) /\ ~DeleteGroup(o)
    BY <1>6 DEF DeleteListener, Rotate, RestoreListener, DeleteGroup, At
  <2>2. /\ l \in DOMAIN listeners /\ listeners[l] \in ListenerRow
        /\ listeners'[l].edit = listeners[l].edit
        /\ listeners'[l].group = listeners[l].group
        /\ listeners'[l].version >= listeners[l].version
        /\ listeners'[l].version \in Nat
    BY <1>6 DEF DeleteListener, Drop, Rotate, Typed, RowsTyped, ListenerRow
  <2>3. ListenerMade(task', listeners[l].edit, l, listeners[l].group,
                     listeners[l].version + 1)
    BY <1>1, <2>1, <2>2, ListenerMakerStays
  <2>4. \A e \in Ops : task'[e].wroteL \in Nat
    BY DEF Typed, TasksTyped, TaskRecord
  <2>5. listeners[l].version \in Nat
    BY <2>2 DEF ListenerRow
  <2> QED BY <2>2, <2>3, <2>4, <2>5 DEF ListenerMade
<1>7. CASE ~ \/ WriteListener(o) \/ RestoreListener(o) \/ DeleteGroup(o)
             \/ DeleteListener(o) \/ Rotate(o)
  <2>1. listeners' = listeners
    BY <1>7, RowsChange DEF WriteGroup, RestoreGroup, DeleteGroup
  <2> QED BY <1>1, <1>7, <2>1, ListenerMakerStays
<1> QED BY <1>3, <1>4, <1>5, <1>6, <1>7

\* The group a request would put back, after a step.
LEMMA GroupBackedStep ==
    ASSUME Typed, Typed', Versions, Own, Traces, Uncrossed(task'),
           NEW o \in Ops, Step(o), NEW p \in Ops
    PROVE  GroupBacked(p)'
<1> DEFINE t == task[o]
           u == task'[o]
           r == task'[p]
<1>0. /\ t \in TaskRecord /\ VerbFits(t) /\ RowsFit(o, t)
      /\ u \in TaskRecord /\ RowsFit(o, u)
  BY DEF Typed, TasksTyped, RowsFit
<1>1. /\ task[p] \in TaskRecord /\ RowsFit(p, task[p]) /\ GroupBacked(p)
      /\ GroupVersions(p) /\ GroupBacked(o) /\ GroupVersions(o)
  BY DEF Typed, TasksTyped, Traces, Versions
<1>2. p # o => r = task[p]
  BY OwnTask DEF Typed
<1>3. ~Submits(o) => u.pc \in Ended \/ (Keeps(o, t, u) /\ Order(o, t, u))
  BY GoesOn DEF Typed
<1>4. ~Submits(o) /\ u.pc \in Live =>
          ReadOriginal(o) \/ (u.oldG = t.oldG /\ t.pc # "oread")
  BY StandsOn DEF Typed, Traces
<1>5. Submits(o) => t.pc = "idle" /\ Saw(u) /\ u.oldG = None
  BY SubmittedSaw, SubmittedFresh DEF Typed
<1>6. ASSUME r.verb = "updateService", r.pc \in {"gcheck", "gwrite"}
      PROVE  /\ r.sawG.version <= r.oldG.version
             /\ StandsFor(groups', r.g, r.oldG.version, r.oldG.edit)
  <2>1. CASE p # o
    <3>1. GroupSeen(task[p]) /\ task[p].oldG \in GroupRow
      BY <1>1, <1>2, <1>6, <2>1 DEF GroupSeen, SeesGroup, RowsFit, Live, Steps, Ended
    <3>2. /\ task[p].sawG.version <= task[p].oldG.version
          /\ StandsFor(groups, task[p].g, task[p].oldG.version, task[p].oldG.edit)
      BY <1>1, <1>2, <1>6, <2>1 DEF GroupBacked
    <3>3. task[p].oldG.version \in Nat
      BY <3>1 DEF GroupRow
    <3>4. StandsFor(groups', task[p].g, task[p].oldG.version, task[p].oldG.edit)
      BY <3>1, <3>2, <3>3, GroupKnownStays
    <3> QED BY <1>2, <2>1, <3>2, <3>4
  <2>2. CASE p = o
    <3>1. u.oldG # None
      BY <1>0, <1>6, <2>2, NoRowAssumption DEF RowsFit, Live, Steps, Ended
    <3>2. Keeps(o, t, u) /\ t.pc \in {"oread", "gcheck"}
      BY <1>3, <1>5, <1>6, <2>2, <3>1 DEF Order, Ended
    <3>3. GroupSeen(t) /\ t.verb = "updateService" /\ t.sawG \in GroupRow
      BY <1>0, <1>6, <2>2, <3>2 DEF Keeps, GroupSeen, SeesGroup, RowsFit
    <3>4. CASE ReadOriginal(o)
      <4>1. t.pc = "oread" /\ groups' = groups
        BY <3>4 DEF ReadOriginal, At, database
      <4>2. t.g \in DOMAIN groups
        BY <1>6, <2>2, <3>4 DEF ReadOriginal, End, Idle, Typed, TasksTyped
      <4>3. u = [t EXCEPT !.pc = "gcheck", !.oldG = groups[t.g]]
        BY <3>4, <4>2 DEF ReadOriginal, Typed, TasksTyped, TaskRecord
      <4>4. u.oldG = groups[t.g]
        BY <1>0, <4>3 DEF TaskRecord
      <4>5. groups[t.g].version >= t.sawG.version
        BY <1>1, <3>3, <4>2 DEF GroupVersions, StandsFor
      <4>6. groups[t.g] \in GroupRow
        BY <4>2 DEF Typed, RowsTyped
      <4>7. groups[t.g].version \in Nat /\ t.sawG.version \in Nat
        BY <3>3, <4>6 DEF GroupRow
      <4> QED BY <2>2, <3>2, <4>1, <4>2, <4>4, <4>5, <4>7 DEF Keeps, StandsFor
    <3>5. CASE ~ReadOriginal(o)
      <4>1. u.oldG = t.oldG /\ t.pc = "gcheck"
        BY <1>4, <1>5, <1>6, <2>2, <3>1, <3>2, <3>5 DEF Live, Steps, Ended
      <4>2. /\ t.sawG.version <= t.oldG.version
            /\ StandsFor(groups, t.g, t.oldG.version, t.oldG.edit)
        BY <1>1, <3>3, <4>1 DEF GroupBacked
      <4>3. t.oldG \in GroupRow
        BY <1>0, <3>3, <4>1 DEF RowsFit, Live, Steps, Ended
      <4>4. t.oldG.version \in Nat
        BY <4>3 DEF GroupRow
      <4>5. StandsFor(groups', t.g, t.oldG.version, t.oldG.edit)
        BY <3>3, <4>2, <4>4, GroupKnownStays
      <4> QED BY <2>2, <3>2, <4>1, <4>2, <4>5 DEF Keeps
    <3> QED BY <3>4, <3>5
  <2> QED BY <2>1, <2>2
<1>7. ASSUME r.verb = "updateService", GroupWritten(r)
      PROVE  GroupMade(task', r.oldG.edit, r.g, r.wrote)
  <2>1. CASE p # o
    <3> DEFINE q == task[p]
    <3>1. GroupMade(task, q.oldG.edit, q.g, q.wrote) /\ StandsFor(groups, q.g, q.wrote, p)
      BY <1>1, <1>2, <1>7, <2>1 DEF GroupBacked, GroupVersions, Own, OwnReadBack, Uncrossed
    <3>2. CASE q.oldG.edit = o /\ (RestoreGroup(o) \/ DeleteGroup(o))
      <4>1. t.pc \in {"grestore", "gdelete"} /\ t.pc \in Live
        BY <3>2 DEF RestoreGroup, DeleteGroup, At, Live, Steps, Ended
      <4>2. GroupStands(t) /\ t.g = q.g /\ t.wrote < q.wrote
        BY <3>1, <3>2, <4>1 DEF GroupMade
      <4>3. t.verb \in EditsGroup
        BY <4>1, <4>2 DEF GroupStands, GroupWritten
      <4>4. t.pc = "gdelete" => t.verb = "createService"
        BY <1>0, <4>3 DEF VerbFits, EditsGroup
      <4>5. Matches(groups, t.g, t.wrote)
        BY <3>2, <4>4 DEF RestoreGroup, DeleteGroup, Deletable, At
      <4>6. t.wrote \in Nat /\ q.wrote \in Nat
        BY <1>0, <1>1 DEF TaskRecord
      <4>7. FALSE
        BY <3>1, <4>2, <4>5, <4>6 DEF StandsFor, Matches
      <4> QED BY <4>7
    <3>3. CASE q.oldG.edit # o \/ (~RestoreGroup(o) /\ ~DeleteGroup(o))
      BY <1>2, <2>1, <3>1, <3>3, GroupMakerStays
    <3> QED BY <3>2, <3>3
  <2>2. CASE p = o
    <3>1. Keeps(o, t, u) /\ Order(o, t, u) /\ u.pc \in Live
      BY <1>3, <1>5, <1>7, <2>2 DEF Saw, GroupWritten, Live
    <3>2. /\ u.pc \notin {"oread", "gcheck", "gwrite"}
          /\ t.verb = "updateService" /\ t.pc \in Live /\ t.pc # "idle"
      BY <1>7, <2>2, <3>1 DEF GroupWritten, Keeps, Live
    <3>3. u.oldG = t.oldG /\ t.pc # "oread"
      BY <1>4, <1>5, <3>1, <3>2 DEF ReadOriginal, WriteGroup, At, Order
    <3>4. t.oldG \in GroupRow
      BY <1>0, <3>2, <3>3 DEF RowsFit
    <3>5. CASE WriteGroup(o)
      <4>1. t.pc = "gwrite" /\ t.verb \notin Creates
        BY <3>2, <3>5 DEF WriteGroup, At, Creates
      <4>2. t.g \in DOMAIN groups /\ groups[t.g].version = t.sawG.version
        BY <3>5, <4>1 DEF WriteGroup, Matches
      <4>3. /\ t.sawG.version <= t.oldG.version
            /\ StandsFor(groups, t.g, t.oldG.version, t.oldG.edit)
        BY <1>1, <3>2, <4>1 DEF GroupBacked
      <4>4. t.sawG \in GroupRow
        BY <1>0, <3>2 DEF RowsFit
      <4>5. t.sawG.version \in Nat /\ t.oldG.version \in Nat
        BY <3>4, <4>4 DEF GroupRow
      <4>6. groups[t.g].edit = t.oldG.edit
        BY <4>2, <4>3, <4>5 DEF StandsFor
      <4>7. GroupMade(task, t.oldG.edit, t.g, t.sawG.version + 1)
        BY <4>2, <4>6 DEF Traces, GroupTraces
      <4>8. ~GroupStands(t)
        BY <4>1 DEF GroupStands, GroupWritten
      <4>9. t.oldG.edit # o
        BY <4>7, <4>8 DEF GroupMade
      <4>10. GroupMade(task', t.oldG.edit, t.g, t.sawG.version + 1)
        BY <4>7, <4>9, GroupMakerStays
      <4>11. u.wrote = t.sawG.version + 1
        <5>1. u = [t EXCEPT !.pc = "gread", !.wrote = t.sawG.version + 1, !.backG = o]
          BY <1>0, <3>5, <4>1 DEF WriteGroup, Typed, TasksTyped, TaskRecord
        <5> QED BY <1>0, <5>1 DEF TaskRecord
      <4> QED BY <2>2, <3>1, <3>3, <4>10, <4>11 DEF Keeps
    <3>6. CASE ~WriteGroup(o)
      <4>1. GroupWritten(t)
        BY <3>1, <3>2, <3>6 DEF Order, GroupWritten, EditsGroup
      <4>2. GroupMade(task, t.oldG.edit, t.g, t.wrote)
        BY <1>1, <3>2, <4>1 DEF GroupBacked
      <4>3. t.wrote \in Nat
        BY <1>0 DEF TaskRecord
      <4>4. t.oldG.edit # o
        BY <3>2, <4>2, <4>3 DEF GroupMade
      <4>5. GroupMade(task', t.oldG.edit, t.g, t.wrote)
        BY <4>2, <4>4, GroupMakerStays
      <4>6. ~Submits(o)
        BY <1>5, <3>1 DEF Keeps, Live
      <4>7. u.wrote = t.wrote
        BY <3>1, <3>6, <4>6, WroteStays DEF Uncrossed
      <4> QED BY <2>2, <3>1, <3>3, <4>5, <4>7 DEF Keeps
    <3> QED BY <3>5, <3>6
  <2> QED BY <2>1, <2>2
<1> QED BY <1>6, <1>7 DEF GroupBacked, StandsFor

\* The listener a request would put back, after a step.
LEMMA ListenerBackedStep ==
    ASSUME Typed, Typed', Versions, Own, Traces, Uncrossed(task'),
           NEW o \in Ops, Step(o), NEW p \in Ops
    PROVE  ListenerBacked(p)'
<1> DEFINE t == task[o]
           u == task'[o]
           r == task'[p]
<1>0. /\ t \in TaskRecord /\ VerbFits(t) /\ RowsFit(o, t)
      /\ u \in TaskRecord /\ VerbFits(u) /\ RowsFit(o, u)
  BY DEF Typed, TasksTyped, RowsFit, VerbFits
<1>1. /\ task[p] \in TaskRecord /\ RowsFit(p, task[p]) /\ ListenerBacked(p)
      /\ ListenerVersions(p) /\ ListenerBacked(o) /\ ListenerVersions(o)
  BY DEF Typed, TasksTyped, Traces, Versions
<1>2. p # o => r = task[p]
  BY OwnTask DEF Typed
<1>3. ~Submits(o) => u.pc \in Ended \/ (Keeps(o, t, u) /\ Order(o, t, u))
  BY GoesOn DEF Typed
<1>4. ~Submits(o) /\ u.pc \in Live =>
          CheckListener(o) \/ (u.oldL = t.oldL /\ u.pc # "lwrite")
  BY StandsOn DEF Typed, Traces
<1>5. Submits(o) => t.pc = "idle" /\ Saw(u)
  BY SubmittedSaw DEF Typed
<1>6. ASSUME r.verb \in FindsListener, r.pc = "lwrite"
      PROVE  /\ r.sawL.version <= r.oldL.version
             /\ StandsFor(listeners', r.l, r.oldL.version, r.oldL.edit)
             /\ Placed(task', r.oldL.edit, r.oldL.group)
  <2>1. CASE p # o
    <3>1. ListenerSeen(task[p]) /\ task[p].oldL \in ListenerRow
      BY <1>1, <1>2, <1>6, <2>1 DEF ListenerSeen, RowsFit, Live, Steps, Ended
    <3>2. /\ task[p].sawL.version <= task[p].oldL.version
          /\ StandsFor(listeners, task[p].l, task[p].oldL.version, task[p].oldL.edit)
          /\ Placed(task, task[p].oldL.edit, task[p].oldL.group)
      BY <1>1, <1>2, <1>6, <2>1 DEF ListenerBacked
    <3>3. task[p].oldL.version \in Nat
      BY <3>1 DEF ListenerRow
    <3>4. StandsFor(listeners', task[p].l, task[p].oldL.version, task[p].oldL.edit)
      BY <3>1, <3>2, <3>3, ListenerKnownStays
    <3>5. Placed(task', task[p].oldL.edit, task[p].oldL.group)
      BY <3>2, PlacedStays
    <3> QED BY <1>2, <2>1, <3>2, <3>4, <3>5
  <2>2. CASE p = o
    <3>1. u.pc \in Live /\ ~Submits(o)
      BY <1>5, <1>6, <2>2 DEF Saw, Live, Steps, Ended
    <3>2. CheckListener(o) /\ Keeps(o, t, u)
      BY <1>3, <1>4, <1>6, <2>2, <3>1 DEF Live
    <3>3. t.pc = "lcheck" /\ listeners' = listeners
      BY <3>2 DEF CheckListener, At, database
    <3>4. t.verb \in FindsListener /\ t.verb \notin Creates
      BY <1>6, <2>2, <3>2 DEF Keeps, FindsListener, Creates
    <3>5. t.l \in DOMAIN listeners
      BY <3>2, <3>4 DEF CheckListener
    <3>6. u = [t EXCEPT !.pc = "lwrite", !.oldL = listeners[t.l]]
      BY <1>0, <3>2, <3>4 DEF CheckListener, Typed, TasksTyped, TaskRecord
    <3>7. u.oldL = listeners[t.l]
      BY <1>0, <3>6 DEF TaskRecord
    <3>8. ListenerSeen(t) /\ t.sawL \in ListenerRow
      BY <1>0, <3>2, <3>4 DEF Keeps, ListenerSeen, RowsFit
    <3>9. listeners[t.l].version >= t.sawL.version
      BY <1>1, <3>5, <3>8 DEF ListenerVersions, StandsFor
    <3>10. listeners[t.l] \in ListenerRow
      BY <3>5 DEF Typed, RowsTyped
    <3>11. listeners[t.l].version \in Nat /\ t.sawL.version \in Nat
      BY <3>8, <3>10 DEF ListenerRow
    <3>12. Placed(task, listeners[t.l].edit, listeners[t.l].group)
      BY <3>5 DEF Traces, ListenerTraces, ListenerMade, Placed, ListenerStands
    <3>13. Placed(task', listeners[t.l].edit, listeners[t.l].group)
      BY <3>12, PlacedStays
    <3> QED BY <2>2, <3>2, <3>3, <3>5, <3>7, <3>9, <3>11, <3>13 DEF Keeps, StandsFor
  <2> QED BY <2>1, <2>2
<1>7. ASSUME r.verb \in FindsListener, ListenerWritten(r)
      PROVE  \/ ListenerMade(task', r.oldL.edit, r.l, r.oldL.group, r.wroteL)
             \/ Gone(task', groups', r.oldL.group)
  <2>1. CASE p # o
    <3> DEFINE q == task[p]
    <3>1. /\ \/ ListenerMade(task, q.oldL.edit, q.l, q.oldL.group, q.wroteL)
             \/ Gone(task, groups, q.oldL.group)
          /\ StandsFor(listeners, q.l, q.wroteL, p)
      BY <1>1, <1>2, <1>7, <2>1 DEF ListenerBacked, ListenerVersions, Own, OwnReadBack,
         Uncrossed
    <3>2. CASE Gone(task, groups, q.oldL.group)
      BY <1>2, <2>1, <3>2, GoneStays
    <3>3. CASE ListenerMade(task, q.oldL.edit, q.l, q.oldL.group, q.wroteL)
      <4>1. CASE q.oldL.edit = o /\ RestoreListener(o)
        <5>1. t.pc \in Live
          BY <4>1 DEF RestoreListener, At, Live, Steps, Ended
        <5>2. t.l = q.l /\ t.wroteL < q.wroteL
          BY <3>3, <4>1, <5>1 DEF ListenerMade
        <5>3. t.l \in DOMAIN listeners /\ listeners[t.l].version = t.wroteL
          BY <4>1 DEF RestoreListener, Matches
        <5>4. t.wroteL \in Nat /\ q.wroteL \in Nat
          BY <1>0, <1>1 DEF TaskRecord
        <5>5. FALSE
          BY <3>1, <5>2, <5>3, <5>4 DEF StandsFor
        <5> QED BY <5>5
      <4>2. CASE q.oldL.edit = o /\ DeleteGroup(o)
        <5>1. t.pc = "gdelete" /\ t.pc \in Live
          BY <4>2 DEF DeleteGroup, At, Live, Steps, Ended
        <5>2. ListenerStands(t) /\ t.g = q.oldL.group
          BY <3>3, <4>2, <5>1 DEF ListenerMade
        <5>3. t.verb = "createService"
          BY <5>1, <5>2 DEF ListenerStands
        <5>4. t.g = o
          BY <1>0, <5>1, <5>3 DEF RowsFit
        <5>5. o \notin DOMAIN groups'
          BY <4>2, <5>4 DEF DeleteGroup, Drop
        <5>6. u.pc = "dapply"
          BY <4>2 DEF DeleteGroup, Go, Typed, TasksTyped, TaskRecord
        <5>7. Gone(task', groups', o)
          BY <5>5, <5>6 DEF Gone, GroupAwaited
        <5> QED BY <1>2, <2>1, <5>2, <5>4, <5>7
      <4>3. CASE q.oldL.edit # o \/ (~RestoreListener(o) /\ ~DeleteGroup(o))
        BY <1>2, <2>1, <3>3, <4>3, ListenerMakerStays
      <4> QED BY <4>1, <4>2, <4>3
    <3> QED BY <3>1, <3>2, <3>3
  <2>2. CASE p = o
    <3>1. u.pc \in {"lread", "lapply", "lrestore"} /\ u.pc \in Live
      BY <1>7, <2>2 DEF ListenerWritten, Live, Steps, Ended
    <3>2. Keeps(o, t, u) /\ Order(o, t, u) /\ ~Submits(o)
      BY <1>3, <1>5, <3>1 DEF Saw, Ended
    <3>3. /\ t.verb \in FindsListener
          /\ WriteListener(o) \/ t.pc \in {"lread", "lapply"}
      BY <1>7, <2>2, <3>1, <3>2 DEF Keeps, Order
    <3>4. u.oldL = t.oldL
      BY <1>4, <3>1, <3>2, <3>3 DEF CheckListener, WriteListener, At
    <3>5. CASE WriteListener(o)
      <4>1. t.pc = "lwrite" /\ t.verb \notin Creates
        BY <3>3, <3>5 DEF WriteListener, At, Creates, FindsListener
      <4>2. t.l \in DOMAIN listeners /\ listeners[t.l].version = t.sawL.version
        BY <3>5, <4>1 DEF WriteListener, Matches
      <4>3. /\ t.sawL.version <= t.oldL.version
            /\ StandsFor(listeners, t.l, t.oldL.version, t.oldL.edit)
            /\ Placed(task, t.oldL.edit, t.oldL.group)
        BY <1>1, <3>3, <4>1 DEF ListenerBacked
      <4>4. t.sawL \in ListenerRow /\ t.oldL \in ListenerRow
        BY <1>0, <3>3, <4>1 DEF RowsFit, Live, Steps, Ended
      <4>5. t.sawL.version \in Nat /\ t.oldL.version \in Nat
        BY <4>4 DEF ListenerRow
      <4>6. listeners[t.l].edit = t.oldL.edit
        BY <4>2, <4>3, <4>5 DEF StandsFor
      <4>7. ListenerMade(task, t.oldL.edit, t.l, listeners[t.l].group, t.sawL.version + 1)
        BY <4>2, <4>6 DEF Traces, ListenerTraces
      <4>8. ListenerMade(task, t.oldL.edit, t.l, t.oldL.group, t.sawL.version + 1)
        BY <4>3, <4>7 DEF ListenerMade, Placed
      <4>9. ~ListenerStands(t)
        BY <4>1 DEF ListenerStands
      <4>10. t.oldL.edit # o
        BY <4>8, <4>9 DEF ListenerMade
      <4>11. ListenerMade(task', t.oldL.edit, t.l, t.oldL.group, t.sawL.version + 1)
        BY <4>8, <4>10, ListenerMakerStays
      <4>12. u.wroteL = t.sawL.version + 1
        <5>1. u = [t EXCEPT !.pc = "lread", !.wroteL = t.sawL.version + 1, !.backL = o]
          BY <1>0, <3>5, <4>1 DEF WriteListener, Typed, TasksTyped, TaskRecord
        <5> QED BY <1>0, <5>1 DEF TaskRecord
      <4> QED BY <2>2, <3>2, <3>4, <4>11, <4>12 DEF Keeps
    <3>6. CASE ~WriteListener(o)
      <4>1. ListenerWritten(t) /\ t.pc \in Live
        BY <3>3, <3>6 DEF ListenerWritten, Live, Steps, Ended
      <4>2. u.wroteL = t.wroteL /\ u.l = t.l
        BY <3>1, <3>2, <3>6, WroteStays DEF Keeps, Uncrossed
      <4>3. CASE Gone(task, groups, t.oldL.group)
        BY <2>2, <3>4, <4>3, GoneStays
      <4>4. CASE ListenerMade(task, t.oldL.edit, t.l, t.oldL.group, t.wroteL)
        <5>1. t.wroteL \in Nat
          BY <1>0 DEF TaskRecord
        <5>2. t.oldL.edit # o
          BY <4>1, <4>4, <5>1 DEF ListenerMade
        <5>3. ListenerMade(task', t.oldL.edit, t.l, t.oldL.group, t.wroteL)
          BY <4>4, <5>2, ListenerMakerStays
        <5> QED BY <2>2, <3>4, <4>2, <5>3
      <4> QED BY <1>1, <3>3, <4>1, <4>3, <4>4 DEF ListenerBacked
    <3> QED BY <3>5, <3>6
  <2> QED BY <2>1, <2>2
<1> QED BY <1>6, <1>7 DEF ListenerBacked, StandsFor, ListenerMade, Gone, Placed

LEMMA TracesInitially == Init => Traces
<1> SUFFICES ASSUME Init PROVE Traces
  OBVIOUS
<1>1. /\ \A g \in DOMAIN groups : groups[g].edit = Initial
      /\ \A l \in DOMAIN listeners : listeners[l].edit = Initial
      /\ \A o \in Ops : task[o] = Idle
  BY DEF Init
<1>2. \A o \in Ops : task[o].pc = "idle" /\ ~GroupWritten(task[o])
  <2>1. Idle.pc = "idle"
    BY DEF Idle
  <2> QED BY <1>1, <2>1 DEF GroupWritten, Live
<1>3. GroupTraces /\ ListenerTraces
  BY <1>1, ServicesAssumption DEF GroupTraces, ListenerTraces, GroupMade, ListenerMade
<1>4. ASSUME NEW o \in Ops PROVE GroupBacked(o) /\ ListenerBacked(o) /\ KeptFits(task[o])
  BY <1>2 DEF GroupBacked, ListenerBacked, KeptFits, ListenerWritten, Live
<1> QED BY <1>3, <1>4 DEF Traces

LEMMA OwnInitially == Init => Own
<1>1. Idle.pc = "idle" /\ Idle.crossed = FALSE
  BY DEF Idle
<1> SUFFICES ASSUME Init, NEW o \in Ops PROVE OwnReadBack(task[o], o)
  BY DEF Own
<1>2. task[o] = Idle
  BY DEF Init
<1> QED BY <1>1, <1>2 DEF OwnReadBack, GroupWritten, ListenerWritten, Live

Traced == Own /\ (Uncrossed(task) => Traces)

LEMMA TracedStep == Typed /\ Versions /\ Traced /\ [Next]_vars => Traced'
<1> SUFFICES ASSUME Typed, Versions, Traced, [Next]_vars PROVE Traced'
  OBVIOUS
<1>1. Typed'
  BY TypedStep
<1>2. ASSUME NEW o \in Ops, Step(o) PROVE Traced'
  <2>1. Own' /\ (Uncrossed(task') => Uncrossed(task))
    BY <1>1, <1>2, OwnStep DEF Traced
  <2>2. ASSUME Uncrossed(task') PROVE Traces'
    <3>1. Own /\ Traces
      BY <2>1, <2>2 DEF Traced
    <3>2. GroupTraces' /\ ListenerTraces'
      BY <1>1, <1>2, <2>2, <3>1, GroupTracesStep, ListenerTracesStep
      DEF GroupTraces, ListenerTraces
    <3>3. ASSUME NEW p \in Ops PROVE GroupBacked(p)' /\ ListenerBacked(p)'
      BY <1>1, <1>2, <2>2, <3>1, GroupBackedStep, ListenerBackedStep
    <3>4. ASSUME NEW p \in Ops PROVE KeptFits(task'[p])
      <4>1. CASE p # o
        BY <1>2, <3>1, <4>1, OwnTask DEF Typed, Traces
      <4>2. CASE p = o
        BY <1>2, <3>1, <4>2, StandsOn, SubmittedFresh DEF Typed, Traces, KeptFits
      <4> QED BY <4>1, <4>2
    <3> QED BY <3>2, <3>3, <3>4 DEF Traces
  <2> QED BY <2>1, <2>2 DEF Traced, Uncrossed
<1>3. CASE UNCHANGED vars
  <2>1. task' = task /\ groups' = groups /\ listeners' = listeners
    BY <1>3 DEF vars, database
  <2>2. Own' <=> Own
    BY <2>1 DEF Own, OwnReadBack, GroupWritten, ListenerWritten
  <2>3. Traces => Traces'
    BY <2>1 DEF Traces, GroupTraces, ListenerTraces, GroupBacked, ListenerBacked
  <2> QED BY <2>1, <2>2, <2>3 DEF Traced, Uncrossed
<1> QED BY <1>2, <1>3 DEF Next

\* A request that was refused, or that took back what it had written, has left
\* nothing of its edit in a group or a listener, and no other request puts it
\* back: who would restore a row with it has overwritten it, and its own
\* restore has then failed (proxyservice/service.go:310-340), as long as
\* every read-back found the row that was written.
THEOREM RejectedEditsVanishHolds == Spec => []RejectedEditsVanish
<1>1. Traced => RejectedEditsVanish
  <2> SUFFICES ASSUME Traced, Uncrossed(task), NEW o \in Ops, task[o].pc = "undone"
               PROVE  /\ \A g \in DOMAIN groups : groups[g].edit # o
                      /\ \A l \in DOMAIN listeners : listeners[l].edit # o
    BY DEF RejectedEditsVanish, Uncrossed
  <2>1. ~GroupStands(task[o]) /\ ~ListenerStands(task[o])
    BY DEF GroupStands, ListenerStands, GroupWritten, Live, Ended
  <2>2. Traces
    BY DEF Traced
  <2> QED BY <2>1, <2>2 DEF Traces, GroupTraces, ListenerTraces, GroupMade, ListenerMade
<1>2. Init => Traced
  BY OwnInitially, TracesInitially DEF Traced
<1> QED
  BY <1>1, <1>2, AlwaysTyped, VersionsInitially, VersionsStep, TracedStep, PTL DEF Spec

=============================================================================
