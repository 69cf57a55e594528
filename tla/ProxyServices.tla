--------------------------- MODULE ProxyServices ---------------------------
(***************************************************************************)
(* Proxy groups, listeners, the proxy services composed of both, and the   *)
(* global settings and routing rules: everything an administrator edits    *)
(* that is written to the database and then applied to the data plane.     *)
(* Requests run concurrently, each database call is a step, and nothing    *)
(* but row versions and foreign keys orders them.                          *)
(*                                                                         *)
(* An operation is one request.  It stands for the edit it makes and for   *)
(* the id of the rows it creates: an edit is told from others by who made  *)
(* it.  Apply is one step here, module Dataplane has the inside of it.     *)
(* Services have ports of their own: the rows of the shared inbound are    *)
(* left out.                                                               *)
(***************************************************************************)
EXTENDS Naturals

CONSTANTS Ops,        \* requests, each sent once
          Groups,     \* the groups and ...
          Listeners,  \* ... listeners there are at the start
          Initial,    \* their edit
          None,       \* no row
          Verbs,      \* what is requested
          Faults      \* "apply": Apply may fail, "call": a database call may

AllVerbs == {"createGroup", "createListener", "createService",
             "updateGroup", "updateListener", "updateService",
             "deleteGroup", "deleteListener", "rotate", "settings"}

ASSUME ServicesAssumption ==
    /\ Initial \notin Ops
    /\ Ops \cap (Groups \cup Listeners) = {}
    /\ Groups # {}
    /\ Verbs \subseteq AllVerbs
    /\ Faults \subseteq {"apply", "call"}

VARIABLES
    groups,     \* proxy_groups: id -> row
    listeners,  \* listeners: id -> row
    settings,   \* the edit of the metadata rows, which have no version
    served,     \* the edits the last successful Apply compiled
    applied,    \* the last Apply succeeded
    drifted,    \* history: a row was written after the last Apply by a
                \* request that applied nothing
    task        \* the requests

database == <<groups, listeners, settings>>
plane == <<served, applied, drifted>>
vars == <<database, plane, task>>

GroupIds == Groups \cup Ops
ListenerIds == Listeners \cup Ops
Edits == Ops \cup {Initial}
GroupRow == [edit : Edits, refs : SUBSET GroupIds, version : Nat]
ListenerRow == [edit : Edits, group : GroupIds, version : Nat]

ASSUME NoRowAssumption == None \notin GroupRow \cup ListenerRow

Creates == {"createGroup", "createListener", "createService"}
Services == {"createService", "updateService"}

Ended == {"ok",      \* answered with success
          "undone",  \* answered with an error, everything taken back
          "failed"}  \* answered with an error, something may be left

Steps == {"idle", "oread", "gcheck", "gwrite", "gread", "gapply", "lcheck",
          "lwrite", "lread", "lapply", "lrestore", "gback", "grestore", "greapply", "sync",
          "dcheck", "gdelete", "ldelete", "dapply", "rotate",
          "sread", "ssave", "sapply", "srestore", "sreapply"} \cup Ended

Idle == [pc |-> "idle", verb |-> None,
         g |-> None, l |-> None, refs |-> {},
         sawG |-> None, sawL |-> None,   \* the rows the client edits
         oldG |-> None, oldL |-> None,   \* the rows to be restored
         wrote |-> 0, wroteL |-> 0,      \* version and edit of the row that
         backG |-> None, backL |-> None, \* it read back after its write
         old |-> Initial,                \* the settings to be restored
         kept |-> FALSE,                 \* its listener may not be restored
         crossed |-> FALSE]              \* history: it read back a row that
                                         \* was written again after its write

ServicesTypeOK ==
    /\ DOMAIN groups \subseteq GroupIds
    /\ \A g \in DOMAIN groups : groups[g] \in GroupRow
    /\ DOMAIN listeners \subseteq ListenerIds
    /\ \A l \in DOMAIN listeners :
           listeners[l] \in ListenerRow /\ listeners[l].group \in DOMAIN groups
    /\ settings \in Edits
    /\ applied \in BOOLEAN
    /\ drifted \in BOOLEAN
    /\ DOMAIN task = Ops
    /\ \A o \in Ops : task[o].pc \in Steps

Content == [groups |-> [g \in DOMAIN groups |-> groups[g].edit],
            listeners |-> [l \in DOMAIN listeners |-> listeners[l].edit],
            settings |-> settings]

Init ==
    /\ groups = [g \in Groups |-> [edit |-> Initial, refs |-> {}, version |-> 1]]
    /\ \E owner \in Groups : listeners =
           [l \in Listeners |-> [edit |-> Initial, group |-> owner, version |-> 1]]
    /\ settings = Initial
    /\ served = Content
    /\ applied = TRUE
    /\ drifted = FALSE
    /\ task = [o \in Ops |-> Idle]

-----------------------------------------------------------------------------
(* Tables, requests and the data plane.                                    *)

Put(rows, id, row) ==
    [i \in DOMAIN rows \cup {id} |-> IF i = id THEN row ELSE rows[i]]

Drop(rows, id) == [i \in DOMAIN rows \ {id} |-> rows[i]]

\* WHERE id = ? AND version = ?
Matches(rows, id, version) ==
    id \in DOMAIN rows /\ rows[id].version = version

At(o, pc) == task[o].pc = pc
Go(o, pc) == task' = [task EXCEPT ![o].pc = pc]
End(o, how) ==
    task' = [task EXCEPT ![o] = [Idle EXCEPT !.pc = how, !.verb = task[o].verb,
                                             !.crossed = task[o].crossed]]

\* A call that may also fail for reasons outside the model: its context
\* ended, or a name is taken that the call would take back.
MayFail(guard) == ~guard \/ "call" \in Faults

ApplySucceeds ==
    /\ served' = Content
    /\ applied' = TRUE
    /\ drifted' = FALSE

ApplyFails ==
    /\ "apply" \in Faults
    /\ applied' = FALSE
    /\ UNCHANGED <<served, drifted>>

Drifts == drifted' = TRUE /\ UNCHANGED <<served, applied>>

-----------------------------------------------------------------------------
(* Requests.                                                               *)

Submit(o, verb, first, g, l) ==
    /\ At(o, "idle")
    /\ verb \in Verbs
    /\ \E refs \in SUBSET DOMAIN groups :
           /\ verb \notin {"createGroup", "createService", "updateGroup",
                           "updateService"} => refs = {}
           /\ task' = [task EXCEPT ![o] =
                  [Idle EXCEPT !.pc = first, !.verb = verb,
                               !.g = g, !.l = l, !.refs = refs,
                               !.sawG = IF g \in DOMAIN groups THEN groups[g]
                                        ELSE None,
                               !.sawL = IF l \in DOMAIN listeners
                                        THEN listeners[l] ELSE None]]
    /\ UNCHANGED <<database, plane>>

SubmitCreate(o) ==
    \/ Submit(o, "createGroup", "gcheck", o, None)
    \/ Submit(o, "createService", "gcheck", o, o)
    \/ \E g \in DOMAIN groups : Submit(o, "createListener", "lcheck", g, o)

SubmitUpdate(o) ==
    \/ \E g \in DOMAIN groups : Submit(o, "updateGroup", "gcheck", g, None)
    \/ \E l \in DOMAIN listeners, g \in DOMAIN groups :
           \/ Submit(o, "updateListener", "lcheck", g, l)
           \/ Submit(o, "updateService", "oread", g, l)

SubmitOther(o) ==
    \/ \E g \in DOMAIN groups : Submit(o, "deleteGroup", "dcheck", g, None)
    \/ \E l \in DOMAIN listeners :
           \/ Submit(o, "deleteListener", "ldelete", None, l)
           \/ Submit(o, "rotate", "rotate", None, l)
    \/ Submit(o, "settings", "sread", None, None)

-----------------------------------------------------------------------------
(* Group references.                                                       *)

\* groupEdges: the references there would be with the candidate's.
Edges(g, refs) ==
    [i \in GroupIds |-> IF i = g THEN refs
                        ELSE IF i \in DOMAIN groups THEN groups[i].refs ELSE {}]

Below(edges, g) ==
    {i \in GroupIds : \A C \in SUBSET GroupIds :
         g \in C /\ (\A j \in C : edges[j] \subseteq C) => i \in C}

Cyclic(edges, ids) ==
    \E C \in SUBSET ids \ {{}} : \A i \in C : edges[i] \cap C # {}

\* What normalize asks of the references of a group.
Acceptable(g, refs) ==
    /\ refs \subseteq DOMAIN groups \ {g}
    /\ ~Cyclic(Edges(g, refs), Below(Edges(g, refs), g))

\* referencedBy
Referenced(g) == \E i \in DOMAIN groups \ {g} : g \in groups[i].refs

-----------------------------------------------------------------------------
(* Writing a group: proxygroup.Service.Create and Update.                  *)

\* Service.Update of the proxy services starts with the group it would have
\* to restore.
ReadOriginal(o) ==
    /\ At(o, "oread")
    /\ IF task[o].g \in DOMAIN groups
       THEN task' = [task EXCEPT ![o].pc = "gcheck",
                                 ![o].oldG = groups[task[o].g]]
       ELSE End(o, "undone")
    /\ UNCHANGED <<database, plane>>

CheckGroup(o) ==
    /\ At(o, "gcheck")
    /\ Acceptable(task[o].g, task[o].refs)
    /\ Go(o, "gwrite")
    /\ UNCHANGED <<database, plane>>

WriteGroup(o) ==
    LET t == task[o]
        version == IF t.verb \in Creates THEN 1 ELSE t.sawG.version + 1
    IN  /\ At(o, "gwrite")
        /\ t.verb \in Creates \/ Matches(groups, t.g, t.sawG.version)
        /\ groups' = Put(groups, t.g,
               [edit |-> o, refs |-> t.refs, version |-> version])
        /\ task' = [task EXCEPT ![o].pc = IF t.verb \in Creates THEN "gapply"
                                          ELSE "gread",
                                ![o].wrote = version, ![o].backG = o]
        /\ UNCHANGED <<listeners, settings, plane>>

\* UpdateProxyGroup reads the row back, and what is there by then is the
\* group that the caller has updated, for all it knows.
ReadBackGroup(o) ==
    LET t == task[o]
    IN  /\ At(o, "gread")
        /\ t.g \in DOMAIN groups
        /\ task' = [task EXCEPT ![o].pc = "gapply",
                                ![o].wrote = groups[t.g].version,
                                ![o].backG = groups[t.g].edit,
                                ![o].crossed = @ \/ groups[t.g].version # t.wrote]
        /\ UNCHANGED <<database, plane>>

\* The caller takes this for a group that was not updated.
LoseGroup(o) ==
    /\ At(o, "gread")
    /\ MayFail(task[o].g \in DOMAIN groups)
    /\ Drifts
    /\ End(o, "failed")
    /\ UNCHANGED database

\* Validation, a version conflict or a name that is taken: always possible.
RefuseGroup(o) ==
    /\ At(o, "gcheck") \/ At(o, "gwrite")
    /\ End(o, "undone")
    /\ UNCHANGED <<database, plane>>

ApplyGroup(o) ==
    /\ At(o, "gapply")
    /\ \/ /\ ApplySucceeds
          /\ IF task[o].verb \in Services THEN Go(o, "lcheck") ELSE End(o, "ok")
       \/ /\ ApplyFails
          /\ IF task[o].verb = "createService" THEN Go(o, "dcheck")
             ELSE End(o, "failed")
    /\ UNCHANGED database

-----------------------------------------------------------------------------
(* Writing a listener: listener.Service.Create and Update.                 *)

\* What the caller does with the error of a listener that was not written,
\* or was restored.
Unwritten(o) ==
    CASE task[o].verb = "createService" -> Go(o, "dcheck")
      [] task[o].verb = "updateService" -> Go(o, "gback")
      [] OTHER -> End(o, "undone")

\* Update reads the row it may have to restore; both ask for the group.
CheckListener(o) ==
    LET t == task[o]
    IN  /\ At(o, "lcheck")
        /\ t.g \in DOMAIN groups
        /\ t.verb \notin Creates => t.l \in DOMAIN listeners
        /\ task' = [task EXCEPT ![o].pc = "lwrite",
                                ![o].oldL = IF t.verb \in Creates THEN None
                                            ELSE listeners[t.l]]
        /\ UNCHANGED <<database, plane>>

WriteListener(o) ==
    LET t == task[o]
        version == IF t.verb \in Creates THEN 1 ELSE t.sawL.version + 1
    IN  /\ At(o, "lwrite")
        /\ t.g \in DOMAIN groups
        /\ t.verb \in Creates \/ Matches(listeners, t.l, t.sawL.version)
        /\ listeners' = Put(listeners, t.l,
               [edit |-> o, group |-> t.g, version |-> version])
        /\ task' = [task EXCEPT ![o].pc = IF t.verb \in Creates THEN "lapply"
                                          ELSE "lread",
                                ![o].wroteL = version, ![o].backL = o]
        /\ UNCHANGED <<groups, settings, plane>>

\* UpdateListener reads the row back as well.
ReadBackListener(o) ==
    LET t == task[o]
    IN  /\ At(o, "lread")
        /\ t.l \in DOMAIN listeners
        /\ task' = [task EXCEPT ![o].pc = "lapply",
                                ![o].wroteL = listeners[t.l].version,
                                ![o].backL = listeners[t.l].edit,
                                ![o].crossed = @ \/ listeners[t.l].version # t.wroteL]
        /\ UNCHANGED <<database, plane>>

\* What the caller does with the error of a listener that may not have been
\* restored.
Unrestored(o) ==
    IF task[o].verb = "updateService"
    THEN task' = [task EXCEPT ![o].pc = "gback", ![o].kept = TRUE]
    ELSE End(o, "failed")

\* Service.Update of the listeners takes this for a listener that was not
\* updated.
LoseListener(o) ==
    /\ At(o, "lread")
    /\ MayFail(task[o].l \in DOMAIN listeners)
    /\ Drifts
    /\ Unrestored(o)
    /\ UNCHANGED database

RefuseListener(o) ==
    /\ At(o, "lcheck") \/ At(o, "lwrite")
    /\ Unwritten(o)
    /\ UNCHANGED <<database, plane>>

\* Service.Update reads the global settings before it updates the listener
\* and returns when it cannot.
SettingsUnread(o) ==
    /\ At(o, "lcheck")
    /\ task[o].verb = "updateService"
    /\ "call" \in Faults
    /\ End(o, "failed")
    /\ UNCHANGED <<database, plane>>

ApplyListener(o) ==
    /\ At(o, "lapply")
    /\ \/ /\ ApplySucceeds
          /\ IF task[o].verb \in Services THEN Go(o, "sync") ELSE End(o, "ok")
       \/ /\ ApplyFails
          /\ CASE task[o].verb = "createListener" -> End(o, "failed")
               [] task[o].verb = "createService" -> Go(o, "dcheck")
               [] OTHER -> Go(o, "lrestore")
    /\ UNCHANGED database

\* Mutant: the row is restored whatever its version.
RestoreUnversioned(o) ==
    LET t == task[o]
    IN  /\ At(o, "lrestore")
        /\ t.l \in DOMAIN listeners
        /\ t.oldL.group \in DOMAIN groups
        /\ listeners' = [listeners EXCEPT
               ![t.l] = [t.oldL EXCEPT !.version = listeners[t.l].version + 1]]
        /\ Drifts
        /\ Unwritten(o) \/ Unrestored(o)
        /\ UNCHANGED <<groups, settings>>

\* The former row is written over the one that was read back.  Nothing is
\* applied, so what another request published in between stays.  The row is
\* read back once more, only for an error.
RestoreListener(o) ==
    LET t == task[o]
    IN  /\ At(o, "lrestore")
        /\ Matches(listeners, t.l, t.wroteL)
        /\ t.oldL.group \in DOMAIN groups
        /\ listeners' = [listeners EXCEPT
               ![t.l] = [t.oldL EXCEPT !.version = t.wroteL + 1]]
        /\ Drifts
        /\ Unwritten(o) \/ Unrestored(o)
        /\ UNCHANGED <<groups, settings>>

KeepListener(o) ==
    LET t == task[o]
    IN  /\ At(o, "lrestore")
        /\ MayFail(/\ Matches(listeners, t.l, t.wroteL)
                   /\ t.oldL.group \in DOMAIN groups)
        /\ Unrestored(o)
        /\ UNCHANGED <<database, plane>>

-----------------------------------------------------------------------------
(* Compensation by proxyservice.Service, and the end of both its requests. *)

CheckFormerGroup(o) ==
    /\ At(o, "gback")
    /\ Acceptable(task[o].g, task[o].oldG.refs)
    /\ Go(o, "grestore")
    /\ UNCHANGED <<database, plane>>

\* The former row is written over the one that was read back, and is read
\* back in turn before it is applied.
RestoreGroup(o) ==
    LET t == task[o]
    IN  /\ At(o, "grestore")
        /\ Matches(groups, t.g, t.wrote)
        /\ groups' = [groups EXCEPT
               ![t.g] = [t.oldG EXCEPT !.version = t.wrote + 1]]
        /\ \/ Go(o, "greapply") /\ UNCHANGED plane
           \/ End(o, "failed") /\ Drifts
        /\ UNCHANGED <<listeners, settings>>

\* Mutant: the error of the rollback is swallowed.
KeepGroupSilently(o) ==
    /\ At(o, "gback") \/ At(o, "grestore")
    /\ End(o, "undone")
    /\ UNCHANGED <<database, plane>>

\* normalize may refuse what it accepted before: a node or a subscription
\* the group names is gone.
KeepGroup(o) ==
    /\ At(o, "gback") \/ At(o, "grestore")
    /\ End(o, "failed")
    /\ UNCHANGED <<database, plane>>

ReapplyGroup(o) ==
    /\ At(o, "greapply")
    /\ ApplySucceeds \/ ApplyFails
    /\ End(o, IF task[o].kept THEN "failed" ELSE "undone")
    /\ UNCHANGED database

\* syncSharedInbound, which has no rows to change here.
Sync(o) ==
    /\ At(o, "sync")
    /\ \/ End(o, "ok")
       \/ /\ "call" \in Faults
          /\ IF task[o].verb = "createService" THEN Go(o, "dcheck")
             ELSE End(o, "failed")
    /\ UNCHANGED <<database, plane>>

-----------------------------------------------------------------------------
(* Deleting.  A created service is taken back by deleting its group.       *)

Undeleted(o) ==
    End(o, IF task[o].verb = "createService" THEN "failed" ELSE "undone")

CheckReferences(o) ==
    /\ At(o, "dcheck")
    /\ IF Referenced(task[o].g) THEN Undeleted(o) ELSE Go(o, "gdelete")
    /\ UNCHANGED <<database, plane>>

Deletable(o) ==
    LET t == task[o]
    IN  /\ Matches(groups, t.g, IF t.verb = "createService" THEN t.wrote
                                ELSE t.sawG.version)
        /\ \A l \in DOMAIN listeners : listeners[l].group # t.g

\* Mutant: no foreign key.
DeleteGroupAnyway(o) ==
    /\ At(o, "gdelete")
    /\ task[o].g \in DOMAIN groups
    /\ groups' = Drop(groups, task[o].g)
    /\ Go(o, "dapply")
    /\ UNCHANGED <<listeners, settings, plane>>

\* ON DELETE RESTRICT
DeleteGroup(o) ==
    /\ At(o, "gdelete")
    /\ Deletable(o)
    /\ groups' = Drop(groups, task[o].g)
    /\ Go(o, "dapply")
    /\ UNCHANGED <<listeners, settings, plane>>

KeepDeleted(o) ==
    /\ \/ At(o, "dcheck") /\ "call" \in Faults
       \/ At(o, "gdelete") /\ MayFail(Deletable(o))
    /\ Undeleted(o)
    /\ UNCHANGED <<database, plane>>

\* Mutant: the deletion is not applied.
DeleteListenerOnly(o) ==
    LET t == task[o]
    IN  /\ At(o, "ldelete")
        /\ Matches(listeners, t.l, t.sawL.version)
        /\ listeners' = Drop(listeners, t.l)
        /\ End(o, "ok")
        /\ UNCHANGED <<groups, settings, plane>>

DeleteListener(o) ==
    LET t == task[o]
    IN  /\ At(o, "ldelete")
        /\ Matches(listeners, t.l, t.sawL.version)
        /\ listeners' = Drop(listeners, t.l)
        /\ Go(o, "dapply")
        /\ UNCHANGED <<groups, settings, plane>>

RefuseDelete(o) ==
    /\ At(o, "ldelete")
    /\ MayFail(Matches(listeners, task[o].l, task[o].sawL.version))
    /\ End(o, "undone")
    /\ UNCHANGED <<database, plane>>

\* A deletion stays when its Apply fails.
ApplyDelete(o) ==
    /\ At(o, "dapply")
    /\ \/ ApplySucceeds /\ End(o, IF task[o].verb \in Creates THEN "undone" ELSE "ok")
       \/ ApplyFails /\ End(o, IF task[o].verb \in Creates THEN "undone" ELSE "failed")
    /\ UNCHANGED database

-----------------------------------------------------------------------------
(* RotateListenerShareToken; global settings and routing rules.            *)

\* Asks for no version and changes nothing that is compiled.  The row is read
\* back, for the answer.
Rotate(o) ==
    LET t == task[o]
    IN  /\ At(o, "rotate")
        /\ \/ /\ t.l \in DOMAIN listeners
              /\ listeners' = [listeners EXCEPT ![t.l].version = @ + 1]
              /\ End(o, "ok") \/ End(o, "failed")
           \/ /\ MayFail(t.l \in DOMAIN listeners)
              /\ UNCHANGED listeners
              /\ End(o, "undone")
        /\ UNCHANGED <<groups, settings, plane>>

ReadSettings(o) ==
    /\ At(o, "sread")
    /\ task' = [task EXCEPT ![o].pc = "ssave", ![o].old = settings]
    /\ UNCHANGED <<database, plane>>

SaveSettings(o) ==
    /\ \/ At(o, "ssave") /\ settings' = o /\ Go(o, "sapply")
       \/ At(o, "srestore") /\ settings' = task[o].old /\ Go(o, "sreapply")
    /\ UNCHANGED <<groups, listeners, plane>>

SaveFails(o) ==
    /\ \/ At(o, "ssave") /\ End(o, "undone")
       \/ At(o, "srestore") /\ "call" \in Faults /\ End(o, "failed")
    /\ UNCHANGED <<database, plane>>

ApplySettings(o) ==
    /\ \/ At(o, "sapply") /\ ApplySucceeds /\ End(o, "ok")
       \/ At(o, "sapply") /\ ApplyFails /\ Go(o, "srestore")
       \/ At(o, "sreapply") /\ (ApplySucceeds \/ ApplyFails) /\ End(o, "undone")
    /\ UNCHANGED database

-----------------------------------------------------------------------------
Step(o) ==
    \/ SubmitCreate(o) \/ SubmitUpdate(o) \/ SubmitOther(o)
    \/ ReadOriginal(o) \/ CheckGroup(o) \/ WriteGroup(o) \/ RefuseGroup(o)
    \/ ReadBackGroup(o) \/ LoseGroup(o) \/ ApplyGroup(o)
    \/ CheckListener(o) \/ WriteListener(o) \/ RefuseListener(o)
    \/ ReadBackListener(o) \/ LoseListener(o)
    \/ SettingsUnread(o) \/ ApplyListener(o)
    \/ RestoreListener(o) \/ KeepListener(o)
    \/ CheckFormerGroup(o) \/ RestoreGroup(o) \/ KeepGroup(o)
    \/ ReapplyGroup(o) \/ Sync(o)
    \/ CheckReferences(o) \/ DeleteGroup(o) \/ KeepDeleted(o)
    \/ DeleteListener(o) \/ RefuseDelete(o) \/ ApplyDelete(o)
    \/ Rotate(o)
    \/ ReadSettings(o) \/ SaveSettings(o) \/ SaveFails(o) \/ ApplySettings(o)

Next == \E o \in Ops : Step(o)

Spec == Init /\ [][Next]_vars

-----------------------------------------------------------------------------
(* Properties.                                                             *)

\* The edits a request knows: its own, the one its client saw, and the one
\* that its read-back handed to it.
Known(o, saw, back) == {o, back} \cup {row.edit : row \in {saw} \ {None}}

\* A request replaces or removes an edit only if it knows it: the versions of
\* the rows keep it from overwriting what another request wrote since, also
\* when it takes its own edit back (UpdateProxyGroup, UpdateListener and their
\* deletes).  What remains is the read-back itself: an edit made between a
\* write and its read-back counts as written by that request, and its
\* compensation overwrites it.
NoLostUpdate ==
    [][\A o \in Ops : task'[o] # task[o] =>
           /\ \A g \in DOMAIN groups :
                  (g \notin DOMAIN groups' \/ groups'[g].edit # groups[g].edit)
                  => groups[g].edit \in Known(o, task[o].sawG, task[o].backG)
           /\ \A l \in DOMAIN listeners :
                  (l \notin DOMAIN listeners' \/ listeners'[l].edit # listeners[l].edit)
                  => listeners[l].edit \in Known(o, task[o].sawL, task[o].backL)]_vars

Busy == \E o \in Ops : task[o].pc \notin Ended \cup {"idle"}

\* Once every request has been answered and the last Apply succeeded, the
\* data plane has what the database holds, whatever the order in which edits
\* and Applies of concurrent requests fell.  A listener that was restored and
\* a row that could not be read back after its write are only as good as the
\* next Apply (drifted): the request that wrote them applies nothing.
ServedIsCurrent == ~Busy /\ applied /\ ~drifted => served = Content

\* A request that was refused, or that took back what it had written, has left
\* nothing of its edit in a group or a listener, and no other request has
\* brought it back.  Not claimed once a request has read back a row that was
\* written again since: the version it got may be another's, and rows put
\* back over it need not be what they replaced.
RejectedEditsVanish ==
    (\A o \in Ops : ~task[o].crossed) =>
    \A o \in Ops : task[o].pc = "undone" =>
        /\ \A g \in DOMAIN groups : groups[g].edit # o
        /\ \A l \in DOMAIN listeners : listeners[l].edit # o

\* What sortGroupsByDependency relies on: "Cycles cannot occur because the
\* service rejects them at write time" (compiler.go:374).
NoGroupCycle == ~Cyclic([g \in DOMAIN groups |-> groups[g].refs], DOMAIN groups)

\* A proxy service whose creation failed leaves no group and no listener, as
\* docs/ARCHITECTURE.md section 6.7 has it.
CreateCompensated ==
    \A o \in Ops :
        task[o].verb = "createService" /\ task[o].pc \in {"undone", "failed"}
        => o \notin DOMAIN groups \cup DOMAIN listeners
=============================================================================
