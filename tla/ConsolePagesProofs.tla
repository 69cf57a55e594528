------------------------- MODULE ConsolePagesProofs -------------------------
(***************************************************************************)
(* Proofs about the pages of the console, for any number of handlers in    *)
(* flight and changes of the record: a dialog gets its own answers, and a  *)
(* page at rest is true.  Both stand on who answers for what: a busy flag  *)
(* is held by a handler that will clear it, a dialog that saves by the one *)
(* it sent, and a list that is behind by an answer that will bring it      *)
(* forward.                                                                *)
(***************************************************************************)
EXTENDS ConsoleProofs, WellFoundedInduction

-----------------------------------------------------------------------------
(* Who answers for what. *)

Live(t) == task[t].phase # "idle"

\* A handler is one of the page's, or a load.
Offers(op) == \E b \in Page[view].buttons : b.op = op
OnPage == \A t \in Tasks : Offers(task[t].op) \/ task[t].op = LoadPage

\* The open dialog is one the page offers; its own flag is that of its form.
FormOffered ==
    /\ form # NoForm => \E b \in Page[view].buttons :
                            b.op = form.op /\ b.dialog = form.dialog /\ b.dialog # "no"
    /\ form.saving => form.op.key = "form"

\* The dialog's own handlers are those it sent since it was opened ...
OwnFits ==
    \A t \in Tasks : task[t].own => Live(t) /\ form # NoForm /\ task[t].op = form.op

\* ... and keep it from submitting again, so that there is one at most.
OwnSaves == view # "accounts" => \A t \in Tasks : task[t].own => Saving
OneOwn ==
    view # "accounts" => \A t, u \in Tasks : task[t].own /\ task[u].own => t = u

\* The flags of rows and of the page are held by one handler at a time.
Exclusive == {"row", "page"}
FlagsHeld ==
    view # "accounts" =>
        \A t \in Tasks : Live(t) /\ task[t].op.key \in Exclusive =>
            /\ task[t].op.key \in busy
            /\ \A u \in Tasks : Live(u) /\ task[u].op.key = task[t].op.key => u = t

\* What a modal dialog has sent stays its own until the answer.
Modal(op) == \E b \in Page[view].buttons : b.op = op /\ b.dialog = "modal"
AnswersOwned ==
    view \notin LooseDialogs =>
        \A t \in Tasks : task[t].phase \in {"sent", "ok", "second", "refused"}
                            /\ Modal(task[t].op) => task[t].own

OwnInv == /\ OnPage /\ FormOffered /\ OwnFits /\ OwnSaves /\ OneOwn /\ FlagsHeld
          /\ AnswersOwned /\ ~meddled

-----------------------------------------------------------------------------
(* What a page at rest shows. *)

\* A flag that is set is one a handler in flight will clear.
FlagsCleared ==
    /\ "loading" \in busy => \E t \in Tasks : task[t].phase \in {"asked", "read"}
    /\ \A k \in busy \ {"loading"} : \E t \in Tasks : Live(t) /\ k \in KeysOf(task[t].op)

\* A dialog that saves is one whose handler is in flight.
SavingEnds ==
    form.saving => \E t \in Tasks : task[t].own /\ task[t].phase \notin {"idle", "after"}

\* A copy on its way to the list.
Carries(r) ==
    \/ r.phase = "read"
    \/ r.phase \in {"ok", "second"} /\ (r.op.verb = "create" => r.copy.ver # 0)

\* A handler, or the open dialog, is about a record the page has shown.
Known == OfRecord(form.op) \/ \E t \in Tasks : OfRecord(task[t].op)

\* Copies are states the record has had: none is newer than the record, one as
\* new is the record, and one without a record is of before or of after it.
CopiesOfRow ==
    /\ \A t \in Tasks : Carries(task[t]) =>
        LET c == task[t].copy IN
        /\ c.rev < row.rev \/ c = row
        /\ c.ver = 0 => c = Absent \/ c = row
        /\ c = Absent => /\ row.ver # 0 => row.rev # 0
                         /\ listed.ver # 0 => listed.rev # 0
                         /\ \A u \in Tasks : task[u].copy.ver # 0 => task[u].copy.rev # 0
    /\ row = Absent => listed.ver = 0 /\ ~Known /\ \A t \in Tasks : task[t].copy.ver = 0

\* A handler whose answer leaves the list with the record as it is.
Brings(r) ==
    \/ r.phase = "asked"
    \/ r.phase = "read" /\ r.copy = row
    \/ r.phase \in {"ok", "second"} /\ r.op.ok = "reload"
    \/ r.phase = "ok" /\ r.op.ok \in {"patch", "drop"} /\ r.copy = row
       /\ (r.op.ok = "patch" => row.ver # 0)
    \/ r.phase = "sent" /\ r.op = CheckVisibleNodes /\ row.ver # 0

ListCatchesUp == excused \/ listed = row \/ \E t \in Tasks : Brings(task[t])

\* A list without the record it has shown has seen it go.
GoneForGood == ~excused /\ listed.ver = 0 /\ Known => listed = row

RestInv == FlagsCleared /\ SavingEnds /\ CopiesOfRow /\ ListCatchesUp /\ GoneForGood

-----------------------------------------------------------------------------
(* What the pages offer. *)

\* A dialog's own flag is one that only its handler sets, on every page but one.
Held(b) == b.dialog # "no" => b.op.key \in {"form"} \cup Exclusive
Awaits(b) == b.op.key \in Exclusive => b.dialog # "no" \/ b.op.key \in b.waits

LEMMA ButtonFlags ==
    ASSUME NEW p \in Pages \ {"accounts"}, NEW b \in Page[p].buttons
    PROVE  /\ Held(b) /\ Awaits(b) /\ b.op.second # "after"
           /\ p \notin LooseDialogs => b.dialog # "loose"
<1> DEFINE Tight(c) == Held(c) /\ Awaits(c) /\ c.op.second # "after"
           Good(B) == \A c \in B : Tight(c)
           Firm(B) == \A c \in B : c.dialog # "loose"
<1> USE DEF Held, Awaits, Exclusive, Button, Op
<1>1. Good(SubscriptionsHeader) /\ Firm(SubscriptionsHeader)
  BY DEF SubscriptionsHeader, RefreshSubscriptions, CheckNodes, LoadPage, CreateSubscription
<1>2. Good(SubscriptionRow) /\ Firm(SubscriptionRow)
  BY DEF SubscriptionRow, CheckSubscription, RefreshSubscription, SaveSubscription,
         DeleteSubscription
<1>3. Good(NodesHeader) /\ Good(NodeRow) /\ Firm(NodesHeader) /\ Firm(NodeRow)
  BY DEF NodesHeader, NodeRow, CheckVisibleNodes, LoadPage, CheckNode, ToggleNode
<1>4. Good(RoutingHeader) /\ Good(ServiceRow) /\ Firm(RoutingHeader) /\ Firm(ServiceRow)
  BY DEF RoutingHeader, ServiceRow, LoadPage, ApplyDataPlane, CreateProxyService,
         EditProxyService, RemoveService
<1>5. /\ Good({Button(SaveGroupRoutes, {}, "inline")})
      /\ Firm({Button(SaveGroupRoutes, {}, "inline")})
  BY DEF SaveGroupRoutes
<1>6. /\ Good({Button(SaveRules, {"loading", "saving"}, "no")})
      /\ Firm({Button(SaveRules, {"loading", "saving"}, "no")})
  BY DEF SaveRules
<1>7. Good(ChannelsTable)
  BY DEF ChannelsTable, LoadPage, CreateChannel, SaveChannel, SaveEndpoint, RotateSession,
         DeleteChannel
<1>8. Good(ProvidersTable)
  BY DEF ProvidersTable, LoadPage, CreateProvider, SaveProvider, TestProvider, DeleteProvider
<1>9. Good(AlertsPanel) /\ Firm(AlertsPanel)
  BY DEF AlertsPanel, LoadPage, AcknowledgeAlert, SaveAlertSettings, TestAlertSettings
<1>10. Good(ArtifactsPanel) /\ Good(ArtifactRow) /\ Firm(ArtifactsPanel) /\ Firm(ArtifactRow)
  BY DEF ArtifactsPanel, ArtifactRow, LoadPage, CreateArtifact, VerifyArtifact, DeleteArtifact
<1> HIDE DEF Held, Awaits, Exclusive, Button, Op, Tight
<1>11. p \in {"subscriptions", "nodes", "routing", "routes", "rules", "channels", "providers",
              "alerts", "artifacts"}
  BY DEF Pages, Page
<1>12. Good(Page[p].buttons)
  BY <1>1, <1>2, <1>3, <1>4, <1>5, <1>6, <1>7, <1>8, <1>9, <1>10, <1>11
  DEF Page, PageOf, SubscriptionsPage, NodesPage, RoutingPage, RoutesPanel, RulesPage,
      ChannelsPage, ProvidersPage, AlertsPage, ArtifactsPage
<1>13. p \notin LooseDialogs => Firm(Page[p].buttons)
  BY <1>1, <1>2, <1>3, <1>4, <1>5, <1>6, <1>9, <1>10, <1>11
  DEF Page, PageOf, SubscriptionsPage, NodesPage, RoutingPage, RoutesPanel, RulesPage,
      AlertsPage, ArtifactsPage, LooseDialogs
<1>14. Tight(b)
  BY <1>12
<1> QED BY <1>13, <1>14 DEF Tight

LEMMA OneFlagEach == ASSUME NEW p \in Pages \ {"accounts"} PROVE "single" \notin Page[p].traits
<1>1. p \in {"subscriptions", "nodes", "routing", "routes", "rules", "channels", "providers",
             "alerts", "artifacts"}
  BY DEF Pages, Page
<1> QED BY <1>1
  DEF Page, PageOf, SubscriptionsPage, NodesPage, RoutingPage, RoutesPanel, RulesPage,
      ChannelsPage, ProvidersPage, AlertsPage, ArtifactsPage

\* A handler is reached by one kind of dialog.
LEMMA OneDialog ==
    ASSUME NEW p \in Pages \ LooseDialogs, NEW b \in Page[p].buttons,
           NEW c \in Page[p].buttons, b.op = c.op
    PROVE  b.dialog = c.dialog
<1> DEFINE Same(B) == \A d, e \in B : d.op.name = e.op.name => d.dialog = e.dialog
<1> USE DEF Button, Op
<1>1. Same(SubscriptionsHeader \cup SubscriptionRow)
  BY DEF SubscriptionsHeader, RefreshSubscriptions, CheckNodes, LoadPage, CreateSubscription,
         SubscriptionRow, CheckSubscription, RefreshSubscription, SaveSubscription,
         DeleteSubscription
<1>2. Same(NodesHeader \cup NodeRow)
  BY DEF NodesHeader, NodeRow, CheckVisibleNodes, LoadPage, CheckNode, ToggleNode
<1>3. Same(RoutingHeader \cup ServiceRow)
  BY DEF RoutingHeader, ServiceRow, LoadPage, ApplyDataPlane, CreateProxyService,
         EditProxyService, RemoveService
<1>4. Same({Button(SaveGroupRoutes, {}, "inline")})
  OBVIOUS
<1>5. Same({Button(SaveRules, {"loading", "saving"}, "no")})
  OBVIOUS
<1>6. Same(AlertsPanel)
  BY DEF AlertsPanel, LoadPage, AcknowledgeAlert, SaveAlertSettings, TestAlertSettings
<1>7. Same(ArtifactsPanel \cup ArtifactRow)
  BY DEF ArtifactsPanel, ArtifactRow, LoadPage, CreateArtifact, VerifyArtifact, DeleteArtifact
<1> HIDE DEF Button, Op
<1>8. p \in {"subscriptions", "nodes", "routing", "routes", "rules", "alerts", "artifacts"}
  BY DEF Pages, Page, LooseDialogs
<1>9. Same(Page[p].buttons)
  BY <1>1, <1>2, <1>3, <1>4, <1>5, <1>6, <1>7, <1>8
  DEF Page, PageOf, SubscriptionsPage, NodesPage, RoutingPage, RoutesPanel, RulesPage,
      AlertsPage, ArtifactsPage
<1> QED BY <1>9

\* The flags of a handler are its key, or those of a batch.
LEMMA FlagsOf ==
    ASSUME NEW op, NEW k \in KeysOf(op)
    PROVE  /\ k # "form" /\ k # "none"
           /\ k \in Exclusive => k = op.key
  BY DEF KeysOf, Exclusive

LEMMA LoadKeys ==
    /\ LoadPage.key = "none" /\ LoadPage.verb = "probe" /\ LoadPage.second = "none"
    /\ KeysOf(LoadPage) = {}
<1>1. LoadPage.key = "none" /\ LoadPage.verb = "probe" /\ LoadPage.second = "none"
  BY DEF LoadPage, Op
<1>2. CheckVisibleNodes.key = "batch"
  BY DEF CheckVisibleNodes, Op
<1> QED BY <1>1, <1>2 DEF KeysOf

-----------------------------------------------------------------------------
(* How a handler goes on.  It moves on and keeps its flags, or it ends and *)
(* clears them; the open dialog stays with its handlers, or it is closed   *)
(* and disowns them.                                                       *)

InFlight == {"sent", "ok", "second", "refused"}

Moves(t) ==
    /\ Live(t) /\ task'[t].phase # "idle" /\ task'[t].op = task[t].op
    /\ task'[t].phase \in InFlight => task[t].phase \in InFlight
    /\ task'[t].phase = "after" => task[t].op.second = "after"
    /\ busy \ busy' \subseteq {"loading"}

Ends(t) ==
    /\ Live(t) /\ task'[t].phase = "idle" /\ task'[t].op = LoadPage /\ task'[t].own = FALSE
    /\ busy' \cap KeysOf(task[t].op) \subseteq {"loading"}
    /\ view # "accounts" => busy \ busy' \subseteq KeysOf(task[t].op) \cup {"loading"}
    /\ task[t].own => ~form'.saving \/ task[t].phase = "after"

Kept(t) ==
    /\ form'.op = form.op /\ form'.dialog = form.dialog
    /\ \A u \in Tasks \ {t} : task'[u].own = task[u].own
    /\ task'[t].own = task[t].own \/ Ends(t)
    /\ form'.saving = form.saving \/ (task[t].own /\ Ends(t) /\ form'.saving = FALSE)
    /\ form = NoForm => form' = NoForm

Closed(t) ==
    /\ form # NoForm /\ form' = NoForm
    /\ \A u \in Tasks : task'[u].own = FALSE
    /\ \/ form.dialog \in {"kept", "inline"}
       \/ view \notin LooseDialogs => task[t].own /\ task'[t].phase \notin InFlight

Follows(t) ==
    /\ view' = view /\ meddled' = FALSE
    /\ \A u \in Tasks \ {t} : task'[u].phase = task[u].phase /\ task'[u].op = task[u].op
    /\ Moves(t) \/ Ends(t)
    /\ Kept(t) \/ Closed(t)
    \* the loading flag is of a load
    /\ busy' \subseteq busy \cup {"loading"}
    /\ "loading" \in busy' =>
          \/ task'[t].phase = "asked"
          \/ "loading" \in busy /\ (task[t].phase \in {"asked", "read"}
                                      => task'[t].phase \in {"asked", "read"})

\* The invariant, with the types it relies on.
PagesBase ==
    /\ view \in Pages /\ form \in FormRecs /\ task \in [Tasks -> TaskRecs]
    /\ busy \subseteq Keys

LEMMA BaseTyped == PagesInv => PagesBase
  BY PagesTyped DEF PagesInv, PagesBase

\* The open dialog is one of the page's.
LEMMA FormButton ==
    ASSUME PagesBase, FormOffered, form # NoForm
    PROVE  /\ view # "accounts" => form.op.key \in {"form"} \cup Exclusive
           /\ view \notin LooseDialogs =>
                /\ form.dialog # "loose"
                /\ Modal(form.op) <=> form.dialog = "modal"
<1>1. PICK b \in Page[view].buttons :
           b.op = form.op /\ b.dialog = form.dialog /\ b.dialog # "no"
  BY DEF FormOffered
<1>2. ASSUME view # "accounts" PROVE form.op.key \in {"form"} \cup Exclusive
  BY <1>1, <1>2, ButtonFlags DEF PagesBase, Held
<1>3. ASSUME view \notin LooseDialogs
      PROVE  form.dialog # "loose" /\ (Modal(form.op) <=> form.dialog = "modal")
  <2>1. view \in Pages \ LooseDialogs /\ view # "accounts"
    BY <1>3 DEF PagesBase, LooseDialogs
  <2>2. form.dialog # "loose"
    BY <1>1, <2>1, <1>3, ButtonFlags
  <2>3. \A c \in Page[view].buttons : c.op = form.op => c.dialog = form.dialog
    BY <1>1, <2>1, OneDialog
  <2> QED BY <1>1, <2>2, <2>3 DEF Modal
<1> QED BY <1>2, <1>3

\* Only its own handlers keep a modal dialog's answers.
LEMMA OwnFollows ==
    ASSUME PagesBase, PagesBase', OwnInv, NEW t \in Tasks, Follows(t)
    PROVE  OwnInv'
<1> USE DEF OwnInv
<1>a. /\ \A u \in Tasks : task[u].own \in BOOLEAN /\ task'[u].own \in BOOLEAN
      /\ view' = view /\ meddled' = FALSE
      /\ \A u \in Tasks \ {t} : task'[u].phase = task[u].phase /\ task'[u].op = task[u].op
      /\ task'[t].op \in {task[t].op, LoadPage}
  BY DEF PagesBase, TaskRecs, Follows, Moves, Ends
<1>b. \A u \in Tasks : task'[u].own => task[u].own
  BY <1>a DEF Follows, Kept, Closed, Ends
<1>c. NoForm.op = LoadPage /\ NoForm.dialog = "no" /\ NoForm.saving = FALSE
  BY DEF NoForm
<1>1. OnPage'
  BY <1>a DEF OnPage, Offers
<1>2. FormOffered'
  <2>1. CASE Closed(t)
    BY <2>1, <1>c DEF Closed, FormOffered
  <2>2. CASE Kept(t)
    <3>1. form'.op = form.op /\ form'.dialog = form.dialog /\ (form'.saving => form.saving)
      BY <2>2 DEF Kept, Ends, Follows, PagesBase, FormRecs
    <3>2. form' # NoForm => form # NoForm
      BY <2>2 DEF Kept
    <3> QED BY <3>1, <3>2, <1>a DEF FormOffered
  <2> QED BY <2>1, <2>2 DEF Follows
<1>3. ASSUME NEW u \in Tasks, task'[u].own
      PROVE  /\ task[u].own /\ Live(u) /\ task'[u].phase # "idle" /\ task'[u].op = task[u].op
             /\ Kept(t) /\ form # NoForm /\ task[u].op = form.op /\ form.dialog # "no"
  <2>1. task[u].own /\ Live(u) /\ form # NoForm /\ task[u].op = form.op
    BY <1>b, <1>3 DEF OwnFits
  <2>2. Kept(t)
    BY <1>3 DEF Follows, Closed
  <2>3. task'[u].phase # "idle" /\ task'[u].op = task[u].op
    BY <1>3, <1>a, <2>1 DEF Follows, Moves, Ends, Live
  <2>4. form.dialog # "no"
    BY <2>1 DEF FormOffered
  <2> QED BY <2>1, <2>2, <2>3, <2>4
<1>4. OwnFits'
  <2> SUFFICES ASSUME NEW u \in Tasks, task'[u].own
               PROVE  Live(u)' /\ form' # NoForm /\ task'[u].op = form'.op
    BY DEF OwnFits
  <2>1. form'.dialog # "no" /\ form'.op = form.op
    BY <1>3 DEF Kept
  <2> QED BY <1>3, <1>c, <2>1 DEF Live
<1>5. OneOwn'
  BY <1>a, <1>b DEF OneOwn
<1>6. FlagsHeld'
  <2> SUFFICES ASSUME view # "accounts", NEW u \in Tasks, task'[u].phase # "idle",
                      task'[u].op.key \in Exclusive
               PROVE  /\ task'[u].op.key \in busy'
                      /\ \A v \in Tasks : task'[v].phase # "idle"
                             /\ task'[v].op.key = task'[u].op.key => v = u
    BY <1>a DEF FlagsHeld, Live, Exclusive
  <2>1. \A v \in Tasks : task'[v].phase # "idle" => Live(v) /\ task'[v].op = task[v].op
    BY <1>a DEF Follows, Moves, Ends, Live
  <2>2. /\ task[u].op.key \in busy
        /\ \A v \in Tasks : Live(v) /\ task[v].op.key = task[u].op.key => v = u
    BY <2>1 DEF FlagsHeld
  <2>3. task[u].op.key # "loading" /\ task'[u].op = task[u].op
    BY <2>1 DEF Exclusive
  <2>4. task[u].op.key \in busy'
    <3>1. CASE Moves(t)
      BY <3>1, <2>2, <2>3 DEF Moves
    <3>2. CASE Ends(t)
      <4>1. u # t /\ task[t].op.key # task[u].op.key
        BY <3>2, <2>2 DEF Ends
      <4>2. task[u].op.key \notin KeysOf(task[t].op)
        BY <4>1, <2>3, FlagsOf
      <4> QED BY <3>2, <4>2, <2>2, <2>3 DEF Ends
    <3> QED BY <3>1, <3>2 DEF Follows
  <2> QED BY <2>1, <2>2, <2>3, <2>4
<1>7. OwnSaves'
  <2> SUFFICES ASSUME view # "accounts", NEW u \in Tasks, task'[u].own PROVE Saving'
    BY <1>a DEF OwnSaves
  <2>1. /\ task[u].own /\ Live(u) /\ task'[u].phase # "idle" /\ task'[u].op = task[u].op
        /\ Kept(t) /\ form # NoForm /\ task[u].op = form.op
    BY <1>3
  <2>2. Saving /\ form.op.key \in {"form"} \cup Exclusive /\ form'.op = form.op
    BY <2>1, FormButton DEF OwnSaves, Kept
  <2>3. CASE form.saving
    <3>1. ~(task[t].own /\ Ends(t))
      <4> SUFFICES ASSUME task[t].own, Ends(t) PROVE FALSE
        OBVIOUS
      <4>1. u = t
        BY <2>1 DEF OneOwn
      <4> QED BY <4>1, <2>1 DEF Ends
    <3> QED BY <2>1, <2>3, <3>1 DEF Kept, Saving
  <2>4. CASE form.op.key \in busy /\ form.op.key \in Exclusive
    <3>1. form'.op.key \in busy'
      BY <2>1, <2>2, <2>4, <1>6, <1>a DEF FlagsHeld, Live
    <3> QED BY <3>1 DEF Saving
  <2>5. CASE form.op.key \in busy /\ form.op.key = "form"
    <3>1. "form" \notin KeysOf(task[t].op)
      BY FlagsOf
    <3>2. "form" \in busy'
      BY <2>5, <3>1 DEF Follows, Moves, Ends
    <3> QED BY <2>2, <2>5, <3>2 DEF Saving
  <2> QED BY <2>2, <2>3, <2>4, <2>5 DEF Saving
<1>8. AnswersOwned'
  <2> SUFFICES ASSUME view \notin LooseDialogs, NEW u \in Tasks,
                      task'[u].phase \in InFlight, Modal(task[u].op)'
               PROVE  task'[u].own
    BY <1>a DEF AnswersOwned, InFlight, Modal
  <2>1. task[u].phase \in InFlight /\ task'[u].op = task[u].op
    BY <1>a DEF Follows, Moves, Ends, InFlight
  <2>2. Modal(task[u].op)
    BY <2>1, <1>a DEF Modal
  <2>3. task[u].own
    BY <2>1, <2>2 DEF AnswersOwned, InFlight
  <2>4. CASE Kept(t)
    BY <2>3, <2>4, <1>a DEF Kept, Ends, InFlight
  <2>5. CASE Closed(t)
    <3>1. form # NoForm /\ task[u].op = form.op
      BY <2>3 DEF OwnFits
    <3>2. form.dialog = "modal"
      BY <2>2, <3>1, FormButton
    <3>3. task[t].own /\ task'[t].phase \notin InFlight
      BY <2>5, <3>2 DEF Closed
    <3>4. u = t
      BY <2>3, <3>3 DEF OneOwn, LooseDialogs
    <3> QED BY <3>3, <3>4
  <2> QED BY <2>4, <2>5 DEF Follows
<1> QED BY <1>a, <1>1, <1>2, <1>4, <1>5, <1>6, <1>7, <1>8

-----------------------------------------------------------------------------
(* Every answer goes on with its handler. *)

\* A handler that ends clears its own flags and no other's.
LEMMA Clears ==
    ASSUME PagesBase, NEW op
    PROVE  /\ ClearBusy(op) \subseteq busy
           /\ ClearBusy(op) \cap KeysOf(op) \subseteq {"loading"}
           /\ view # "accounts" => busy \ ClearBusy(op) \subseteq KeysOf(op)
  BY OneFlagEach DEF PagesBase, ClearBusy

LEMMA MoveFollows ==
    ASSUME PagesBase, OwnInv, NEW t \in Tasks, Live(t), NEW r \in TaskRecs,
           task' = [task EXCEPT ![t] = r], UNCHANGED <<view, busy, form, meddled>>,
           r.op = task[t].op, r.own = task[t].own, r.phase \notin {"idle", "after"},
           r.phase \in InFlight => task[t].phase \in InFlight,
           task[t].phase \in {"asked", "read"} => r.phase \in {"asked", "read"}
    PROVE  Follows(t)
<1>1. task'[t] = r /\ \A u \in Tasks \ {t} : task'[u] = task[u]
  BY DEF PagesBase
<1>2. Moves(t) /\ Kept(t)
  BY <1>1 DEF Moves, Kept
<1> QED BY <1>1, <1>2 DEF Follows, OwnInv

LEMMA FinishFollows ==
    ASSUME PagesBase, OwnInv, NEW t \in Tasks, Live(t), Finish(t), UNCHANGED <<view, meddled>>,
           \/ form' = Unsaving(form, t) /\ task[t].phase \notin {"asked", "read"}
           \/ form' = form /\ task[t].phase = "after"
    PROVE  Follows(t)
<1>1. task' = [task EXCEPT ![t] = IdleTask] /\ busy' = ClearBusy(task[t].op)
  BY DEF Finish
<1>2. /\ IdleTask.phase = "idle" /\ IdleTask.op = LoadPage /\ IdleTask.own = FALSE
  BY DEF IdleTask
<1>3. task'[t] = IdleTask /\ \A u \in Tasks \ {t} : task'[u] = task[u]
  BY <1>1 DEF PagesBase
<1>4. /\ form'.op = form.op /\ form'.dialog = form.dialog
      /\ form'.saving = form.saving \/ (task[t].own /\ form'.saving = FALSE)
      /\ task[t].own => ~form'.saving \/ task[t].phase = "after"
  BY DEF Unsaving, PagesBase, FormRecs
<1>5. form = NoForm => form' = NoForm
  BY DEF Unsaving, OwnInv, OwnFits
<1>6. Ends(t)
  BY <1>1, <1>2, <1>3, <1>4, Clears DEF Ends
<1>7. Kept(t)
  BY <1>3, <1>4, <1>5, <1>6 DEF Kept
<1>8. busy' \subseteq busy /\ task[t].phase \notin {"asked", "read"}
  BY <1>1, Clears
<1> QED BY <1>3, <1>6, <1>7, <1>8 DEF Follows, OwnInv

\* An answer that closes a dialog is that dialog's own.
LEMMA ClosesOwn ==
    ASSUME PagesBase, OwnInv, NEW t \in Tasks, task[t].phase \in {"ok", "second"}, Closes(t),
           view \notin LooseDialogs
    PROVE  task[t].own
<1>1. PICK b \in Page[view].buttons : b.op = task[t].op /\ b.dialog \in {"modal", "loose"}
  BY DEF Closes
<1>2. b.dialog # "loose"
  BY ButtonFlags DEF PagesBase, LooseDialogs
<1>3. Modal(task[t].op)
  BY <1>1, <1>2 DEF Modal
<1> QED BY <1>3 DEF OwnInv, AnswersOwned

LEMMA SucceedFollows ==
    ASSUME PagesBase, OwnInv, NEW t \in Tasks, task[t].phase \in {"ok", "second"}, Succeed(t),
           view' = view
    PROVE  Follows(t)
<1> DEFINE r == task[t]
           asked == [IdleTask EXCEPT !.op = r.op, !.phase = "asked", !.own = r.own]
<1>a. task \in [Tasks -> TaskRecs] /\ r \in TaskRecs /\ form \in FormRecs /\ Live(t)
      /\ \A u \in Tasks : task[u].own \in BOOLEAN
  BY DEF PagesBase, TaskRecs, Live
<1>b. /\ IdleTask.phase = "idle" /\ IdleTask.op = LoadPage /\ IdleTask.own = FALSE
      /\ asked.op = r.op /\ asked.phase = "asked" /\ asked.own = r.own
      /\ NoForm.dialog = "no"
  BY DEF IdleTask, NoForm
<1>c. /\ asked \in TaskRecs
  BY <1>a, AskedTyped DEF TaskRecs
<1>d. meddled' = FALSE
  BY ClosesOwn DEF Succeed, OwnInv
<1>e. /\ Seen(t).op = form.op /\ Seen(t).dialog = form.dialog /\ Seen(t).saving = form.saving
      /\ form = NoForm => Seen(t) = form
  BY <1>a, <1>b DEF Seen, FormRecs
<1>f. ASSUME Closes(t), NEW q \in TaskRecs, q.phase \notin InFlight, form' = NoForm,
             task' = Disowned([task EXCEPT ![t] = q])
      PROVE  /\ Closed(t) /\ task'[t].op = q.op /\ task'[t].phase = q.phase
             /\ \A u \in Tasks \ {t} : task'[u].phase = task[u].phase
                                        /\ task'[u].op = task[u].op
  <2> DEFINE f == [task EXCEPT ![t] = q]
  <2>1. f \in [Tasks -> TaskRecs] /\ f[t] = q /\ \A u \in Tasks \ {t} : f[u] = task[u]
    BY <1>a
  <2> HIDE DEF f
  <2>2. \A u \in Tasks : /\ task'[u].own = FALSE /\ task'[u].phase = f[u].phase
                          /\ task'[u].op = f[u].op
    BY <1>f, <2>1 DEF Disowned, f, TaskRecs
  <2>3. form # NoForm
    BY <1>f, <1>b DEF Closes
  <2> QED BY <1>f, <2>1, <2>2, <2>3, ClosesOwn DEF Closed
<1>1. CASE r.op.ok = "reload"
  <2>1. /\ MarkLoading
        /\ task' = IF Closes(t) THEN Disowned([task EXCEPT ![t] = asked])
                   ELSE [task EXCEPT ![t] = asked]
        /\ form' = IF Closes(t) THEN NoForm ELSE Seen(t)
    BY <1>1 DEF Succeed
  <2>2. busy \subseteq busy' /\ busy' \subseteq busy \cup {"loading"}
    BY <2>1 DEF MarkLoading
  <2> HIDE DEF asked
  <2>3. asked.phase \notin InFlight
    BY <1>b DEF InFlight
  <2>4. /\ task'[t].op = r.op /\ task'[t].phase = "asked"
        /\ \A u \in Tasks \ {t} : task'[u].phase = task[u].phase /\ task'[u].op = task[u].op
        /\ Kept(t) \/ Closed(t)
    <3>1. CASE Closes(t)
      BY <1>b, <1>c, <1>f, <2>1, <2>3, <3>1
    <3>2. CASE ~Closes(t)
      <4>1. task'[t] = asked /\ \A u \in Tasks \ {t} : task'[u] = task[u]
        BY <1>a, <2>1, <3>2
      <4> QED BY <1>b, <1>e, <2>1, <3>2, <4>1 DEF Kept
    <3> QED BY <3>1, <3>2
  <2>5. Moves(t)
    BY <1>a, <2>2, <2>4 DEF Moves, InFlight
  <2> QED BY <1>d, <2>2, <2>4, <2>5 DEF Follows
<1>2. CASE r.op.ok # "reload"
  <2>1. /\ busy' = ClearBusy(r.op)
        /\ task' = IF Closes(t) THEN Disowned([task EXCEPT ![t] = IdleTask])
                   ELSE [task EXCEPT ![t] = IdleTask]
        /\ form' = IF Closes(t) THEN NoForm ELSE Unsaving(Seen(t), t)
    BY <1>2 DEF Succeed
  <2>2. Closes(t) => Closed(t)
    BY <1>b, <1>f, <2>1, PagesConstants DEF InFlight
  <2>3. /\ task'[t].op = LoadPage /\ task'[t].phase = "idle" /\ task'[t].own = FALSE
        /\ \A u \in Tasks \ {t} : task'[u].phase = task[u].phase /\ task'[u].op = task[u].op
        /\ ~Closes(t) => \A u \in Tasks \ {t} : task'[u].own = task[u].own
    <3>1. CASE Closes(t)
      BY <1>b, <1>f, <2>1, <2>2, <3>1, PagesConstants DEF InFlight, Closed
    <3>2. CASE ~Closes(t)
      <4>1. task'[t] = IdleTask /\ \A u \in Tasks \ {t} : task'[u] = task[u]
        BY <1>a, <2>1, <3>2
      <4> QED BY <1>b, <4>1, <3>2
    <3> QED BY <3>1, <3>2
  <2>4. r.own => ~form'.saving
    <3>1. CASE Closes(t)
      BY <2>1, <3>1 DEF NoForm
    <3>2. CASE ~Closes(t) /\ r.own
      <4>1. Seen(t) \in FormRecs
        BY <1>a DEF Seen, FormRecs, TaskRecs, Copies, Revs
      <4> QED BY <2>1, <3>2, <4>1 DEF Unsaving, FormRecs
    <3> QED BY <3>1, <3>2
  <2>5. Ends(t)
    BY <1>a, <2>1, <2>3, <2>4, Clears DEF Ends
  <2>6. ~Closes(t) => Kept(t)
    <3> SUFFICES ASSUME ~Closes(t) PROVE Kept(t)
      OBVIOUS
    <3>1. form' = Unsaving(Seen(t), t)
      BY <2>1
    <3>2. Seen(t) \in FormRecs
      BY <1>a DEF Seen, FormRecs, TaskRecs, Copies, Revs
    <3>3. /\ form'.op = form.op /\ form'.dialog = form.dialog
          /\ form'.saving = form.saving \/ (r.own /\ form'.saving = FALSE)
      BY <1>e, <3>1, <3>2 DEF Unsaving, FormRecs
    <3>4. form = NoForm => form' = NoForm
      BY <1>e, <3>1 DEF Unsaving, OwnInv, OwnFits
    <3> QED BY <2>3, <2>5, <3>3, <3>4 DEF Kept
  <2>7. busy' \subseteq busy /\ r.phase \notin {"asked", "read"}
    BY <2>1, Clears
  <2> QED BY <1>d, <2>2, <2>3, <2>5, <2>6, <2>7 DEF Follows
<1> QED BY <1>1, <1>2

\* A load that ends shows what it read, and goes on only with a new account.
LEMMA LoadFollows ==
    ASSUME PagesBase, OwnInv, NEW t \in Tasks, NEW succeeds \in BOOLEAN,
           PageLoadEnds(t, succeeds)
    PROVE  Follows(t)
<1> DEFINE r == task[t]
           after == r.op.second = "after"
           gone == form.dialog \in {"kept", "inline"} /\ listed'.ver = 0
           q == IF after THEN [r EXCEPT !.phase = "after", !.copy = Absent] ELSE IdleTask
           f == [task EXCEPT ![t] = q]
<1>a. task \in [Tasks -> TaskRecs] /\ r \in TaskRecs /\ form \in FormRecs /\ Live(t)
      /\ \A u \in Tasks : task[u].own \in BOOLEAN
  BY DEF PagesBase, TaskRecs, PageLoadEnds, Live
<1>1. /\ task' = IF gone THEN Disowned(f) ELSE f
      /\ busy' = (IF after THEN busy ELSE ClearBusy(r.op)) \ {"loading"}
      /\ form' = IF gone THEN NoForm ELSE IF after THEN form ELSE Unsaving(form, t)
      /\ view' = view /\ meddled' = meddled
  BY DEF PageLoadEnds
<1>2. /\ q \in TaskRecs
      /\ after => q.phase = "after" /\ q.op = r.op /\ q.own = r.own
      /\ ~after => q.phase = "idle" /\ q.op = LoadPage /\ q.own = FALSE
  <2>1. CASE after
    <3>1. Absent \in Copies
      BY PagesConstants
    <3> QED BY <1>a, <2>1, <3>1 DEF TaskRecs
  <2>2. CASE ~after
    BY <2>2, PagesConstants DEF IdleTask
  <2> QED BY <2>1, <2>2
<1> HIDE DEF q
<1>3. f \in [Tasks -> TaskRecs] /\ f[t] = q /\ \A u \in Tasks \ {t} : f[u] = task[u]
  BY <1>a, <1>2
<1> HIDE DEF f
<1>4. /\ task'[t].phase = q.phase /\ task'[t].op = q.op
      /\ \A u \in Tasks \ {t} : task'[u].phase = task[u].phase /\ task'[u].op = task[u].op
      /\ gone => \A u \in Tasks : task'[u].own = FALSE
      /\ ~gone => task'[t].own = q.own /\ \A u \in Tasks \ {t} : task'[u].own = task[u].own
  <2>1. CASE gone
    <3>1. \A u \in Tasks : /\ task'[u].own = FALSE /\ task'[u].phase = f[u].phase
                            /\ task'[u].op = f[u].op
      BY <1>1, <1>3, <2>1 DEF Disowned, TaskRecs
    <3> QED BY <1>3, <2>1, <3>1
  <2>2. CASE ~gone
    BY <1>1, <1>3, <2>2
  <2> QED BY <2>1, <2>2
<1>5. "loading" \notin busy' /\ busy' \subseteq busy
  BY <1>1, Clears
<1>6. gone => Closed(t)
  <2>1. NoForm.dialog = "no"
    BY DEF NoForm
  <2> QED BY <1>1, <1>4, <2>1 DEF Closed
<1>7. CASE after
  <2>1. Moves(t)
    BY <1>a, <1>1, <1>2, <1>4, <1>7 DEF Moves, InFlight
  <2>2. ~gone => Kept(t)
    BY <1>1, <1>2, <1>4, <1>7 DEF Kept
  <2> QED BY <1>1, <1>4, <1>5, <1>6, <2>1, <2>2 DEF Follows, OwnInv
<1>8. CASE ~after
  <2>1. /\ form'.saving = form.saving \/ (r.own /\ form'.saving = FALSE) \/ gone
        /\ r.own => ~form'.saving
    BY <1>a, <1>1, <1>8 DEF Unsaving, FormRecs, NoForm
  <2>2. Ends(t)
    <3>1. task'[t].own = FALSE
      BY <1>2, <1>4, <1>8
    <3>2. /\ busy' \cap KeysOf(r.op) \subseteq {"loading"}
          /\ view # "accounts" => busy \ busy' \subseteq KeysOf(r.op) \cup {"loading"}
      BY <1>1, <1>8, Clears
    <3> QED BY <1>a, <1>2, <1>4, <1>8, <2>1, <3>1, <3>2 DEF Ends
  <2>3. ~gone => Kept(t)
    <3> SUFFICES ASSUME ~gone PROVE Kept(t)
      OBVIOUS
    <3>1. form' = Unsaving(form, t)
      BY <1>1, <1>8
    <3>2. form'.op = form.op /\ form'.dialog = form.dialog
      BY <1>a, <3>1 DEF Unsaving, FormRecs
    <3>3. form = NoForm => form' = NoForm
      BY <3>1 DEF Unsaving, OwnInv, OwnFits
    <3> QED BY <1>4, <2>1, <2>2, <3>2, <3>3 DEF Kept
  <2> QED BY <1>1, <1>4, <1>5, <1>6, <2>2, <2>3 DEF Follows, OwnInv
<1> QED BY <1>7, <1>8

\* A refused handler may load the list before it ends.
LEMMA AskFollows ==
    ASSUME PagesBase, OwnInv, NEW t \in Tasks, task[t].phase = "refused",
           AskRow(t, task[t].op, task[t].own), UNCHANGED <<view, form, meddled>>
    PROVE  Follows(t)
<1> DEFINE r == [IdleTask EXCEPT !.op = task[t].op, !.phase = "asked", !.own = task[t].own]
<1>1. r.op = task[t].op /\ r.own = task[t].own /\ r.phase = "asked"
  BY DEF IdleTask
<1>2. task' = [task EXCEPT ![t] = r] /\ MarkLoading
  BY DEF AskRow
<1> HIDE DEF r
<1>3. task'[t] = r /\ \A u \in Tasks \ {t} : task'[u] = task[u]
  BY <1>2 DEF PagesBase
<1>4. busy \subseteq busy' /\ busy' \subseteq busy \cup {"loading"}
  BY <1>2 DEF MarkLoading
<1>5. Moves(t) /\ Kept(t)
  BY <1>1, <1>3, <1>4 DEF Moves, Kept, Live, InFlight
<1> QED BY <1>1, <1>3, <1>4, <1>5 DEF Follows, OwnInv

LEMMA ProgressFollows ==
    ASSUME PagesBase, OwnInv, row \in Copies, row' \in Copies, NEW t \in Tasks, Progress(t)
    PROVE  Follows(t)
<1> DEFINE r == task[t]
<1>a. r \in TaskRecs /\ task \in [Tasks -> TaskRecs]
  BY DEF PagesBase
<1>b. 0 \in Revs /\ Absent \in Copies
  BY PagesConstants, PagesAssumption DEF Revs
<1>c. Refused(r) \in TaskRecs /\ Refused(r).phase = "refused" /\ Refused(r).op = r.op
      /\ Refused(r).own = r.own
  BY <1>a, <1>b DEF Refused, TaskRecs
<1>1. CASE ServeTask(t)
  <2>1. Live(t) /\ r.phase = "sent" /\ UNCHANGED <<view, busy, form, meddled>>
    BY <1>1 DEF ServeTask, Live
  <2>2. CASE Accepts(r)
    <3> DEFINE copy == IF r.op.verb = "create" /\ row # Absent THEN Absent ELSE row'
               next == [r EXCEPT !.phase = "ok", !.sent = 0, !.copy = copy]
    <3>1. task' = [task EXCEPT ![t] = next]
      BY <1>1, <2>2 DEF ServeTask
    <3>2. copy \in Copies
      BY <1>b
    <3> HIDE DEF copy
    <3>3. next \in TaskRecs /\ next.phase = "ok" /\ next.op = r.op /\ next.own = r.own
      BY <1>a, <1>b, <3>2 DEF TaskRecs
    <3> HIDE DEF next
    <3> QED BY <2>1, <3>1, <3>3, MoveFollows DEF InFlight
  <2>3. CASE ~Accepts(r)
    <3>1. task' = [task EXCEPT ![t] = Refused(r)]
      BY <1>1, <2>3 DEF ServeTask
    <3> QED BY <1>c, <2>1, <3>1, MoveFollows DEF InFlight
  <2> QED BY <2>2, <2>3
<1>2. CASE Lose(t)
  <2>1. /\ Live(t) /\ r.phase \in {"sent", "ok"} /\ task' = [task EXCEPT ![t] = Refused(r)]
        /\ UNCHANGED <<view, busy, form, meddled>>
    BY <1>2 DEF Lose, Live
  <2> QED BY <1>c, <2>1, MoveFollows DEF InFlight
<1>3. CASE ReadRow(t)
  <2> DEFINE next == [r EXCEPT !.phase = "read", !.copy = row]
  <2>1. /\ Live(t) /\ task' = [task EXCEPT ![t] = next]
        /\ UNCHANGED <<view, busy, form, meddled>>
    BY <1>3 DEF ReadRow, Live
  <2>2. next \in TaskRecs /\ next.phase = "read" /\ next.op = r.op /\ next.own = r.own
    BY <1>a DEF TaskRecs
  <2> HIDE DEF next
  <2> QED BY <2>1, <2>2, MoveFollows DEF InFlight
<1>4. CASE ReceiveOk(t)
  <2>1. CASE r.op.second = "before"
    <3> DEFINE next == [r EXCEPT !.phase = "second"]
    <3>1. /\ Live(t) /\ r.phase = "ok" /\ task' = [task EXCEPT ![t] = next]
          /\ UNCHANGED <<view, busy, form, meddled>>
      BY <1>4, <2>1 DEF ReceiveOk, Live
    <3>2. next \in TaskRecs /\ next.phase = "second" /\ next.op = r.op /\ next.own = r.own
      BY <1>a DEF TaskRecs
    <3> HIDE DEF next
    <3> QED BY <3>1, <3>2, MoveFollows DEF InFlight
  <2>2. CASE r.op.second # "before"
    BY <1>4, <2>2, SucceedFollows DEF ReceiveOk
  <2> QED BY <2>1, <2>2
<1>5. ASSUME NEW succeeds \in BOOLEAN, SecondEnds(t, succeeds) PROVE Follows(t)
  <2>1. CASE succeeds
    BY <1>5, <2>1, SucceedFollows DEF SecondEnds
  <2>2. CASE ~succeeds
    BY <1>5, <2>2, FinishFollows DEF SecondEnds, Live
  <2> QED BY <2>1, <2>2
<1>6. CASE ReceiveRefused(t)
  <2>1. CASE r.op.fails = "reload"
    BY <1>6, <2>1, AskFollows DEF ReceiveRefused
  <2>2. CASE r.op.fails # "reload"
    BY <1>6, <2>2, FinishFollows DEF ReceiveRefused, Live
  <2> QED BY <2>1, <2>2
<1>7. CASE AfterEnds(t)
  BY <1>7, FinishFollows DEF AfterEnds, Live
<1> QED BY <1>1, <1>2, <1>3, <1>4, <1>5, <1>6, <1>7, LoadFollows DEF Progress

-----------------------------------------------------------------------------
(* The administrator. *)

\* A handler begins: a button's while its flag is free, or a dialog's while
\* the dialog is not saving.
LEMMA BeginOwn ==
    ASSUME PagesBase, PagesBase', OwnInv, UNCHANGED <<view, meddled>>,
           NEW t \in Tasks, task[t].phase = "idle", task'[t].phase # "idle",
           \A u \in Tasks \ {t} : task'[u] = task[u],
           NEW op, task'[t].op = op, Offers(op) \/ op = LoadPage,
           view # "accounts" => /\ busy \subseteq busy'
                                /\ op.key \in Exclusive => op.key \in busy' \ busy,
           \/ /\ task'[t].own = FALSE /\ form' = form
              /\ task'[t].phase \in InFlight /\ view \notin LooseDialogs => ~Modal(op)
           \/ /\ task'[t].own = TRUE /\ form # NoForm /\ ~Saving /\ op = form.op
              /\ form' = [form EXCEPT !.saving = (op.key = "form")]
    PROVE  OwnInv'
<1> USE DEF OwnInv
<1>a. task[t].own = FALSE /\ \A u \in Tasks : task[u].own \in BOOLEAN
  BY DEF OwnFits, Live, PagesBase, TaskRecs
<1>b. /\ form'.op = form.op /\ form'.dialog = form.dialog /\ (form # NoForm <=> form' # NoForm)
      /\ form'.saving => form.saving \/ op.key = "form"
      /\ form'.saving # form.saving => task'[t].own
  <2>1. CASE form' = form
    BY <2>1
  <2>2. CASE form' # form
    <3>1. /\ form' = [form EXCEPT !.saving = (op.key = "form")] /\ form # NoForm /\ task'[t].own
      BY <2>2
    <3>2. form.dialog # "no" /\ NoForm.dialog = "no"
      BY <3>1 DEF FormOffered, NoForm
    <3> QED BY <3>1, <3>2 DEF PagesBase, FormRecs
  <2> QED BY <2>1, <2>2
<1>1. OnPage'
  BY DEF OnPage, Offers
<1>2. FormOffered'
  BY <1>b DEF FormOffered, PagesBase, FormRecs
<1>3. OwnFits'
  BY <1>b DEF OwnFits, Live
<1>4. task'[t].own /\ view # "accounts" => \A u \in Tasks : ~task[u].own
  BY DEF OwnSaves
<1>5. OneOwn'
  BY <1>4, <1>a DEF OneOwn
<1>6. OwnSaves'
  <2> SUFFICES ASSUME view # "accounts", NEW u \in Tasks, task'[u].own PROVE Saving'
    BY DEF OwnSaves
  <2>1. CASE u = t
    <3>1. /\ form # NoForm /\ op = form.op /\ form' = [form EXCEPT !.saving = (op.key = "form")]
      BY <2>1
    <3>2. form'.saving = (op.key = "form")
      BY <3>1 DEF PagesBase, FormRecs
    <3>3. op.key \in {"form"} \cup Exclusive
      BY <3>1, FormButton
    <3> QED BY <1>b, <3>1, <3>2, <3>3 DEF Saving
  <2>2. CASE u # t
    <3>1. task[u].own /\ Saving /\ form' = form
      BY <2>2, <1>4 DEF OwnSaves
    <3> QED BY <3>1 DEF Saving
  <2> QED BY <2>1, <2>2
<1>7. FlagsHeld'
  <2> SUFFICES ASSUME view # "accounts", NEW u \in Tasks, task'[u].phase # "idle",
                      task'[u].op.key \in Exclusive
               PROVE  /\ task'[u].op.key \in busy'
                      /\ \A v \in Tasks : task'[v].phase # "idle"
                             /\ task'[v].op.key = task'[u].op.key => v = u
    BY DEF FlagsHeld, Live, Exclusive
  <2>1. \A v \in Tasks \ {t} : Live(v) /\ task[v].op.key \in Exclusive
                                  => task[v].op.key \in busy
    BY DEF FlagsHeld
  <2>2. CASE u = t
    BY <2>1, <2>2 DEF Live
  <2>3. CASE u # t
    <3>1. /\ task'[u] = task[u] /\ Live(u) /\ task[u].op.key \in busy
          /\ \A v \in Tasks : Live(v) /\ task[v].op.key = task[u].op.key => v = u
      BY <2>3 DEF FlagsHeld, Live
    <3> QED BY <2>3, <3>1 DEF Live
  <2> QED BY <2>2, <2>3
<1>8. AnswersOwned'
  <2> SUFFICES ASSUME view \notin LooseDialogs, NEW u \in Tasks,
                      task'[u].phase \in InFlight, Modal(task[u].op)'
               PROVE  task'[u].own
    BY DEF AnswersOwned, InFlight, Modal
  <2>1. CASE u = t
    BY <2>1 DEF Modal
  <2>2. CASE u # t
    BY <2>2 DEF AnswersOwned, InFlight, Modal
  <2> QED BY <2>1, <2>2
<1> QED BY <1>1, <1>2, <1>3, <1>5, <1>6, <1>7, <1>8

\* The flags of a handler that begins.
LEMMA SetsFlags ==
    ASSUME PagesBase, NEW op
    PROVE  view # "accounts" => /\ busy \subseteq SetBusy(op)
                                /\ op.key \in Exclusive => op.key \in SetBusy(op)
<1>1. CheckVisibleNodes.key = "batch"
  BY DEF CheckVisibleNodes, Op
<1>2. op.key \in Exclusive => op.key \in KeysOf(op)
  BY <1>1 DEF KeysOf, Exclusive
<1> QED BY <1>2, OneFlagEach DEF SetBusy, PagesBase

LEMMA Begun ==
    ASSUME PagesBase, NEW t \in Tasks, NEW op, NEW seen, NEW own, Begin(t, op, seen, own)
    PROVE  /\ task'[t].op = op /\ task'[t].phase = "sent" /\ task'[t].own = own
           /\ task'[t].copy = Absent
           /\ \A u \in Tasks \ {t} : task'[u] = task[u]
  BY DEF PagesBase, Begin

\* A load begins.
LEMMA AskedLoad ==
    ASSUME PagesBase, NEW t \in Tasks, NEW op, NEW own, AskRow(t, op, own)
    PROVE  /\ task'[t].op = op /\ task'[t].phase = "asked" /\ task'[t].own = own
           /\ task'[t].copy = Absent
           /\ \A u \in Tasks \ {t} : task'[u] = task[u]
           /\ busy \subseteq busy' /\ busy' \subseteq busy \cup {"loading"}
<1> DEFINE r == [IdleTask EXCEPT !.op = op, !.phase = "asked", !.own = own]
<1>1. r.op = op /\ r.phase = "asked" /\ r.own = own /\ r.copy = Absent
  BY DEF IdleTask
<1>2. task' = [task EXCEPT ![t] = r] /\ MarkLoading
  BY DEF AskRow
<1> HIDE DEF r
<1> QED BY <1>1, <1>2 DEF MarkLoading, PagesBase

LEMMA UserOwn ==
    ASSUME PagesBase, PagesBase', OwnInv,
           \/ \E t \in Tasks : Load(t) \/ SubmitForm(t)
           \/ \E t \in Tasks, b \in Page[view].buttons : Click(t, b)
           \/ \E b \in Page[view].buttons : OpenDialog(b)
           \/ CloseDialog
    PROVE  OwnInv'
<1>1. ASSUME NEW t \in Tasks, Load(t) PROVE OwnInv'
  <2>1. task[t].phase = "idle" /\ AskRow(t, LoadPage, FALSE) /\ UNCHANGED <<view, form, meddled>>
    BY <1>1 DEF Load, NextTask
  <2>2. LoadPage.key \notin Exclusive
    BY LoadKeys DEF Exclusive
  <2>3. /\ task'[t].op = LoadPage /\ task'[t].phase = "asked" /\ task'[t].own = FALSE
        /\ \A u \in Tasks \ {t} : task'[u] = task[u]
        /\ busy \subseteq busy'
    BY <2>1, AskedLoad
  <2>4. task'[t].phase \notin InFlight
    BY <2>3 DEF InFlight
  <2> QED BY <2>1, <2>2, <2>3, <2>4, BeginOwn
<1>2. ASSUME NEW t \in Tasks, SubmitForm(t) PROVE OwnInv'
  <2>1. /\ task[t].phase = "idle" /\ form # NoForm /\ ~Saving
        /\ Begin(t, form.op, form.seen, TRUE) /\ busy' = SetBusy(form.op)
        /\ form' = [form EXCEPT !.saving = (form.op.key = "form")]
        /\ UNCHANGED <<view, meddled>>
    BY <1>2 DEF SubmitForm, NextTask
  <2>2. Offers(form.op) /\ form.op.key \notin busy
    BY <2>1 DEF OwnInv, FormOffered, Offers, Saving
  <2>3. /\ task'[t].op = form.op /\ task'[t].phase = "sent" /\ task'[t].own = TRUE
        /\ \A u \in Tasks \ {t} : task'[u] = task[u]
    BY <2>1, Begun
  <2> QED BY <2>1, <2>2, <2>3, SetsFlags, BeginOwn
<1>3. ASSUME NEW t \in Tasks, NEW b \in Page[view].buttons, Click(t, b) PROVE OwnInv'
  <2>1. /\ task[t].phase = "idle" /\ b.dialog = "no" /\ b.waits \cap busy = {}
        /\ \E seen \in LookedAt(b.op) : Begin(t, b.op, seen, FALSE)
        /\ busy' = SetBusy(b.op) /\ UNCHANGED <<view, form, meddled>>
    BY <1>3 DEF Click, NextTask, Offered
  <2>2. Offers(b.op)
    BY DEF Offers
  <2>3. view # "accounts" /\ b.op.key \in Exclusive => b.op.key \notin busy
    BY <2>1, ButtonFlags DEF PagesBase, Awaits
  <2>4. view \notin LooseDialogs => ~Modal(b.op)
    BY <2>1, OneDialog DEF Modal, PagesBase
  <2>5. /\ task'[t].op = b.op /\ task'[t].phase = "sent" /\ task'[t].own = FALSE
        /\ \A u \in Tasks \ {t} : task'[u] = task[u]
    BY <2>1, Begun
  <2> QED BY <2>1, <2>2, <2>3, <2>4, <2>5, SetsFlags, BeginOwn
<1>4. ASSUME NEW b \in Page[view].buttons, OpenDialog(b) PROVE OwnInv'
  <2>1. /\ form = NoForm /\ b.dialog # "no" /\ UNCHANGED <<view, busy, task, meddled>>
        /\ form'.op = b.op /\ form'.dialog = b.dialog /\ form'.saving = FALSE
    BY <1>4 DEF OpenDialog
  <2>2. \A t \in Tasks : ~task[t].own
    BY <2>1 DEF OwnInv, OwnFits
  <2>3. FormOffered'
    BY <2>1 DEF FormOffered
  <2> QED BY <2>1, <2>2, <2>3
      DEF OwnInv, OnPage, Offers, OwnFits, OwnSaves, OneOwn, FlagsHeld, Live, AnswersOwned, Modal
<1>5. CASE CloseDialog
  <2>1. /\ form # NoForm /\ (form.dialog = "modal" => ~Saving) /\ form' = NoForm
        /\ UNCHANGED <<view, busy, meddled>>
        /\ \A t \in Tasks : /\ task'[t].op = task[t].op /\ task'[t].phase = task[t].phase
                             /\ task'[t].own = FALSE
    BY <1>5 DEF CloseDialog, Disowned, PagesBase, TaskRecs
  <2>2. FormOffered'
    BY <2>1 DEF FormOffered, NoForm
  <2>3. OnPage' /\ OwnFits' /\ OwnSaves' /\ OneOwn' /\ FlagsHeld'
    BY <2>1 DEF OwnInv, OnPage, Offers, OwnFits, OwnSaves, OneOwn, FlagsHeld, Live
  <2>4. AnswersOwned'
    <3> SUFFICES ASSUME view \notin LooseDialogs, NEW t \in Tasks, task[t].phase \in InFlight,
                        Modal(task[t].op)
                 PROVE  FALSE
      BY <2>1 DEF AnswersOwned, InFlight, Modal
    <3>1. task[t].own
      BY DEF OwnInv, AnswersOwned, InFlight
    <3>2. task[t].op = form.op /\ Saving
      BY <3>1 DEF OwnInv, OwnFits, OwnSaves, LooseDialogs
    <3> QED BY <2>1, <3>2, FormButton DEF OwnInv
  <2> QED BY <2>1, <2>2, <2>3, <2>4 DEF OwnInv
<1> QED BY <1>1, <1>2, <1>3, <1>4, <1>5

-----------------------------------------------------------------------------
(* A dialog gets its own answers. *)

LEMMA OwnStart == PagesInit => OwnInv
<1> SUFFICES ASSUME PagesInit PROVE OwnInv
  OBVIOUS
<1>1. /\ busy = {"loading"} /\ form = NoForm /\ meddled = FALSE
  BY DEF PagesInit
<1>2. \A t \in Tasks : /\ task[t].op = LoadPage /\ task[t].own = FALSE
                       /\ task[t].phase \in {"idle", "asked"}
  <2>1. PICK first : task = [t \in Tasks |-> IF t = first THEN [IdleTask EXCEPT !.phase = "asked"]
                                             ELSE IdleTask]
    BY DEF PagesInit
  <2>2. /\ IdleTask.op = LoadPage /\ IdleTask.own = FALSE /\ IdleTask.phase = "idle"
        /\ [IdleTask EXCEPT !.phase = "asked"].op = LoadPage
        /\ [IdleTask EXCEPT !.phase = "asked"].own = FALSE
        /\ [IdleTask EXCEPT !.phase = "asked"].phase = "asked"
    BY DEF IdleTask
  <2> QED BY <2>1, <2>2
<1>3. LoadPage.key \notin Exclusive /\ NoForm.saving = FALSE
  BY LoadKeys DEF Exclusive, NoForm
<1> QED BY <1>1, <1>2, <1>3
    DEF OwnInv, OnPage, FormOffered, OwnFits, OwnSaves, OneOwn, FlagsHeld, AnswersOwned

LEMMA OwnStep == PagesInv /\ OwnInv /\ [PagesNext]_pages => OwnInv'
<1> SUFFICES ASSUME PagesInv, OwnInv, [PagesNext]_pages PROVE OwnInv'
  OBVIOUS
<1>1. PagesInv' /\ PagesBase /\ PagesBase' /\ row \in Copies /\ row' \in Copies
  <2>1. PagesInv'
    BY PagesStepInv
  <2>2. PagesTypeOK /\ PagesTypeOK'
    BY <2>1 DEF PagesInv
  <2> QED BY <2>1, <2>2, BaseTyped DEF PagesTypeOK, PagesBase, FormRecs, TaskRecs, Handlers, Revs
<1>2. CASE \E t \in Tasks : Progress(t)
  BY <1>1, <1>2, ProgressFollows, OwnFollows
<1>3. ASSUME NEW how \in {"edit", "delete"}, Foreign(how) PROVE OwnInv'
  <2>1. UNCHANGED <<view, busy, form, task, meddled>>
    BY <1>3 DEF Foreign
  <2> QED BY <2>1
      DEF OwnInv, OnPage, Offers, FormOffered, OwnFits, OwnSaves, Saving, OneOwn, FlagsHeld, Live,
          AnswersOwned, Modal
<1>4. CASE UNCHANGED pages
  <2>1. UNCHANGED <<view, busy, form, task, meddled>>
    BY <1>4 DEF pages
  <2> QED BY <2>1
      DEF OwnInv, OnPage, Offers, FormOffered, OwnFits, OwnSaves, Saving, OneOwn, FlagsHeld, Live,
          AnswersOwned, Modal
<1> QED BY <1>1, <1>2, <1>3, <1>4, UserOwn DEF PagesNext

LEMMA OwnHolds == ConsoleSpec => []OwnInv
<1>1. ConsoleInit => OwnInv
  BY OwnStart DEF ConsoleInit, Resting
<1>2. PagesInv /\ OwnInv /\ [ConsoleNext]_console => OwnInv'
  BY PagesMove, OwnStep
<1> QED BY <1>1, <1>2, PagesHold, PTL DEF ConsoleSpec

\* An answer closes the dialog that asked and none opened since, and a dialog
\* submits once at a time, for any number of handlers in flight and every order
\* of their answers; except on the pages the property names.
THEOREM DialogsOwnAnswersHolds == ConsoleSpec => []DialogsOwnAnswers
<1>1. OwnInv => DialogsOwnAnswers
  BY DEF OwnInv, OneOwn, DialogsOwnAnswers
<1> QED BY <1>1, OwnHolds, PTL

-----------------------------------------------------------------------------
(* A page at rest: flags and dialogs. *)

\* The handler that goes on after its load has a flag of its own.
LEMMA AfterKey ==
    ASSUME NEW p \in Pages, NEW b \in Page[p].buttons, b.op.second = "after"
    PROVE  b.op.key # "form"
<1>1. p = "accounts"
  BY ButtonFlags
<1>2. b \in AccountsPanel
  BY <1>1 DEF Page, AccountsPage, PageOf
<1>3. b.op \in {SweepAccounts, AddAccount, DeleteAccount}
  BY <1>2 DEF AccountsPanel, Button
<1> QED BY <1>3 DEF SweepAccounts, AddAccount, DeleteAccount, Op

\* What the handlers have in common: a request that changes the record shows
\* what became of it, and a second request is followed by a load.
Shows(op) ==
    /\ op.verb # "probe" => op.ok \in {"reload", "patch", "drop"}
    /\ op.ok = "patch" => op.verb \in {"create", "edit", "act"}
    /\ op.ok = "drop" => op.verb = "delete"
    /\ op.verb \in {"create", "edit", "act", "delete", "probe"}
    /\ op.second = "before" => op.ok = "reload"
    /\ op.key # "loading"

LEMMA OpsShow == ASSUME NEW op \in Handlers PROVE Shows(op) /\ "loading" \notin KeysOf(op)
<1>1. op \in AllOps
  BY PageButtons DEF Handlers, Ops, AllOps
<1> USE DEF Op, Shows
<1>2. Shows(LoadPage) /\ Shows(RefreshSubscription) /\ Shows(CheckSubscription)
      /\ Shows(RefreshSubscriptions) /\ Shows(CheckNodes) /\ Shows(CreateSubscription)
      /\ Shows(SaveSubscription) /\ Shows(DeleteSubscription)
  BY DEF LoadPage, RefreshSubscription, CheckSubscription, RefreshSubscriptions, CheckNodes,
         CreateSubscription, SaveSubscription, DeleteSubscription
<1>3. Shows(CheckNode) /\ Shows(CheckVisibleNodes) /\ Shows(ToggleNode) /\ Shows(ApplyDataPlane)
      /\ Shows(CreateProxyService) /\ Shows(EditProxyService) /\ Shows(RemoveService)
  BY DEF CheckNode, CheckVisibleNodes, ToggleNode, ApplyDataPlane, CreateProxyService,
         EditProxyService, RemoveService
<1>4. Shows(SaveRules) /\ Shows(SaveGroupRoutes) /\ Shows(CreateChannel) /\ Shows(SaveChannel)
      /\ Shows(SaveEndpoint) /\ Shows(DeleteChannel) /\ Shows(RotateSession)
  BY DEF SaveRules, SaveGroupRoutes, CreateChannel, SaveChannel, SaveEndpoint, DeleteChannel,
         RotateSession
<1>5. Shows(CreateProvider) /\ Shows(SaveProvider) /\ Shows(DeleteProvider) /\ Shows(TestProvider)
      /\ Shows(AddAccount) /\ Shows(DeleteAccount) /\ Shows(SweepAccounts)
  BY DEF CreateProvider, SaveProvider, DeleteProvider, TestProvider, AddAccount, DeleteAccount,
         SweepAccounts
<1>6. Shows(AcknowledgeAlert) /\ Shows(SaveAlertSettings) /\ Shows(TestAlertSettings)
      /\ Shows(CreateArtifact) /\ Shows(VerifyArtifact) /\ Shows(DeleteArtifact)
  BY DEF AcknowledgeAlert, SaveAlertSettings, TestAlertSettings, CreateArtifact, VerifyArtifact,
         DeleteArtifact
<1> HIDE DEF Op, Shows
<1>7. Shows(op)
  BY <1>1, <1>2, <1>3, <1>4, <1>5, <1>6 DEF AllOps
<1> QED BY <1>7 DEF Shows, KeysOf

\* A handler that ends clears its flags; one that goes on answers for them.
LEMMA FlagsFollow ==
    ASSUME PagesBase, PagesBase', OwnInv, FlagsCleared, SavingEnds, NEW t \in Tasks, Follows(t)
    PROVE  FlagsCleared' /\ SavingEnds'
<1>a. \A u \in Tasks \ {t} : task'[u].phase = task[u].phase /\ task'[u].op = task[u].op
  BY DEF Follows
<1>1. FlagsCleared'
  <2>1. ASSUME "loading" \in busy' PROVE \E u \in Tasks : task'[u].phase \in {"asked", "read"}
    BY <1>a, <2>1 DEF Follows, FlagsCleared
  <2>2. ASSUME NEW k \in busy' \ {"loading"}
        PROVE  \E u \in Tasks : task'[u].phase # "idle" /\ k \in KeysOf(task'[u].op)
    <3>1. k \in busy
      BY <2>2 DEF Follows
    <3>2. PICK u \in Tasks : Live(u) /\ k \in KeysOf(task[u].op)
      BY <2>2, <3>1 DEF FlagsCleared
    <3>3. CASE u = t
      <4>1. ~Ends(t)
        BY <2>2, <3>2, <3>3 DEF Ends
      <4> QED BY <3>2, <3>3, <4>1 DEF Follows, Moves
    <3>4. CASE u # t
      BY <1>a, <3>2, <3>4 DEF Live
    <3> QED BY <3>3, <3>4
  <2> QED BY <2>1, <2>2 DEF FlagsCleared, Live
<1>2. SavingEnds'
  <2> SUFFICES ASSUME form'.saving
               PROVE  \E u \in Tasks : task'[u].own /\ task'[u].phase \notin {"idle", "after"}
    BY DEF SavingEnds
  <2>1. Kept(t) /\ form.saving
    <3>1. form.saving \in BOOLEAN /\ form'.saving \in BOOLEAN
      BY DEF PagesBase, FormRecs
    <3>2. NoForm.saving = FALSE
      BY DEF NoForm
    <3>3. Closed(t) => form'.saving = FALSE
      BY <3>2 DEF Closed
    <3> QED BY <3>1, <3>3 DEF Follows, Kept
  <2>2. PICK u \in Tasks : task[u].own /\ task[u].phase \notin {"idle", "after"}
    BY <2>1 DEF SavingEnds
  <2>3. CASE u # t
    BY <1>a, <2>1, <2>2, <2>3 DEF Kept
  <2>4. CASE u = t
    <3>1. ~Ends(t)
      BY <2>2, <2>4 DEF Ends
    <3>2. Moves(t) /\ task'[t].own
      BY <2>1, <2>2, <2>4, <3>1 DEF Follows, Kept
    <3>3. task'[t].phase # "after"
      <4> SUFFICES ASSUME task[t].op.second = "after" PROVE FALSE
        BY <3>2 DEF Moves
      <4>1. form # NoForm /\ task[t].op = form.op /\ form.op.key = "form"
        BY <2>1, <2>2, <2>4 DEF OwnInv, OwnFits, FormOffered
      <4> QED BY <4>1, AfterKey DEF OwnInv, FormOffered, PagesBase
    <3> QED BY <2>4, <3>2, <3>3 DEF Moves
  <2> QED BY <2>3, <2>4
<1> QED BY <1>1, <1>2

\* A handler that begins answers for the flags it sets.
LEMMA BeginFlags ==
    ASSUME PagesBase, FlagsCleared, SavingEnds, NEW t \in Tasks, task[t].phase = "idle",
           \A u \in Tasks \ {t} : task'[u] = task[u],
           task'[t].phase \in {"sent", "asked"}, NEW op \in Handlers, task'[t].op = op,
           \/ task'[t].phase = "sent" /\ busy' = SetBusy(op)
           \/ task'[t].phase = "asked" /\ busy' \subseteq busy \cup {"loading"},
           \/ form' = form
           \/ task'[t].own
    PROVE  FlagsCleared' /\ SavingEnds'
<1>1. "loading" \in busy' => "loading" \in busy \/ task'[t].phase = "asked"
  BY OpsShow DEF SetBusy
<1>2. FlagsCleared'
  <2>1. \A k \in busy' \ {"loading"} : k \in busy \/ k \in KeysOf(op)
    BY DEF SetBusy
  <2>2. ASSUME NEW k \in busy' \ {"loading"}
        PROVE  \E u \in Tasks : task'[u].phase # "idle" /\ k \in KeysOf(task'[u].op)
    <3>1. CASE k \in KeysOf(op)
      BY <3>1
    <3>2. CASE k \in busy
      <4>1. PICK u \in Tasks : Live(u) /\ k \in KeysOf(task[u].op)
        BY <2>2, <3>2 DEF FlagsCleared
      <4>2. u # t /\ task'[u] = task[u]
        BY <4>1 DEF Live
      <4> QED BY <4>1, <4>2 DEF Live
    <3> QED BY <2>1, <2>2, <3>1, <3>2
  <2>3. ASSUME "loading" \in busy' PROVE \E u \in Tasks : task'[u].phase \in {"asked", "read"}
    <3>1. CASE "loading" \in busy
      <4>1. PICK u \in Tasks : task[u].phase \in {"asked", "read"}
        BY <3>1 DEF FlagsCleared
      <4> QED BY <4>1
    <3> QED BY <1>1, <2>3, <3>1
  <2> QED BY <2>2, <2>3 DEF FlagsCleared, Live
<1>3. SavingEnds'
  BY DEF SavingEnds
<1> QED BY <1>2, <1>3

-----------------------------------------------------------------------------
(* A page at rest: copies. *)

RestBase ==
    /\ PagesBase /\ row \in Copies /\ listed \in Copies /\ excused \in BOOLEAN
    /\ \A t \in Tasks : task[t].copy \in Copies

LEMMA RestTyped == PagesInv => RestBase
  BY PagesTyped DEF PagesInv, PagesBase, RestBase, TaskRecs

LEMMA CopyTyped ==
    ASSUME NEW c \in Copies
    PROVE  c.ver \in Nat /\ c.rev \in Nat /\ Absent.ver = 0 /\ Absent.rev = 0
  BY PagesAssumption DEF Copies, Absent

\* How a step treats the record and its copies: the record goes one change on,
\* a copy is new only as the record is, the list takes one on its way to it.
RowSteps == row' = row \/ (row'.rev = row.rev + 1 /\ (row.ver # 0 \/ row = Absent))
CopySteps ==
    /\ RowSteps
    /\ \A u \in Tasks :
          /\ Carries(task[u])' => \/ task'[u].copy = row'
                                  \/ Carries(task[u]) /\ task'[u].copy = task[u].copy
          /\ task'[u].copy \in {task[u].copy, row', Absent}
    /\ \/ listed' = listed
       \/ listed.ver # 0 /\ listed'.ver # 0 /\ listed'.rev # 0
       \/ \E u \in Tasks : Carries(task[u]) /\ listed' = task[u].copy
    /\ Known' => Known \/ listed.ver # 0

LEMMA CopiesStep ==
    ASSUME RestBase, RestBase', CopiesOfRow, CopySteps
    PROVE  CopiesOfRow'
<1>a. /\ row.ver \in Nat /\ row.rev \in Nat /\ row'.ver \in Nat /\ row'.rev \in Nat
      /\ listed.ver \in Nat /\ listed.rev \in Nat /\ Absent.ver = 0 /\ Absent.rev = 0
      /\ \A u \in Tasks : /\ task[u].copy.ver \in Nat /\ task[u].copy.rev \in Nat
                          /\ task'[u].copy.ver \in Nat /\ task'[u].copy.rev \in Nat
  BY CopyTyped DEF RestBase
<1> DEFINE Born == /\ row.ver # 0 => row.rev # 0
                   /\ listed.ver # 0 => listed.rev # 0
                   /\ \A u \in Tasks : task[u].copy.ver # 0 => task[u].copy.rev # 0
<1>1. row' = Absent => row = Absent
  BY <1>a DEF CopySteps, RowSteps
<1>2. row = Absent => /\ listed.ver = 0 /\ listed'.ver = 0 /\ ~Known'
                      /\ \A u \in Tasks : task[u].copy.ver = 0
  BY DEF CopiesOfRow, CopySteps
<1>3. ASSUME Born PROVE Born'
  <2>1. row'.ver # 0 => row'.rev # 0
    BY <1>3, <1>a DEF CopySteps, RowSteps
  <2>2. listed'.ver # 0 => listed'.rev # 0
    BY <1>3 DEF CopySteps
  <2>3. \A u \in Tasks : task'[u].copy.ver # 0 => task'[u].copy.rev # 0
    BY <1>3, <1>a, <2>1 DEF CopySteps
  <2> QED BY <2>1, <2>2, <2>3
<1>4. ASSUME row' = Absent PROVE Born' /\ \A u \in Tasks : task'[u].copy.ver = 0
  <2>1. \A u \in Tasks : task'[u].copy.ver = 0
    BY <1>1, <1>2, <1>4, <1>a DEF CopySteps
  <2> QED BY <1>1, <1>2, <1>4, <1>a, <2>1
<1>5. \A u \in Tasks : Carries(task[u]) =>
        /\ task[u].copy.rev < row.rev \/ task[u].copy = row
        /\ task[u].copy.ver = 0 => task[u].copy = Absent \/ task[u].copy = row
        /\ task[u].copy = Absent => Born
  BY DEF CopiesOfRow
<1> HIDE DEF Born
<1>6. ASSUME NEW u \in Tasks, Carries(task[u])'
      PROVE  /\ task'[u].copy.rev < row'.rev \/ task'[u].copy = row'
             /\ task'[u].copy.ver = 0 => task'[u].copy = Absent \/ task'[u].copy = row'
             /\ task'[u].copy = Absent => Born'
  <2>1. CASE task'[u].copy = row'
    BY <1>4, <2>1
  <2>2. CASE Carries(task[u]) /\ task'[u].copy = task[u].copy
    <3>1. task'[u].copy.rev < row'.rev \/ task'[u].copy = row'
      BY <1>5, <1>a, <2>2 DEF CopySteps, RowSteps
    <3>2. task'[u].copy.ver = 0 => task'[u].copy = Absent \/ task'[u].copy = row'
      BY <1>5, <1>a, <2>2 DEF CopySteps, RowSteps
    <3> QED BY <1>3, <1>5, <2>2, <3>1, <3>2
  <2> QED BY <1>6, <2>1, <2>2 DEF CopySteps
<1>7. row' = Absent => listed'.ver = 0 /\ ~Known' /\ \A u \in Tasks : task'[u].copy.ver = 0
  BY <1>1, <1>2, <1>4
<1> QED BY <1>6, <1>7 DEF CopiesOfRow, Born

\* The list and the record stay, or the page has an excuse.
LEMMA ListStays ==
    ASSUME ListCatchesUp, GoneForGood, excused \in BOOLEAN, excused' \in BOOLEAN,
           \/ excused' = TRUE
           \/ /\ UNCHANGED <<row, listed, excused>>
              /\ Known' => Known \/ listed.ver # 0
              /\ \A u \in Tasks : Brings(task[u])
                                      => excused \/ listed = row \/ Brings(task[u])'
    PROVE  ListCatchesUp' /\ GoneForGood'
  BY DEF ListCatchesUp, GoneForGood

\* The list takes a copy.
LEMMA ListTakes ==
    ASSUME RestBase, CopiesOfRow, ListCatchesUp, GoneForGood, row' = row, excused' \in BOOLEAN,
           NEW t \in Tasks, Carries(task[t]), ShowCopy(task[t].copy),
           Brings(task[t]) => task[t].copy = row,
           Known' => Known, \A u \in Tasks \ {t} : Brings(task[u]) => Brings(task[u])'
    PROVE  ListCatchesUp' /\ GoneForGood'
<1> DEFINE c == task[t].copy
<1>1. listed' = c /\ excused' = (c # row /\ (excused \/ c.rev < listed.rev))
  BY DEF ShowCopy
<1>2. CASE c = row
  BY <1>1, <1>2 DEF ListCatchesUp, GoneForGood
<1>3. CASE c # row /\ excused'
  BY <1>3 DEF ListCatchesUp, GoneForGood
<1>4. CASE c # row /\ ~excused'
  <2>1. /\ c.rev \in Nat /\ listed.rev \in Nat /\ row.rev \in Nat /\ Absent.rev = 0
        /\ listed.ver \in Nat
    BY CopyTyped DEF RestBase
  <2>2. ~excused /\ ~(c.rev < listed.rev)
    BY <1>1, <1>4
  <2>3. c.rev < row.rev /\ (c.ver = 0 => c = Absent)
        /\ (c = Absent => (listed.ver # 0 => listed.rev # 0))
    BY <1>4 DEF CopiesOfRow
  <2>4. listed # row
    BY <2>1, <2>2, <2>3
  <2>5. PICK u \in Tasks : Brings(task[u])
    BY <2>2, <2>4 DEF ListCatchesUp
  <2>6. u # t
    BY <1>4, <2>5
  <2>7. ListCatchesUp'
    BY <2>5, <2>6 DEF ListCatchesUp
  <2>8. ~Known' \/ listed'.ver # 0
    <3> SUFFICES ASSUME Known, c.ver = 0 PROVE FALSE
      BY <1>1
    <3>1. listed.ver = 0
      BY <2>1, <2>2, <2>3
    <3> QED BY <2>2, <2>4, <3>1 DEF GoneForGood
  <2> QED BY <2>7, <2>8 DEF GoneForGood
<1> QED BY <1>2, <1>3, <1>4

\* Where a step takes a handler, disowned or not.
Lands(t, q) ==
    /\ task'[t].phase = q.phase /\ task'[t].op = q.op /\ task'[t].copy = q.copy
    /\ \A u \in Tasks \ {t} : /\ task'[u].phase = task[u].phase /\ task'[u].op = task[u].op
                              /\ task'[u].copy = task[u].copy

LEMMA LandsAt ==
    ASSUME PagesBase, NEW t \in Tasks, NEW q \in TaskRecs,
           \/ task' = [task EXCEPT ![t] = q]
           \/ task' = Disowned([task EXCEPT ![t] = q])
    PROVE  Lands(t, q)
<1> DEFINE f == [task EXCEPT ![t] = q]
<1>1. f \in [Tasks -> TaskRecs] /\ f[t] = q /\ \A u \in Tasks \ {t} : f[u] = task[u]
  BY DEF PagesBase
<1> HIDE DEF f
<1>2. task' = f \/ task' = Disowned(f)
  BY DEF f
<1>3. \A u \in Tasks : /\ task'[u].phase = f[u].phase /\ task'[u].op = f[u].op
                       /\ task'[u].copy = f[u].copy
  BY <1>1, <1>2 DEF Disowned, TaskRecs
<1> QED BY <1>1, <1>3 DEF Lands

\* Answers bring no record to the page that it has not shown.
LEMMA KnownFollows ==
    ASSUME PagesBase, NEW t \in Tasks, Follows(t)
    PROVE  Known' => Known
<1>1. ~OfRecord(LoadPage) /\ NoForm.op = LoadPage
  BY LoadKeys DEF OfRecord, NoForm
<1>2. \A u \in Tasks : task'[u].op \in {task[u].op, LoadPage}
  BY DEF Follows, Moves, Ends
<1>3. form'.op \in {form.op, LoadPage}
  BY <1>1 DEF Follows, Kept, Closed
<1>4. OfRecord(form'.op) => OfRecord(form.op)
  BY <1>1, <1>3
<1>5. \A u \in Tasks : OfRecord(task'[u].op) => OfRecord(task[u].op)
  BY <1>1, <1>2
<1> QED BY <1>4, <1>5 DEF Known

\* The other handlers carry and bring what they did.
LEMMA OthersStay ==
    ASSUME NEW t \in Tasks, NEW q, Lands(t, q), NEW u \in Tasks \ {t}
    PROVE  /\ Carries(task[u])' <=> Carries(task[u])
           /\ task'[u].copy = task[u].copy
           /\ row' = row => (Brings(task[u])' <=> Brings(task[u]))
  BY DEF Lands, Carries, Brings

LEMMA LandsCarries ==
    ASSUME NEW t \in Tasks, NEW q, Lands(t, q)
    PROVE  /\ Carries(task[t])' <=> Carries(q)
           /\ row' = row => (Brings(task[t])' <=> Brings(q))
  BY DEF Lands, Carries, Brings

\* A handler goes on and the list stays.
LEMMA GoesOn ==
    ASSUME RestBase, RestBase', ListCatchesUp, GoneForGood, NEW t \in Tasks,
           NEW q, Lands(t, q), Known' => Known, UNCHANGED <<row, listed>>,
           Carries(q) => q.copy = row \/ (Carries(task[t]) /\ q.copy = task[t].copy),
           q.copy \in {task[t].copy, row, Absent},
           \/ excused' = TRUE
           \/ excused' = excused
              /\ (Brings(task[t]) => excused \/ listed = row \/ Brings(q))
    PROVE  CopySteps /\ ListCatchesUp' /\ GoneForGood'
<1>1. CopySteps
  <2>1. \A u \in Tasks :
          /\ Carries(task[u])' => \/ task'[u].copy = row'
                                  \/ Carries(task[u]) /\ task'[u].copy = task[u].copy
          /\ task'[u].copy \in {task[u].copy, row', Absent}
    <3> TAKE u \in Tasks
    <3>1. CASE u = t
      BY <3>1, LandsCarries DEF Lands
    <3>2. CASE u # t
      BY <3>2, OthersStay
    <3> QED BY <3>1, <3>2
  <2> QED BY <2>1 DEF CopySteps, RowSteps
<1>2. excused \in BOOLEAN /\ excused' \in BOOLEAN
  BY DEF RestBase
<1>3. excused' # TRUE =>
        /\ UNCHANGED <<row, listed, excused>>
        /\ \A u \in Tasks : Brings(task[u]) => excused \/ listed = row \/ Brings(task[u])'
  <2> SUFFICES ASSUME excused' = excused,
                      Brings(task[t]) => excused \/ listed = row \/ Brings(q),
                      NEW u \in Tasks, Brings(task[u])
               PROVE  excused \/ listed = row \/ Brings(task[u])'
    OBVIOUS
  <2>1. CASE u = t
    BY <2>1, LandsCarries
  <2>2. CASE u # t
    BY <2>2, OthersStay
  <2> QED BY <2>1, <2>2
<1> QED BY <1>1, <1>2, <1>3, ListStays

\* A handler's copy is shown, and the handler is done with it.
LEMMA TakesCopy ==
    ASSUME RestBase, RestBase', CopiesOfRow, ListCatchesUp, GoneForGood, NEW t \in Tasks,
           NEW q, Lands(t, q), Known' => Known, row' = row, Carries(task[t]),
           ShowCopy(task[t].copy), Brings(task[t]) => task[t].copy = row,
           ~Carries(q), q.copy = Absent
    PROVE  CopySteps /\ ListCatchesUp' /\ GoneForGood'
<1>1. CopySteps
  <2>1. \A u \in Tasks :
          /\ Carries(task[u])' => \/ task'[u].copy = row'
                                  \/ Carries(task[u]) /\ task'[u].copy = task[u].copy
          /\ task'[u].copy \in {task[u].copy, row', Absent}
    <3> TAKE u \in Tasks
    <3>1. CASE u = t
      BY <3>1, LandsCarries DEF Lands
    <3>2. CASE u # t
      BY <3>2, OthersStay
    <3> QED BY <3>1, <3>2
  <2> QED BY <2>1 DEF CopySteps, RowSteps, ShowCopy
<1>2. \A u \in Tasks \ {t} : Brings(task[u]) => Brings(task[u])'
  BY OthersStay
<1>3. excused' \in BOOLEAN
  BY DEF RestBase
<1> QED BY <1>1, <1>2, <1>3, ListTakes

\* The server acts on a request: what has changed is on its way to the list.
LEMMA ServeRest ==
    ASSUME RestBase, RestBase', CopiesOfRow, ListCatchesUp, GoneForGood, NEW t \in Tasks,
           Known' => Known, ServeTask(t), Accepts(task[t])
    PROVE  CopySteps /\ ListCatchesUp' /\ GoneForGood'
<1> DEFINE r == task[t]
           copy == IF r.op.verb = "create" /\ row # Absent THEN Absent ELSE row'
           next == [r EXCEPT !.phase = "ok", !.sent = 0, !.copy = copy]
<1>a. /\ r \in TaskRecs /\ r.op \in Handlers /\ task \in [Tasks -> TaskRecs] /\ PagesBase
      /\ row.ver \in Nat /\ row.rev \in Nat /\ row'.ver \in Nat /\ row'.rev \in Nat
      /\ Absent.ver = 0 /\ row \in Copies /\ row' \in Copies
  BY CopyTyped DEF RestBase, PagesBase, TaskRecs
<1>b. Shows(r.op)
  BY <1>a, OpsShow
<1>1. /\ r.phase = "sent" /\ row' = Change(r.op.verb) /\ task' = [task EXCEPT ![t] = next]
      /\ UNCHANGED <<listed, excused>>
  BY DEF ServeTask
<1>2. next.phase = "ok" /\ next.op = r.op /\ next.copy = copy
  BY <1>a DEF TaskRecs
<1>3. Lands(t, next)
  <2>1. copy \in Copies /\ 0 \in Revs
    BY <1>a, PagesConstants, PagesAssumption DEF Revs
  <2> HIDE DEF copy
  <2>2. next \in TaskRecs
    BY <1>a, <2>1 DEF TaskRecs
  <2> HIDE DEF next
  <2> QED BY <1>1, <1>a, <2>2, LandsAt
<1> HIDE DEF next
<1>4. /\ RowSteps
      /\ row' # row => r.op.verb # "probe" /\ copy = row'
                       /\ (row'.ver # 0 \/ r.op.verb = "delete")
      /\ r.op.verb = "act" => row'.ver # 0
  <2>1. r.op.verb \in {"create", "edit", "act", "delete", "probe"}
    BY <1>b DEF Shows
  <2>2. CASE r.op.verb = "create"
    BY <1>1, <1>a, <2>2 DEF Change, RowSteps, Absent
  <2>3. CASE r.op.verb = "edit"
    BY <1>1, <1>a, <2>3 DEF Change, RowSteps, Accepts
  <2>4. CASE r.op.verb = "act"
    <3>1. row'.ver = row.ver /\ (row' = row \/ row'.rev = row.rev + 1)
      BY <1>1, <1>a, <2>4 DEF Change, Copies
    <3> QED BY <1>a, <2>4, <3>1 DEF RowSteps, Accepts
  <2>5. CASE r.op.verb = "delete"
    BY <1>1, <1>a, <2>5 DEF Change, RowSteps, Accepts
  <2>6. CASE r.op.verb = "probe"
    BY <1>1, <2>6 DEF Change, RowSteps
  <2> QED BY <2>1, <2>2, <2>3, <2>4, <2>5, <2>6
<1>5. CopySteps
  <2>1. \A u \in Tasks :
          /\ Carries(task[u])' => \/ task'[u].copy = row'
                                  \/ Carries(task[u]) /\ task'[u].copy = task[u].copy
          /\ task'[u].copy \in {task[u].copy, row', Absent}
    <3> TAKE u \in Tasks
    <3>1. CASE u = t
      <4>1. task'[u].copy = copy /\ task'[u].op = r.op /\ task'[u].phase = "ok"
        BY <1>2, <1>3, <3>1 DEF Lands
      <4>2. copy = row' \/ (copy = Absent /\ r.op.verb = "create")
        OBVIOUS
      <4> QED BY <1>a, <4>1, <4>2 DEF Carries
    <3>2. CASE u # t
      BY <1>3, <3>2, OthersStay
    <3> QED BY <3>1, <3>2
  <2> QED BY <1>1, <1>4, <2>1 DEF CopySteps
<1>6. ListCatchesUp'
  <2>1. CASE row' = row
    <3>1. CASE ListCatchesUp /\ (excused \/ listed = row)
      BY <1>1, <2>1, <3>1 DEF ListCatchesUp
    <3>2. ASSUME NEW u \in Tasks, Brings(task[u]) PROVE ListCatchesUp'
      <4>1. CASE u # t
        <5>1. Brings(task[u])'
          BY <1>3, <2>1, <3>2, <4>1, OthersStay
        <5> QED BY <5>1 DEF ListCatchesUp
      <4>2. CASE u = t
        <5>1. r.op = CheckVisibleNodes
          BY <1>1, <3>2, <4>2 DEF Brings
        <5>2. r.op.verb = "act" /\ r.op.ok = "patch"
          BY <5>1 DEF CheckVisibleNodes, Op
        <5>3. copy = row' /\ row'.ver # 0
          BY <1>4, <5>2
        <5>4. Brings(task[t])'
          BY <1>2, <1>3, <5>2, <5>3 DEF Lands, Brings
        <5> QED BY <5>4 DEF ListCatchesUp
      <4> QED BY <4>1, <4>2
    <3> QED BY <3>1, <3>2 DEF ListCatchesUp
  <2>2. CASE row' # row
    <3>1. /\ r.op.ok \in {"reload", "patch", "drop"} /\ copy = row'
          /\ r.op.ok = "patch" => row'.ver # 0
      BY <1>4, <1>b, <2>2 DEF Shows
    <3>2. Brings(task[t])'
      BY <1>2, <1>3, <3>1 DEF Lands, Brings
    <3> QED BY <3>2 DEF ListCatchesUp
  <2> QED BY <2>1, <2>2
<1>7. GoneForGood'
  <2> SUFFICES ASSUME ~excused, listed.ver = 0, Known PROVE row' = listed
    BY <1>1 DEF GoneForGood
  <2>1. listed = row /\ row # Absent
    BY DEF GoneForGood, CopiesOfRow
  <2> QED BY <1>4, <2>1 DEF RowSteps
<1> QED BY <1>5, <1>6, <1>7

CopyInv == CopiesOfRow /\ ListCatchesUp /\ GoneForGood

LEMMA ConstantsRest ==
    /\ IdleTask \in TaskRecs /\ IdleTask.phase = "idle" /\ IdleTask.op = LoadPage
    /\ IdleTask.copy = Absent /\ ~Carries(IdleTask)
    /\ \A op \in Handlers, own \in BOOLEAN :
         LET q == [IdleTask EXCEPT !.op = op, !.phase = "asked", !.own = own] IN
         q \in TaskRecs /\ q.phase = "asked" /\ q.copy = Absent /\ q.op = op
         /\ ~Carries(q) /\ Brings(q)
<1>1. IdleTask.phase = "idle" /\ IdleTask.op = LoadPage /\ IdleTask.copy = Absent
  BY DEF IdleTask
<1>2. ASSUME NEW op \in Handlers, NEW own \in BOOLEAN
      PROVE  LET q == [IdleTask EXCEPT !.op = op, !.phase = "asked", !.own = own] IN
             q \in TaskRecs /\ q.phase = "asked" /\ q.copy = Absent /\ q.op = op
             /\ ~Carries(q) /\ Brings(q)
  <2> DEFINE q == [IdleTask EXCEPT !.op = op, !.phase = "asked", !.own = own]
  <2>1. q \in TaskRecs
    BY AskedTyped
  <2>2. q.phase = "asked" /\ q.copy = Absent /\ q.op = op
    BY DEF IdleTask
  <2> HIDE DEF q
  <2>3. ~Carries(q) /\ Brings(q)
    BY <2>2 DEF Carries, Brings
  <2> QED BY <2>1, <2>2, <2>3 DEF q
<1> QED BY <1>1, <1>2, PagesConstants DEF Carries

\* A success: the list is loaded again, patched, or left as it is.
LEMMA SucceedRest ==
    ASSUME RestBase, RestBase', CopyInv, NEW t \in Tasks, task[t].phase \in {"ok", "second"},
           Succeed(t), row' = row, Known' => Known
    PROVE  CopySteps /\ ListCatchesUp' /\ GoneForGood'
<1> USE DEF CopyInv
<1> DEFINE r == task[t]
           asked == [IdleTask EXCEPT !.op = r.op, !.phase = "asked", !.own = r.own]
<1>a. /\ r \in TaskRecs /\ r.op \in Handlers /\ r.own \in BOOLEAN /\ r.copy \in Copies
      /\ PagesBase /\ Shows(r.op) /\ excused \in BOOLEAN
  BY OpsShow DEF RestBase, PagesBase, TaskRecs
<1>1. CASE r.op.ok = "reload"
  <2>1. /\ \/ task' = [task EXCEPT ![t] = asked]
           \/ task' = Disowned([task EXCEPT ![t] = asked])
        /\ UNCHANGED <<listed, excused>>
    BY <1>1 DEF Succeed
  <2>2. asked \in TaskRecs /\ asked.copy = Absent /\ ~Carries(asked) /\ Brings(asked)
    BY <1>a, ConstantsRest
  <2> HIDE DEF asked
  <2>3. Lands(t, asked)
    BY <1>a, <2>1, <2>2, LandsAt
  <2> QED BY <2>1, <2>2, <2>3, GoesOn
<1>2. CASE r.op.ok # "reload"
  <2> DEFINE skip == \/ r.op.ok = "none"
                     \/ r.op.ok = "patch" /\ r.copy.ver = 0
                     \/ OfRecord(r.op) /\ listed.ver = 0
  <2>1. /\ \/ task' = [task EXCEPT ![t] = IdleTask]
           \/ task' = Disowned([task EXCEPT ![t] = IdleTask])
        /\ IF skip THEN UNCHANGED <<listed, excused>> ELSE ShowCopy(r.copy)
    BY <1>2 DEF Succeed, Patch
  <2>2. Lands(t, IdleTask)
    BY <1>a, <2>1, ConstantsRest, LandsAt
  <2>3. Brings(r) => /\ r.phase = "ok" /\ r.op.ok \in {"patch", "drop"} /\ r.copy = row
                     /\ r.op.ok = "patch" => row.ver # 0
    BY <1>2 DEF Brings
  <2>4. CASE skip
    <3>1. Brings(r) => excused \/ listed = row
      <4> SUFFICES ASSUME Brings(r) PROVE excused \/ listed = row
        OBVIOUS
      <4>1. OfRecord(r.op) /\ listed.ver = 0
        BY <2>3, <2>4
      <4>2. Known
        BY <4>1 DEF Known
      <4> QED BY <4>1, <4>2, <1>a DEF GoneForGood
    <3>2. UNCHANGED <<listed, excused>>
      BY <2>1, <2>4
    <3> HIDE DEF skip
    <3> QED BY <2>2, <3>1, <3>2, ConstantsRest, GoesOn
  <2>5. CASE ~skip
    <3>1. ShowCopy(r.copy)
      BY <2>1, <2>5
    <3>2. r.op.verb = "create" => r.copy.ver # 0
      BY <1>a, <1>2, <2>5 DEF Shows
    <3>3. Carries(r)
      BY <3>2 DEF Carries
    <3> HIDE DEF skip
    <3> QED BY <2>2, <2>3, <3>1, <3>3, ConstantsRest, TakesCopy
  <2> QED BY <2>4, <2>5
<1> QED BY <1>1, <1>2

LEMMA ProgressRest ==
    ASSUME RestBase, RestBase', CopyInv, NEW t \in Tasks, Progress(t), Follows(t)
    PROVE  CopySteps /\ ListCatchesUp' /\ GoneForGood'
<1> USE DEF CopyInv
<1> DEFINE r == task[t]
<1>a. /\ r \in TaskRecs /\ r.op \in Handlers /\ r.own \in BOOLEAN /\ r.copy \in Copies
      /\ PagesBase /\ excused \in BOOLEAN /\ row \in Copies /\ Absent \in Copies /\ 0 \in Revs
  BY PagesConstants, PagesAssumption DEF RestBase, PagesBase, TaskRecs, Revs
<1>b. Known' => Known
  BY <1>a, KnownFollows
<1>c. /\ Refused(r) \in TaskRecs /\ Refused(r).copy = Absent /\ ~Carries(Refused(r))
  <2>1. Refused(r) \in TaskRecs /\ Refused(r).phase = "refused" /\ Refused(r).copy = Absent
    BY <1>a DEF Refused, TaskRecs
  <2> QED BY <2>1 DEF Carries
<1>d. ASSUME Finish(t), UNCHANGED <<row, listed>>,
             excused' = TRUE \/ (excused' = excused /\ ~Brings(r))
      PROVE  CopySteps /\ ListCatchesUp' /\ GoneForGood'
  <2>1. Lands(t, IdleTask)
    BY <1>a, <1>d, ConstantsRest, LandsAt DEF Finish
  <2> QED BY <1>b, <1>d, <2>1, ConstantsRest, GoesOn
<1>1. CASE ServeTask(t)
  <2>1. CASE Accepts(r)
    BY <1>1, <1>b, <2>1, ServeRest
  <2>2. CASE ~Accepts(r)
    <3>1. task' = [task EXCEPT ![t] = Refused(r)] /\ r.phase = "sent"
          /\ UNCHANGED <<row, listed, excused>>
      BY <1>1, <2>2 DEF ServeTask
    <3>2. Lands(t, Refused(r))
      BY <1>a, <1>c, <3>1, LandsAt
    <3>3. ~Brings(r)
      <4> SUFFICES ASSUME r.op = CheckVisibleNodes, row.ver # 0 PROVE Accepts(r)
        BY <2>2, <3>1 DEF Brings
      <4> QED BY DEF Accepts, CheckVisibleNodes, Op
    <3> QED BY <1>b, <1>c, <3>1, <3>2, <3>3, GoesOn
  <2> QED BY <2>1, <2>2
<1>2. CASE Lose(t)
  <2>1. /\ task' = [task EXCEPT ![t] = Refused(r)] /\ r.phase \in {"sent", "ok"}
        /\ excused' = (excused \/ r.phase = "ok" \/ r.op = CheckVisibleNodes)
        /\ UNCHANGED <<row, listed>>
    BY <1>2 DEF Lose
  <2>2. Lands(t, Refused(r))
    BY <1>a, <1>c, <2>1, LandsAt
  <2>3. excused' = TRUE \/ (excused' = excused /\ ~Brings(r))
    BY <1>a, <2>1 DEF Brings
  <2> QED BY <1>b, <1>c, <2>1, <2>2, <2>3, GoesOn
<1>3. CASE ReadRow(t)
  <2> DEFINE q == [r EXCEPT !.phase = "read", !.copy = row]
  <2>1. task' = [task EXCEPT ![t] = q] /\ UNCHANGED <<row, listed, excused>>
    BY <1>3 DEF ReadRow
  <2>2. q \in TaskRecs /\ q.phase = "read" /\ q.copy = row
    BY <1>a DEF TaskRecs
  <2> HIDE DEF q
  <2>3. Lands(t, q) /\ Brings(q)
    BY <1>a, <2>1, <2>2, LandsAt DEF Brings
  <2> QED BY <1>b, <2>1, <2>2, <2>3, GoesOn
<1>4. CASE ReceiveOk(t)
  <2>1. CASE r.op.second = "before"
    <3> DEFINE q == [r EXCEPT !.phase = "second"]
    <3>1. r.phase = "ok" /\ task' = [task EXCEPT ![t] = q] /\ UNCHANGED <<row, listed, excused>>
      BY <1>4, <2>1 DEF ReceiveOk
    <3>2. q \in TaskRecs /\ q.phase = "second" /\ q.copy = r.copy /\ q.op = r.op
      BY <1>a DEF TaskRecs
    <3> HIDE DEF q
    <3>3. r.op.ok = "reload"
      BY <1>a, <2>1, OpsShow DEF Shows
    <3>4. Lands(t, q) /\ Brings(q) /\ (Carries(q) => Carries(r))
      BY <1>a, <3>1, <3>2, <3>3, LandsAt DEF Brings, Carries
    <3> QED BY <1>b, <3>1, <3>2, <3>4, GoesOn
  <2>2. CASE r.op.second # "before"
    BY <1>4, <1>b, <2>2, SucceedRest DEF ReceiveOk
  <2> QED BY <2>1, <2>2
<1>5. ASSUME NEW succeeds \in BOOLEAN, SecondEnds(t, succeeds)
      PROVE  CopySteps /\ ListCatchesUp' /\ GoneForGood'
  <2>1. CASE succeeds
    BY <1>5, <1>b, <2>1, SucceedRest DEF SecondEnds
  <2>2. CASE ~succeeds
    BY <1>5, <1>d, <2>2 DEF SecondEnds
  <2> QED BY <2>1, <2>2
<1>6. CASE ReceiveRefused(t)
  <2>1. r.phase = "refused" /\ UNCHANGED <<row, listed, excused>>
    BY <1>6 DEF ReceiveRefused
  <2>2. ~Brings(r)
    BY <2>1 DEF Brings
  <2>3. CASE r.op.fails = "reload"
    <3> DEFINE q == [IdleTask EXCEPT !.op = r.op, !.phase = "asked", !.own = r.own]
    <3>1. task' = [task EXCEPT ![t] = q]
      BY <1>6, <2>3 DEF ReceiveRefused, AskRow
    <3>2. q \in TaskRecs /\ q.copy = Absent /\ ~Carries(q)
      BY <1>a, ConstantsRest
    <3> HIDE DEF q
    <3>3. Lands(t, q)
      BY <1>a, <3>1, <3>2, LandsAt
    <3> QED BY <1>b, <2>1, <2>2, <3>2, <3>3, GoesOn
  <2>4. CASE r.op.fails # "reload"
    BY <1>6, <1>d, <2>1, <2>2, <2>4 DEF ReceiveRefused
  <2> QED BY <2>3, <2>4
<1>7. ASSUME NEW succeeds \in BOOLEAN, PageLoadEnds(t, succeeds)
      PROVE  CopySteps /\ ListCatchesUp' /\ GoneForGood'
  <2> DEFINE done == [r EXCEPT !.phase = "after", !.copy = Absent]
  <2>1. PICK q \in {done, IdleTask} : \/ task' = [task EXCEPT ![t] = q]
                                      \/ task' = Disowned([task EXCEPT ![t] = q])
    BY <1>7 DEF PageLoadEnds
  <2>2. done \in TaskRecs /\ done.phase = "after" /\ done.copy = Absent
    BY <1>a DEF TaskRecs
  <2> HIDE DEF done
  <2>3. q \in TaskRecs /\ q.copy = Absent /\ ~Carries(q)
    BY <2>2, ConstantsRest DEF Carries
  <2>4. Lands(t, q)
    BY <1>a, <2>1, <2>3, LandsAt
  <2>5. CASE succeeds
    <3>1. r.phase = "read" /\ ShowCopy(r.copy) /\ row' = row
      BY <1>7, <2>5 DEF PageLoadEnds
    <3>2. Carries(r) /\ (Brings(r) => r.copy = row)
      BY <3>1 DEF Carries, Brings
    <3> QED BY <1>b, <2>3, <2>4, <3>1, <3>2, TakesCopy
  <2>6. CASE ~succeeds
    <3>1. UNCHANGED <<row, listed>> /\ excused' = TRUE
      BY <1>7, <2>6 DEF PageLoadEnds
    <3> QED BY <1>b, <2>3, <2>4, <3>1, GoesOn
  <2> QED BY <2>5, <2>6
<1>8. CASE AfterEnds(t)
  <2>1. r.phase = "after" /\ Finish(t) /\ UNCHANGED <<row, listed, excused>>
    BY <1>8 DEF AfterEnds
  <2> QED BY <1>d, <2>1 DEF Brings
<1> QED BY <1>1, <1>2, <1>3, <1>4, <1>5, <1>6, <1>7, <1>8 DEF Progress

\* A handler begins: the list stays, but for a batch that clears what it shows.
LEMMA BeginRest ==
    ASSUME RestBase, RestBase', CopyInv, NEW t \in Tasks, task[t].phase = "idle",
           \A u \in Tasks \ {t} : task'[u] = task[u],
           task'[t].copy = Absent, task'[t].phase \in {"sent", "asked"},
           UNCHANGED <<row, excused>>, Known' => Known \/ listed.ver # 0,
           \/ listed' = listed
           \/ /\ listed.ver # 0 /\ listed'.ver # 0 /\ listed'.rev # 0
              /\ task'[t].phase = "sent" /\ task'[t].op = CheckVisibleNodes
    PROVE  CopySteps /\ ListCatchesUp' /\ GoneForGood'
<1> USE DEF CopyInv
<1>1. ~Carries(task[t])' /\ ~Brings(task[t])
  BY DEF Carries, Brings
<1>2. \A u \in Tasks \ {t} : /\ Carries(task[u])' <=> Carries(task[u])
                             /\ Brings(task[u]) => Brings(task[u])'
  BY DEF Carries, Brings
<1>3. CopySteps
  BY <1>1, <1>2 DEF CopySteps, RowSteps
<1>4. CASE listed' = listed
  BY <1>1, <1>2, <1>3, <1>4, ListStays DEF RestBase
<1>5. CASE listed' # listed
  <2>1. row.ver # 0 => Brings(task[t])'
    BY <1>5 DEF Brings
  <2>2. ListCatchesUp'
    <3>1. CASE excused
      BY <3>1 DEF ListCatchesUp
    <3>2. CASE listed = row
      BY <1>5, <2>1, <3>2 DEF ListCatchesUp
    <3>3. ASSUME NEW u \in Tasks, Brings(task[u]) PROVE ListCatchesUp'
      BY <1>1, <1>2, <3>3 DEF ListCatchesUp
    <3> QED BY <3>1, <3>2, <3>3 DEF ListCatchesUp
  <2> QED BY <1>3, <1>5, <2>2 DEF GoneForGood
<1> QED BY <1>4, <1>5

LEMMA UserRest ==
    ASSUME RestBase, RestBase', OwnInv, RestInv,
           \/ \E t \in Tasks : Load(t) \/ SubmitForm(t)
           \/ \E t \in Tasks, b \in Page[view].buttons : Click(t, b)
           \/ \E b \in Page[view].buttons : OpenDialog(b)
           \/ CloseDialog
    PROVE  FlagsCleared' /\ SavingEnds' /\ CopySteps /\ ListCatchesUp' /\ GoneForGood'
<1>a. /\ PagesBase /\ CopyInv /\ FlagsCleared /\ SavingEnds /\ listed.ver \in Nat
      /\ LoadPage \in Handlers /\ form.op \in Handlers
      /\ excused \in BOOLEAN /\ excused' \in BOOLEAN
      /\ ListCatchesUp /\ GoneForGood
  BY CopyTyped, PagesConstants DEF RestBase, RestInv, CopyInv, PagesBase, FormRecs
<1>1. ASSUME NEW t \in Tasks, Load(t)
      PROVE  FlagsCleared' /\ SavingEnds' /\ CopySteps /\ ListCatchesUp' /\ GoneForGood'
  <2>1. /\ task[t].phase = "idle" /\ AskRow(t, LoadPage, FALSE)
        /\ UNCHANGED <<view, row, listed, form, excused>>
    BY <1>1 DEF Load, NextTask
  <2>2. /\ task'[t].op = LoadPage /\ task'[t].phase = "asked" /\ task'[t].copy = Absent
        /\ \A u \in Tasks \ {t} : task'[u] = task[u]
        /\ busy' \subseteq busy \cup {"loading"}
    BY <1>a, <2>1, AskedLoad
  <2>3. Known' => Known
    BY <2>1, <2>2, LoadKeys DEF Known, OfRecord
  <2>4. FlagsCleared' /\ SavingEnds'
    BY <1>a, <2>1, <2>2, BeginFlags
  <2> QED BY <1>a, <2>1, <2>2, <2>3, <2>4, BeginRest
<1>2. ASSUME NEW t \in Tasks, SubmitForm(t)
      PROVE  FlagsCleared' /\ SavingEnds' /\ CopySteps /\ ListCatchesUp' /\ GoneForGood'
  <2>1. /\ task[t].phase = "idle" /\ Begin(t, form.op, form.seen, TRUE)
        /\ busy' = SetBusy(form.op) /\ form' = [form EXCEPT !.saving = (form.op.key = "form")]
        /\ UNCHANGED <<view, row, listed, excused>>
    BY <1>2 DEF SubmitForm, NextTask
  <2>2. /\ task'[t].op = form.op /\ task'[t].phase = "sent" /\ task'[t].own = TRUE
        /\ task'[t].copy = Absent /\ \A u \in Tasks \ {t} : task'[u] = task[u]
    BY <1>a, <2>1, Begun
  <2>3. form'.op = form.op
    BY <1>a, <2>1 DEF PagesBase, FormRecs
  <2>4. Known' => Known
    BY <2>2, <2>3 DEF Known
  <2>5. FlagsCleared' /\ SavingEnds'
    BY <1>a, <2>1, <2>2, BeginFlags
  <2> QED BY <1>a, <2>1, <2>2, <2>4, <2>5, BeginRest
<1>3. ASSUME NEW t \in Tasks, NEW b \in Page[view].buttons, Click(t, b)
      PROVE  FlagsCleared' /\ SavingEnds' /\ CopySteps /\ ListCatchesUp' /\ GoneForGood'
  <2>1. /\ task[t].phase = "idle" /\ Offered(b)
        /\ \E seen \in LookedAt(b.op) : Begin(t, b.op, seen, FALSE)
        /\ busy' = SetBusy(b.op) /\ UNCHANGED <<view, row, form, excused>>
        /\ listed' = IF b.op = CheckVisibleNodes /\ listed.ver # 0
                     THEN [listed EXCEPT !.rev = Cleared] ELSE listed
    BY <1>3 DEF Click, NextTask
  <2>2. /\ task'[t].op = b.op /\ task'[t].phase = "sent" /\ task'[t].copy = Absent
        /\ \A u \in Tasks \ {t} : task'[u] = task[u]
    BY <1>a, <2>1, Begun
  <2>3. b.op \in Handlers
    BY <1>a, PageButtons DEF PagesBase, Handlers
  <2>4. Known' => Known \/ listed.ver # 0
    BY <2>1, <2>2 DEF Known, OfRecord, Offered
  <2>5. FlagsCleared' /\ SavingEnds'
    BY <1>a, <2>1, <2>2, <2>3, BeginFlags
  <2>6. listed' = listed \/ (/\ listed.ver # 0 /\ listed'.ver # 0 /\ listed'.rev # 0
                             /\ b.op = CheckVisibleNodes)
    <3>1. Cleared # 0
      BY PagesAssumption DEF Cleared
    <3> QED BY <2>1, <3>1 DEF RestBase, Copies
  <2> QED BY <1>a, <2>1, <2>2, <2>4, <2>5, <2>6, BeginRest
<1>4. ASSUME UNCHANGED <<view, row, listed, busy, excused>>, Known' => Known \/ listed.ver # 0,
             form'.saving = FALSE,
             \A u \in Tasks : /\ task'[u].phase = task[u].phase /\ task'[u].op = task[u].op
                             /\ task'[u].copy = task[u].copy
      PROVE  FlagsCleared' /\ SavingEnds' /\ CopySteps /\ ListCatchesUp' /\ GoneForGood'
  <2>1. ASSUME NEW u \in Tasks
        PROVE  /\ Carries(task[u])' => Carries(task[u]) /\ task'[u].copy = task[u].copy
               /\ task'[u].copy \in {task[u].copy, row', Absent}
               /\ Brings(task[u]) => excused \/ listed = row \/ Brings(task[u])'
    BY <1>4 DEF Carries, Brings
  <2>2. FlagsCleared' /\ SavingEnds'
    BY <1>a, <1>4 DEF FlagsCleared, SavingEnds, Live
  <2>3. UNCHANGED <<row, listed, excused>> /\ (Known' => Known \/ listed.ver # 0)
    BY <1>4
  <2>4. CopySteps
    BY <2>1, <2>3 DEF CopySteps, RowSteps
  <2>5. ListCatchesUp' /\ GoneForGood'
    BY <1>a, <2>1, <2>3, ListStays
  <2> QED BY <2>2, <2>4, <2>5
<1>5. ASSUME NEW b \in Page[view].buttons, OpenDialog(b)
      PROVE  FlagsCleared' /\ SavingEnds' /\ CopySteps /\ ListCatchesUp' /\ GoneForGood'
  <2>1. /\ Offered(b) /\ form'.op = b.op /\ form'.saving = FALSE
        /\ UNCHANGED <<view, row, listed, busy, task, excused>>
    BY <1>5 DEF OpenDialog
  <2>2. Known' => Known \/ listed.ver # 0
    BY <2>1 DEF Known, OfRecord, Offered
  <2> QED BY <1>4, <2>1, <2>2
<1>6. ASSUME CloseDialog
      PROVE  FlagsCleared' /\ SavingEnds' /\ CopySteps /\ ListCatchesUp' /\ GoneForGood'
  <2>1. /\ form' = NoForm /\ UNCHANGED <<view, row, listed, busy, excused>>
        /\ \A u \in Tasks : /\ task'[u].phase = task[u].phase /\ task'[u].op = task[u].op
                            /\ task'[u].copy = task[u].copy
    BY <1>a, <1>6 DEF CloseDialog, Disowned, PagesBase, TaskRecs
  <2>2. form'.saving = FALSE /\ ~OfRecord(form'.op)
    BY <2>1, LoadKeys DEF NoForm, OfRecord
  <2>3. Known' => Known
    BY <2>1, <2>2 DEF Known
  <2> QED BY <1>4, <2>1, <2>2, <2>3
<1> QED BY <1>1, <1>2, <1>3, <1>5, <1>6

-----------------------------------------------------------------------------
(* A page at rest is true. *)

\* Some handler is loading the page from the start.
LEMMA FirstTask == \E first \in Tasks : \A u \in Tasks : first <= u
<1>1. Tasks \subseteq Nat /\ Tasks # {}
  BY PagesAssumption
<1>2. PICK first \in Tasks : \A u \in Tasks : ~ (<<u, first>> \in OpToRel(<, Nat))
  BY <1>1, NatLessThanWellFounded, WFMin
<1>3. ASSUME NEW u \in Tasks PROVE first <= u
  <2>1. u \in Nat /\ first \in Nat
    BY <1>1
  <2>2. ~ (u < first)
    BY <1>2, <2>1 DEF OpToRel
  <2> QED BY <2>1, <2>2
<1> QED BY <1>3

LEMMA RestStart == PagesInit => RestInv
<1> SUFFICES ASSUME PagesInit PROVE RestInv
  OBVIOUS
<1> DEFINE first == CHOOSE t \in Tasks : \A u \in Tasks : t <= u
<1>1. first \in Tasks
  BY FirstTask
<1>2. /\ listed = Absent /\ busy = {"loading"} /\ form = NoForm
      /\ task = [t \in Tasks |-> IF t = first THEN [IdleTask EXCEPT !.phase = "asked"]
                                  ELSE IdleTask]
  BY DEF PagesInit
<1> HIDE DEF first
<1>3. \A t \in Tasks : /\ task[t].op = LoadPage /\ task[t].copy = Absent
                       /\ task[t].phase \in {"idle", "asked"}
                       /\ t = first => task[t].phase = "asked"
  <2>1. /\ IdleTask.op = LoadPage /\ IdleTask.copy = Absent /\ IdleTask.phase = "idle"
        /\ [IdleTask EXCEPT !.phase = "asked"].op = LoadPage
        /\ [IdleTask EXCEPT !.phase = "asked"].copy = Absent
        /\ [IdleTask EXCEPT !.phase = "asked"].phase = "asked"
    BY DEF IdleTask
  <2> QED BY <1>2, <2>1
<1>4. ~OfRecord(LoadPage) /\ NoForm.op = LoadPage /\ NoForm.saving = FALSE /\ Absent.ver = 0
  BY LoadKeys DEF OfRecord, NoForm, Absent
<1>5. FlagsCleared /\ SavingEnds
  BY <1>1, <1>2, <1>3, <1>4 DEF FlagsCleared, SavingEnds
<1>6. ~Known
  BY <1>2, <1>3, <1>4 DEF Known
<1>7. \A t \in Tasks : ~Carries(task[t])
  BY <1>3 DEF Carries
<1>8. Brings(task[first])
  BY <1>1, <1>3 DEF Brings
<1> QED BY <1>1, <1>2, <1>3, <1>4, <1>5, <1>6, <1>7, <1>8
    DEF RestInv, CopiesOfRow, ListCatchesUp, GoneForGood

LEMMA RestStep == PagesInv /\ OwnInv /\ RestInv /\ [PagesNext]_pages => RestInv'
<1> SUFFICES ASSUME PagesInv, OwnInv, RestInv, [PagesNext]_pages PROVE RestInv'
  OBVIOUS
<1>1. RestBase /\ RestBase'
  <2>1. PagesInv'
    BY PagesStepInv
  <2>2. PagesInv' => RestBase'
    BY RestTyped, PTL
  <2> QED BY <2>1, <2>2, RestTyped
<1>2. CopyInv /\ FlagsCleared /\ SavingEnds /\ CopiesOfRow /\ ListCatchesUp /\ GoneForGood
  BY DEF RestInv, CopyInv
<1>3. ASSUME FlagsCleared', SavingEnds', CopySteps, ListCatchesUp', GoneForGood' PROVE RestInv'
  BY <1>1, <1>2, <1>3, CopiesStep DEF RestInv
<1>4. ASSUME NEW t \in Tasks, Progress(t) PROVE RestInv'
  <2>1. Follows(t)
    BY <1>1, <1>4, ProgressFollows DEF RestBase
  <2>2. FlagsCleared' /\ SavingEnds'
    BY <1>1, <1>2, <2>1, FlagsFollow DEF RestBase
  <2> QED BY <1>1, <1>2, <1>3, <1>4, <2>1, <2>2, ProgressRest
<1>5. ASSUME NEW how \in {"edit", "delete"}, Foreign(how) PROVE RestInv'
  <2>1. /\ row.ver # 0 /\ row' = Change(how) /\ excused' = TRUE
        /\ UNCHANGED <<view, listed, busy, form, task>>
    BY <1>5 DEF Foreign
  <2>2. row'.rev = row.rev + 1
    BY <2>1 DEF Change
  <2>3. FlagsCleared' /\ SavingEnds' /\ Known' = Known
    BY <1>2, <2>1 DEF FlagsCleared, SavingEnds, Live, Known
  <2>4. CopySteps
    BY <2>1, <2>2, <2>3 DEF CopySteps, RowSteps, Carries
  <2>5. ListCatchesUp' /\ GoneForGood'
    BY <2>1 DEF ListCatchesUp, GoneForGood
  <2> QED BY <1>3, <2>3, <2>4, <2>5
<1>6. CASE UNCHANGED pages
  <2>1. UNCHANGED <<view, row, listed, busy, form, task, excused>>
    BY <1>6 DEF pages
  <2> QED BY <1>2, <2>1
      DEF RestInv, FlagsCleared, SavingEnds, Live, CopiesOfRow, ListCatchesUp, GoneForGood, Known,
          Carries, Brings
<1> QED BY <1>1, <1>3, <1>4, <1>5, <1>6, UserRest DEF PagesNext

LEMMA RestHolds == ConsoleSpec => []RestInv
<1>1. ConsoleInit => RestInv
  BY RestStart DEF ConsoleInit, Resting
<1>2. PagesInv /\ OwnInv /\ RestInv /\ [ConsoleNext]_console => RestInv'
  BY PagesMove, RestStep
<1> QED BY <1>1, <1>2, PagesHold, OwnHolds, PTL DEF ConsoleSpec

-----------------------------------------------------------------------------
(* A record that is listed twice: both copies are of the record as it is.  *)

\* The page shows a created record without loading.
Creates(p) == \E b \in Page[p].buttons : b.op.verb = "create" /\ b.op.ok = "patch"

\* A creation the server has answered, and what it answered.
Created(r) == r.phase \in {"ok", "second"} /\ r.op.verb = "create" /\ r.copy.ver # 0
Born == [ver |-> 1, rev |-> 1]

\* A copy of a record created in this visit is the created one or of later.
OfVisit(c) == c.ver = 0 \/ c = Born \/ c.rev > 1
FromBirth ==
    \/ OfVisit(row) /\ OfVisit(listed) /\ \A t \in Tasks : OfVisit(task[t].copy)
    \/ row # Absent /\ \A t \in Tasks : ~Created(task[t])

TwiceInv ==
    /\ again # Absent => Creates(view) /\ (excused \/ again = listed)
    /\ Creates(view) => listed.rev <= row.rev
    /\ \A t \in Tasks : Created(task[t]) => task[t].copy = Born
    /\ FromBirth

\* Such a page has no batch that clears what it shows.
LEMMA CreatesAlone ==
    ASSUME NEW p \in Pages, Creates(p), NEW b \in Page[p].buttons
    PROVE  b.op # CheckVisibleNodes
<1> DEFINE NoBatch(B) == \A c \in B : c.op.name # "checkVisible"
<1> USE DEF Button, Op
<1>1. NoBatch(SubscriptionsHeader \cup SubscriptionRow)
  BY DEF SubscriptionsHeader, RefreshSubscriptions, CheckNodes, LoadPage, CreateSubscription,
         SubscriptionRow, CheckSubscription, RefreshSubscription, SaveSubscription,
         DeleteSubscription
<1>2. \A c \in NodesHeader \cup NodeRow : c.op.verb # "create"
  BY DEF NodesHeader, NodeRow, CheckVisibleNodes, LoadPage, CheckNode, ToggleNode
<1>3. \A c \in RoutingHeader \cup ServiceRow : ~(c.op.verb = "create" /\ c.op.ok = "patch")
  BY DEF RoutingHeader, ServiceRow, LoadPage, ApplyDataPlane, CreateProxyService,
         EditProxyService, RemoveService
<1>4. /\ \A c \in {Button(SaveGroupRoutes, {}, "inline")} : c.op.verb # "create"
      /\ \A c \in {Button(SaveRules, {"loading", "saving"}, "no")} : c.op.verb # "create"
  BY DEF SaveGroupRoutes, SaveRules
<1>5. \A c \in ChannelsTable : ~(c.op.verb = "create" /\ c.op.ok = "patch")
  BY DEF ChannelsTable, LoadPage, CreateChannel, SaveChannel, SaveEndpoint, RotateSession,
         DeleteChannel
<1>6. \A c \in ProvidersTable : ~(c.op.verb = "create" /\ c.op.ok = "patch")
  BY DEF ProvidersTable, LoadPage, CreateProvider, SaveProvider, TestProvider, DeleteProvider
<1>7. \A c \in AccountsPanel : ~(c.op.verb = "create" /\ c.op.ok = "patch")
  BY DEF AccountsPanel, SweepAccounts, AddAccount, DeleteAccount
<1>8. \A c \in AlertsPanel : c.op.verb # "create"
  BY DEF AlertsPanel, LoadPage, AcknowledgeAlert, SaveAlertSettings, TestAlertSettings
<1>9. NoBatch(ArtifactsPanel \cup ArtifactRow)
  BY DEF ArtifactsPanel, ArtifactRow, LoadPage, CreateArtifact, VerifyArtifact, DeleteArtifact
<1>10. CheckVisibleNodes.name = "checkVisible"
  BY DEF CheckVisibleNodes
<1> HIDE DEF Button, Op
<1>11. p \in {"subscriptions", "nodes", "routing", "routes", "rules", "channels", "providers",
              "accounts", "alerts", "artifacts"}
  BY DEF Pages, Page
<1>12. p \in {"subscriptions", "artifacts"}
  BY <1>2, <1>3, <1>4, <1>5, <1>6, <1>7, <1>8, <1>11
  DEF Creates, Page, PageOf, NodesPage, RoutingPage, RoutesPanel, RulesPage, ChannelsPage,
      ProvidersPage, AccountsPage, AlertsPage
<1> QED BY <1>1, <1>9, <1>10, <1>12 DEF Page, PageOf, SubscriptionsPage, ArtifactsPage

\* What a step may do to the record and its copies, and to the second copy.
BirthSteps ==
    /\ view' = view
    /\ row' = row \/ row.ver # 0 \/ (row = Absent /\ row' = Born)
    /\ \A u \in Tasks : Created(task[u])' =>
          \/ Created(task[u]) /\ task'[u].copy = task[u].copy
          \/ row = Absent /\ task'[u].copy = Born
    /\ \/ listed' = listed \/ (listed'.rev > 1 /\ ~Creates(view))
       \/ \E u \in Tasks : Carries(task[u]) /\ listed' = task[u].copy
AgainSteps ==
    \/ again' = Absent
    \/ again' = again /\ listed' = listed /\ (excused => excused')
    \/ again # Absent /\ again' = listed'
    \/ /\ Creates(view) /\ listed.ver # 0 /\ again' = listed
       /\ \E u \in Tasks : Created(task[u]) /\ ShowCopy(task[u].copy)

LEMMA TwiceStep ==
    ASSUME RestBase, RestBase', CopiesOfRow, CopySteps, TwiceInv, BirthSteps, AgainSteps
    PROVE  TwiceInv'
<1>a. /\ row.ver \in Nat /\ row.rev \in Nat /\ row'.ver \in Nat /\ row'.rev \in Nat
      /\ listed.ver \in Nat /\ listed.rev \in Nat /\ listed'.rev \in Nat
      /\ Absent.ver = 0 /\ Absent.rev = 0 /\ Born.ver = 1 /\ Born.rev = 1
      /\ \A u \in Tasks : task[u].copy.ver \in Nat /\ task[u].copy.rev \in Nat
  BY CopyTyped DEF RestBase, Born
<1>1. \A u \in Tasks : Carries(task[u]) => task[u].copy.rev <= row.rev
  BY <1>a DEF CopiesOfRow
<1>2. Creates(view)' => listed'.rev <= row'.rev
  BY <1>a, <1>1 DEF TwiceInv, BirthSteps, CopySteps, RowSteps, Creates
<1>3. \A u \in Tasks : Created(task[u])' => task'[u].copy = Born
  BY DEF TwiceInv, BirthSteps
<1>4. FromBirth'
  <2>1. CASE OfVisit(row) /\ OfVisit(listed) /\ \A t \in Tasks : OfVisit(task[t].copy)
    <3>1. OfVisit(row')
      BY <1>a, <2>1 DEF OfVisit, BirthSteps, CopySteps, RowSteps, Born
    <3>2. OfVisit(listed')
      BY <2>1 DEF OfVisit, BirthSteps
    <3>3. \A u \in Tasks : OfVisit(task'[u].copy)
      <4>1. OfVisit(Absent)
        BY <1>a DEF OfVisit
      <4> QED BY <2>1, <3>1, <4>1 DEF CopySteps
    <3> QED BY <3>1, <3>2, <3>3 DEF FromBirth, OfVisit
  <2>2. CASE row # Absent /\ \A t \in Tasks : ~Created(task[t])
    <3>1. row' # Absent
      BY <1>a, <2>2 DEF CopySteps, RowSteps
    <3> QED BY <2>2, <3>1 DEF FromBirth, BirthSteps, Created
  <2> QED BY <2>1, <2>2 DEF TwiceInv, FromBirth
<1>5. ASSUME again' # Absent PROVE Creates(view)' /\ (excused' \/ again' = listed')
  <2>1. CASE again' = again /\ listed' = listed /\ (excused => excused')
    BY <1>5, <2>1 DEF TwiceInv, BirthSteps, Creates
  <2>2. CASE again # Absent /\ again' = listed'
    BY <2>2 DEF TwiceInv, BirthSteps, Creates
  <2>3. CASE /\ Creates(view) /\ listed.ver # 0 /\ again' = listed
             /\ \E u \in Tasks : Created(task[u]) /\ ShowCopy(task[u].copy)
    <3>1. PICK u \in Tasks : Created(task[u]) /\ ShowCopy(task[u].copy)
      BY <2>3
    <3>2. task[u].copy = Born /\ OfVisit(listed) /\ listed.rev <= row.rev
      BY <2>3, <3>1 DEF TwiceInv, FromBirth
    <3>3. listed' = Born /\ excused' = (Born # row /\ (excused \/ Born.rev < listed.rev))
      BY <3>1, <3>2 DEF ShowCopy
    <3>4. CASE listed = Born
      BY <2>3, <3>3, <3>4 DEF BirthSteps, Creates
    <3>5. CASE listed.rev > 1
      <4>1. Born.rev < listed.rev /\ Born # row
        BY <1>a, <3>2, <3>5
      <4> QED BY <2>3, <3>3, <4>1 DEF BirthSteps, Creates
    <3> QED BY <2>3, <3>2, <3>4, <3>5 DEF OfVisit
  <2> QED BY <1>5, <2>1, <2>2, <2>3 DEF AgainSteps
<1> QED BY <1>2, <1>3, <1>4, <1>5 DEF TwiceInv

\* Where a handler goes, no other creation is answered.
LEMMA ProgressCreates ==
    ASSUME RestBase, NEW t \in Tasks, Progress(t), ~ServeTask(t)
    PROVE  \A u \in Tasks : Created(task[u])' => Created(task[u]) /\ task'[u].copy = task[u].copy
<1> DEFINE r == task[t]
           asked == [IdleTask EXCEPT !.op = r.op, !.phase = "asked", !.own = r.own]
           refused == Refused(r)
           read == [r EXCEPT !.phase = "read", !.copy = row]
           second == [r EXCEPT !.phase = "second"]
           done == [r EXCEPT !.phase = "after", !.copy = Absent]
           To(q) == \/ task' = [task EXCEPT ![t] = q]
                    \/ task' = Disowned([task EXCEPT ![t] = q])
<1>1. r \in TaskRecs /\ row \in Copies /\ Absent \in Copies /\ 0 \in Revs /\ PagesBase
      /\ r.op \in Handlers /\ r.own \in BOOLEAN
  BY PagesConstants, PagesAssumption DEF RestBase, PagesBase, TaskRecs, Revs
<1>2. asked \in TaskRecs /\ asked.phase = "asked" /\ IdleTask \in TaskRecs
      /\ IdleTask.phase = "idle"
  BY <1>1, AskedTyped, PagesConstants
<1>3. refused \in TaskRecs /\ refused.phase = "refused"
  BY <1>1 DEF Refused, TaskRecs
<1>4. /\ read \in TaskRecs /\ read.phase = "read" /\ second \in TaskRecs
      /\ second.phase = "second" /\ second.op = r.op /\ second.copy = r.copy
      /\ done \in TaskRecs /\ done.phase = "after"
  BY <1>1 DEF TaskRecs
<1>5. \/ To(IdleTask) \/ To(asked) \/ To(refused) \/ To(read) \/ To(done)
      \/ To(second) /\ r.phase = "ok"
  <2>1. Succeed(t) => To(IdleTask) \/ To(asked)
    BY DEF Succeed
  <2>2. Finish(t) => To(IdleTask)
    BY DEF Finish
  <2>3. ReceiveOk(t) => Succeed(t) \/ (To(second) /\ r.phase = "ok")
    BY DEF ReceiveOk
  <2>4. \A succeeds \in BOOLEAN : SecondEnds(t, succeeds) => Succeed(t) \/ Finish(t)
    BY DEF SecondEnds
  <2>5. ReceiveRefused(t) => Finish(t) \/ To(asked)
    BY DEF ReceiveRefused, AskRow
  <2>6. \A succeeds \in BOOLEAN : PageLoadEnds(t, succeeds) => To(IdleTask) \/ To(done)
    BY DEF PageLoadEnds
  <2>7. /\ Lose(t) => To(refused)
        /\ ReadRow(t) => To(read)
        /\ AfterEnds(t) => Finish(t)
    BY DEF Lose, ReadRow, AfterEnds
  <2> HIDE DEF To, asked, refused, read, second, done
  <2> QED BY <2>1, <2>2, <2>3, <2>4, <2>5, <2>6, <2>7 DEF Progress
<1> HIDE DEF asked, refused, read, second, done
<1>6. ASSUME NEW q \in TaskRecs, To(q),
             q.phase \notin {"ok", "second"} \/ (q = second /\ r.phase = "ok")
      PROVE  \A u \in Tasks : Created(task[u])'
                                  => Created(task[u]) /\ task'[u].copy = task[u].copy
  <2>1. Lands(t, q)
    BY <1>1, <1>6, LandsAt
  <2>2. Created(q) => Created(r) /\ q.copy = r.copy
    BY <1>4, <1>6 DEF Created
  <2> QED BY <2>1, <2>2 DEF Created, Lands
<1> DEFINE Goes == \A u \in Tasks : Created(task[u])'
                          => Created(task[u]) /\ task'[u].copy = task[u].copy
<1>7. To(IdleTask) => Goes
  BY <1>2, <1>6
<1>8. To(asked) => Goes
  BY <1>2, <1>6
<1>9. To(refused) => Goes
  BY <1>3, <1>6
<1>10. To(read) => Goes
  BY <1>4, <1>6
<1>11. To(done) => Goes
  BY <1>4, <1>6
<1>12. To(second) /\ r.phase = "ok" => Goes
  BY <1>4, <1>6
<1> QED BY <1>5, <1>7, <1>8, <1>9, <1>10, <1>11, <1>12

\* What has been listed, and a second time.
LEMMA ProgressTwice ==
    ASSUME RestBase, OwnInv, TwiceInv, NEW t \in Tasks, Progress(t), view' = view
    PROVE  BirthSteps /\ AgainSteps
<1> DEFINE r == task[t]
<1>a. /\ r \in TaskRecs /\ r.op \in Handlers /\ r.copy \in Copies /\ PagesBase
      /\ task \in [Tasks -> TaskRecs] /\ Absent.ver = 0
  BY CopyTyped DEF RestBase, PagesBase, TaskRecs
<1>b. Shows(r.op)
  BY <1>a, OpsShow
<1>1. CASE ServeTask(t)
  <2>1. UNCHANGED <<listed, again, excused>> /\ r.phase = "sent"
    BY <1>1 DEF ServeTask
  <2>2. CASE Accepts(r)
    <3> DEFINE copy == IF r.op.verb = "create" /\ row # Absent THEN Absent ELSE row'
               q == [r EXCEPT !.phase = "ok", !.sent = 0, !.copy = copy]
    <3>1. row' = Change(r.op.verb) /\ task' = [task EXCEPT ![t] = q]
      BY <1>1, <2>2 DEF ServeTask
    <3>2. \A u \in Tasks \ {t} : task'[u] = task[u]
      BY <1>a, <3>1
    <3>3. task'[t].copy = copy /\ task'[t].op = r.op
      BY <1>a, <3>1 DEF TaskRecs
    <3>4. row' = row \/ row.ver # 0 \/ (row = Absent /\ row' = Born)
      BY <1>b, <2>2, <3>1 DEF Shows, Accepts, Change, Born
    <3>5. r.op.verb = "create" => copy.ver = 0 \/ (row = Absent /\ copy = Born)
      BY <1>a, <3>1 DEF Change, Born
    <3>6. \A u \in Tasks : Created(task[u])' =>
              \/ Created(task[u]) /\ task'[u].copy = task[u].copy
              \/ row = Absent /\ task'[u].copy = Born
      BY <3>2, <3>3, <3>5 DEF Created
    <3> QED BY <2>1, <3>4, <3>6 DEF BirthSteps, AgainSteps
  <2>3. CASE ~Accepts(r)
    <3>1. task' = [task EXCEPT ![t] = Refused(r)] /\ row' = row
      BY <1>1, <2>3 DEF ServeTask
    <3>2. Refused(r).phase = "refused"
      BY <1>a DEF Refused, TaskRecs
    <3>3. task'[t] = Refused(r) /\ \A u \in Tasks \ {t} : task'[u] = task[u]
      BY <1>a, <3>1
    <3>4. \A u \in Tasks : Created(task[u])' => Created(task[u]) /\ task'[u].copy = task[u].copy
      BY <3>2, <3>3 DEF Created
    <3> QED BY <2>1, <3>1, <3>4 DEF BirthSteps, AgainSteps
  <2> QED BY <2>2, <2>3
<1>2. CASE ~ServeTask(t)
  <2>2. \A u \in Tasks : Created(task[u])' => Created(task[u]) /\ task'[u].copy = task[u].copy
    BY <1>2, ProgressCreates
  <2>3. row' = row
    BY <1>2 DEF Progress, Lose, ReceiveOk, ReceiveRefused, ReadRow, AfterEnds, SecondEnds,
                PageLoadEnds
  <2>4. CASE UNCHANGED <<listed, again>> /\ (excused => excused')
    BY <2>2, <2>3, <2>4 DEF BirthSteps, AgainSteps
  <2>5. CASE r.phase \in {"ok", "second"} /\ Patch(r) /\ r.op.ok # "reload"
             /\ ~(r.op.ok = "patch" /\ r.copy.ver = 0)
    <3>1. listed' = r.copy
      BY <2>5 DEF Patch, ShowCopy
    <3>2. r.op.verb = "create" => r.copy.ver # 0 /\ r.op.ok \in {"patch", "none"}
      BY <1>b, <2>5 DEF Shows
    <3>3. Carries(r)
      BY <2>5, <3>2 DEF Carries
    <3>4. BirthSteps
      BY <2>2, <2>3, <3>1, <3>3 DEF BirthSteps
    <3>5. CASE again' = Absent
      BY <3>4, <3>5 DEF AgainSteps
    <3>6. CASE again' # Absent /\ r.op.verb # "create"
      <4>1. again # Absent /\ again' = r.copy
        BY <2>5, <3>6 DEF Patch, Second
      <4> QED BY <3>1, <3>4, <4>1 DEF AgainSteps
    <3>7. CASE again' # Absent /\ r.op.verb = "create"
      <4>1. again' = listed /\ listed.ver # 0 /\ ShowCopy(r.copy)
        BY <2>5, <3>7 DEF Patch, Second
      <4>2. r.op.ok = "patch"
        BY <1>b, <2>5, <3>7 DEF Shows
      <4>3. r.op # LoadPage
        BY <3>7, LoadKeys
      <4>4. Creates(view)
        BY <3>7, <4>2, <4>3 DEF OwnInv, OnPage, Offers, Creates
      <4>5. Created(r)
        BY <2>5, <3>2, <3>7 DEF Created
      <4> QED BY <3>4, <4>1, <4>4, <4>5 DEF AgainSteps
    <3> QED BY <3>5, <3>6, <3>7
  <2>6. CASE Carries(r) /\ ShowCopy(r.copy) /\ again' = Absent
    BY <2>2, <2>3, <2>6 DEF BirthSteps, AgainSteps, ShowCopy
  <2>7. ASSUME Succeed(t), r.phase \in {"ok", "second"}
        PROVE  \/ UNCHANGED <<listed, again, excused>>
               \/ r.op.ok # "reload" /\ Patch(r) /\ ~(r.op.ok = "patch" /\ r.copy.ver = 0)
    BY <2>7 DEF Succeed
  <2>8. CASE ReceiveOk(t)
    BY <2>4, <2>5, <2>7, <2>8 DEF ReceiveOk
  <2>9. ASSUME NEW succeeds \in BOOLEAN, SecondEnds(t, succeeds) PROVE BirthSteps /\ AgainSteps
    <3>1. r.phase = "second" /\ (Succeed(t) \/ (UNCHANGED <<listed, again>> /\ excused' = TRUE))
      BY <2>9 DEF SecondEnds
    <3> QED BY <3>1, <2>4, <2>5, <2>7
  <2>10. ASSUME NEW succeeds \in BOOLEAN, PageLoadEnds(t, succeeds)
         PROVE  BirthSteps /\ AgainSteps
    <3>1. \/ r.phase = "read" /\ ShowCopy(r.copy) /\ again' = Absent
          \/ UNCHANGED <<listed, again>> /\ excused' = TRUE
      BY <2>10 DEF PageLoadEnds
    <3> QED BY <3>1, <2>4, <2>6 DEF Carries
  <2>11. CASE Lose(t) \/ ReceiveRefused(t) \/ ReadRow(t) \/ AfterEnds(t)
    BY <2>4, <2>11 DEF Lose, ReceiveRefused, ReadRow, AfterEnds
  <2> QED BY <1>2, <2>8, <2>9, <2>10, <2>11 DEF Progress
<1> QED BY <1>1, <1>2

\* The administrator's steps show nothing new, but for the batch that clears.
LEMMA UserTwice ==
    ASSUME RestBase, TwiceInv,
           \/ \E t \in Tasks : Load(t) \/ SubmitForm(t)
           \/ \E t \in Tasks, b \in Page[view].buttons : Click(t, b)
           \/ \E b \in Page[view].buttons : OpenDialog(b)
           \/ CloseDialog
    PROVE  BirthSteps /\ AgainSteps
<1>a. PagesBase /\ task \in [Tasks -> TaskRecs] /\ Absent.ver = 0 /\ listed \in Copies
  BY CopyTyped, PagesConstants DEF RestBase, PagesBase
<1>1. ASSUME UNCHANGED <<view, row, listed, again, excused>>,
             \A u \in Tasks : Created(task[u])' => Created(task[u]) /\ task'[u].copy = task[u].copy
      PROVE  BirthSteps /\ AgainSteps
  BY <1>1 DEF BirthSteps, AgainSteps
<1>2. ASSUME NEW t \in Tasks, task'[t].copy = Absent, \A u \in Tasks \ {t} : task'[u] = task[u]
      PROVE  \A u \in Tasks : Created(task[u])' => Created(task[u]) /\ task'[u].copy = task[u].copy
  BY <1>a, <1>2 DEF Created
<1>3. ASSUME NEW t \in Tasks, Load(t) PROVE BirthSteps /\ AgainSteps
  <2>1. AskRow(t, LoadPage, FALSE) /\ UNCHANGED <<view, row, listed, again, excused>>
    BY <1>3 DEF Load
  <2> QED BY <1>a, <1>1, <1>2, <2>1, AskedLoad
<1>4. ASSUME NEW t \in Tasks, SubmitForm(t) PROVE BirthSteps /\ AgainSteps
  <2>1. /\ Begin(t, form.op, form.seen, TRUE)
        /\ UNCHANGED <<view, row, listed, again, excused>>
    BY <1>4 DEF SubmitForm
  <2> QED BY <1>a, <1>1, <1>2, <2>1, Begun
<1>5. ASSUME NEW t \in Tasks, NEW b \in Page[view].buttons, Click(t, b)
      PROVE  BirthSteps /\ AgainSteps
  <2>1. /\ \E seen \in LookedAt(b.op) : Begin(t, b.op, seen, FALSE)
        /\ UNCHANGED <<view, row, again, excused>>
        /\ listed' = IF b.op = CheckVisibleNodes /\ listed.ver # 0
                     THEN [listed EXCEPT !.rev = Cleared] ELSE listed
    BY <1>5 DEF Click
  <2>2. \A u \in Tasks : Created(task[u])' => Created(task[u]) /\ task'[u].copy = task[u].copy
    BY <1>a, <1>2, <2>1, Begun
  <2>3. CASE listed' = listed
    BY <1>1, <2>1, <2>2, <2>3
  <2>4. CASE listed' # listed
    <3>1. ~Creates(view)
      BY <1>a, <2>1, <2>4, CreatesAlone DEF PagesBase
    <3>2. listed'.rev > 1
      BY <1>a, <2>1, <2>4, PagesAssumption DEF Copies, Cleared
    <3>3. again' = Absent
      BY <2>1, <3>1 DEF TwiceInv
    <3> QED BY <2>1, <2>2, <3>1, <3>2, <3>3 DEF BirthSteps, AgainSteps
  <2> QED BY <2>3, <2>4
<1>6. ASSUME NEW b \in Page[view].buttons, OpenDialog(b) PROVE BirthSteps /\ AgainSteps
  BY <1>1, <1>6 DEF OpenDialog, Created
<1>7. CASE CloseDialog
  <2>1. /\ UNCHANGED <<view, row, listed, again, excused>>
        /\ \A u \in Tasks : /\ task'[u].phase = task[u].phase /\ task'[u].op = task[u].op
                            /\ task'[u].copy = task[u].copy
    BY <1>a, <1>7 DEF CloseDialog, Disowned, TaskRecs
  <2> QED BY <1>1, <2>1 DEF Created
<1> QED BY <1>3, <1>4, <1>5, <1>6, <1>7

LEMMA TwiceStart == PagesInit => TwiceInv
<1> SUFFICES ASSUME PagesInit PROVE TwiceInv
  OBVIOUS
<1>1. /\ listed = Absent /\ again = Absent /\ Absent.ver = 0 /\ Absent.rev = 0
      /\ row \in {Absent, [ver |-> 1, rev |-> 0]}
  BY DEF PagesInit, Absent
<1>2. \A t \in Tasks : task[t].copy = Absent
  <2>1. PICK first : task = [t \in Tasks |-> IF t = first THEN [IdleTask EXCEPT !.phase = "asked"]
                                             ELSE IdleTask]
    BY DEF PagesInit
  <2>2. IdleTask.copy = Absent /\ [IdleTask EXCEPT !.phase = "asked"].copy = Absent
    BY DEF IdleTask
  <2> QED BY <2>1, <2>2
<1>3. \A t \in Tasks : ~Created(task[t])
  BY <1>1, <1>2 DEF Created
<1>4. listed.rev <= row.rev
  BY <1>1
<1> QED BY <1>1, <1>2, <1>3, <1>4 DEF TwiceInv, FromBirth, OfVisit

LEMMA TwiceKept == PagesInv /\ OwnInv /\ RestInv /\ TwiceInv /\ [PagesNext]_pages => TwiceInv'
<1> SUFFICES ASSUME PagesInv, OwnInv, RestInv, TwiceInv, [PagesNext]_pages PROVE TwiceInv'
  OBVIOUS
<1>1. RestBase /\ RestBase' /\ CopyInv /\ CopiesOfRow
  <2>1. PagesInv'
    BY PagesStepInv
  <2>2. PagesInv' => RestBase'
    BY RestTyped, PTL
  <2> QED BY <2>1, <2>2, RestTyped DEF RestInv, CopyInv
<1>2. ASSUME CopySteps, BirthSteps, AgainSteps PROVE TwiceInv'
  BY <1>1, <1>2, TwiceStep
<1>3. ASSUME NEW t \in Tasks, Progress(t) PROVE TwiceInv'
  <2>1. Follows(t)
    BY <1>1, <1>3, ProgressFollows DEF RestBase
  <2>2. CopySteps
    BY <1>1, <1>3, <2>1, ProgressRest
  <2> QED BY <1>1, <1>2, <1>3, <2>1, <2>2, ProgressTwice DEF Follows
<1>4. ASSUME NEW how \in {"edit", "delete"}, Foreign(how) PROVE TwiceInv'
  <2>1. /\ row.ver # 0 /\ row' = Change(how) /\ excused' = TRUE
        /\ UNCHANGED <<view, listed, again, form, task>>
    BY <1>4 DEF Foreign
  <2>2. row'.rev = row.rev + 1
    BY <2>1 DEF Change
  <2>3. CopySteps
    BY <2>1, <2>2 DEF CopySteps, RowSteps, Carries, Known
  <2>4. BirthSteps /\ AgainSteps
    BY <2>1 DEF BirthSteps, AgainSteps, Created
  <2> QED BY <1>2, <2>3, <2>4
<1>5. CASE UNCHANGED pages
  <2>1. UNCHANGED <<view, row, listed, again, task, excused>>
    BY <1>5 DEF pages
  <2> QED BY <2>1 DEF TwiceInv, Creates, Created, FromBirth
<1>6. CASE \/ \E t \in Tasks : Load(t) \/ SubmitForm(t)
           \/ \E t \in Tasks, b \in Page[view].buttons : Click(t, b)
           \/ \E b \in Page[view].buttons : OpenDialog(b)
           \/ CloseDialog
  BY <1>1, <1>2, <1>6, UserRest, UserTwice
<1> QED BY <1>3, <1>4, <1>5, <1>6 DEF PagesNext

LEMMA TwiceHolds == ConsoleSpec => []TwiceInv
<1>1. ConsoleInit => TwiceInv
  BY TwiceStart DEF ConsoleInit, Resting
<1>2. PagesInv /\ OwnInv /\ RestInv /\ TwiceInv /\ [ConsoleNext]_console => TwiceInv'
  BY PagesMove, TwiceKept
<1> QED BY <1>1, <1>2, PagesHold, OwnHolds, RestHolds, PTL DEF ConsoleSpec

\* A page with nothing in flight has no button disabled and no dialog saving,
\* and shows the record, once or twice, as the server has it unless it has an
\* excuse, for any number of handlers and changes and every order of their
\* answers.
THEOREM RestIsTrueHolds == ConsoleSpec => []RestIsTrue
<1>1. RestInv /\ TwiceInv => RestIsTrue
  <2> SUFFICES ASSUME RestInv, TwiceInv, \A t \in Tasks : task[t].phase = "idle"
               PROVE  /\ busy = {} /\ ~form.saving
                      /\ ~excused => listed = row /\ again \in {Absent, row}
    BY DEF RestIsTrue
  <2>1. busy = {}
    BY DEF RestInv, FlagsCleared, Live
  <2>2. ~form.saving
    BY DEF RestInv, SavingEnds
  <2>3. \A t \in Tasks : ~Brings(task[t])
    BY DEF Brings
  <2> QED BY <2>1, <2>2, <2>3 DEF RestInv, ListCatchesUp, TwiceInv
<1> QED BY <1>1, RestHolds, TwiceHolds, PTL
=============================================================================
