---------------------------- MODULE ConsolePages ----------------------------
(***************************************************************************)
(* The pages of the web console that list records and change them:         *)
(* subscriptions, nodes, proxy services, routing rules, residential        *)
(* channels and providers, Cloudflare accounts, alerts and archives.       *)
(*                                                                         *)
(* They share one shape and differ in its details.  A button sends a       *)
(* request, or opens a dialog whose form sends it; busy flags disable the  *)
(* buttons meanwhile; an answer patches the list or loads it again.  A     *)
(* handler is an operation, what a page offers a set of buttons, and the   *)
(* state is one visit of one page: the record it is about at the server,   *)
(* the copy it shows, and the handlers that are still awaiting something.  *)
(* Answers arrive in any order and no load has a sequence number.          *)
(***************************************************************************)
EXTENDS Naturals, FiniteSets

CONSTANTS Tasks,   \* bound: handlers and loads in flight
          MaxRev   \* bound: changes of the record

ASSUME PagesAssumption ==
    /\ Tasks \subseteq Nat \ {0} /\ Tasks # {}
    /\ MaxRev \in Nat \ {0}

-----------------------------------------------------------------------------
(* Operations: what a handler asks for and what it does with the answer.   *)
(*   verb     what the request does to the record ("probe": nothing)       *)
(*   version  the version it carries: of the copy the administrator acted  *)
(*            on ("seen"), of the list when it is sent ("listed"), "none"  *)
(*   key      the busy flag it sets; "form" is a flag of the dialog itself *)
(*   ok       what a success does: "reload", "patch", "drop", "none"       *)
(*   fails    what a failure does: "reload" or "keep"                      *)
(*   second   a second request: "before" or "after" that, or "none"        *)

Op(name, verb, version, key, ok) ==
    [name |-> name, verb |-> verb, version |-> version, key |-> key, ok |-> ok,
     fails |-> "keep", second |-> "none"]

LoadPage == Op("load", "probe", "none", "none", "reload")

\* Mutant: a batch without its load().
RefreshSubscriptionsOnly == Op("refreshAll", "act", "none", "all", "none")

\* subscriptions-page.tsx, create-subscription-form.tsx
RefreshSubscription ==
    [Op("refresh", "act", "none", "row", "reload") EXCEPT !.fails = "reload"]
CheckSubscription == Op("check", "act", "none", "test", "reload")
RefreshSubscriptions == Op("refreshAll", "act", "none", "all", "reload")
CheckNodes == Op("checkAll", "act", "none", "testAll", "reload")
CreateSubscription == Op("create", "create", "none", "form", "patch")
SaveSubscription == Op("save", "edit", "seen", "form", "patch")
DeleteSubscription == Op("delete", "delete", "seen", "row", "drop")

\* nodes-page.tsx: the batch first clears the quality it is about to measure.
CheckNode == Op("check", "act", "none", "test", "patch")
CheckVisibleNodes == Op("checkVisible", "act", "none", "batch", "patch")
ToggleNode == Op("toggle", "act", "none", "none", "patch")

\* routing-page.tsx, edit-proxy-service-form.tsx: the listener, then its group.
ApplyDataPlane == Op("apply", "probe", "none", "page", "none")
CreateProxyService == Op("create", "create", "none", "create", "reload")
EditProxyService ==
    [Op("save", "edit", "listed", "form", "reload") EXCEPT !.fails = "reload"]
RemoveService ==
    [Op("delete", "delete", "seen", "page", "reload") EXCEPT !.second = "before"]

\* rules-page.tsx and GroupRoutingPanel: the whole configuration, no version.
\* The first can be saved without having been loaded.
SaveRules == Op("saveRules", "edit", "none", "saving", "patch")
SaveGroupRoutes == Op("saveRoutes", "edit", "none", "form", "patch")

\* residential-page.tsx, residential-sessions-dialog.tsx
CreateChannel == Op("create", "create", "none", "form", "reload")
SaveChannel == Op("save", "edit", "seen", "form", "reload")
SaveEndpoint == Op("saveEndpoint", "edit", "seen", "form", "reload")
DeleteChannel == Op("delete", "delete", "seen", "none", "reload")
RotateSession == Op("rotate", "act", "none", "form", "reload")
CreateProvider == Op("create", "create", "none", "form", "reload")
SaveProvider == Op("save", "edit", "seen", "form", "reload")
DeleteProvider == Op("delete", "delete", "seen", "none", "reload")
TestProvider == Op("test", "probe", "none", "none", "none")

\* cf-account-group.tsx: its one busy flag holds one name.
AddAccount == [Op("create", "create", "none", "add", "reload") EXCEPT !.second = "after"]
DeleteAccount == Op("delete", "delete", "none", "row", "reload")
SweepAccounts == Op("sweep", "probe", "none", "sweep", "none")

\* alerts-page.tsx, artifacts-page.tsx
AcknowledgeAlert == Op("acknowledge", "act", "none", "none", "reload")
SaveAlertSettings == Op("saveSettings", "edit", "none", "settings", "reload")
TestAlertSettings == Op("testSettings", "probe", "none", "settings", "none")
CreateArtifact == Op("create", "create", "none", "all", "patch")
VerifyArtifact == Op("verify", "probe", "none", "row", "none")
DeleteArtifact == Op("delete", "delete", "none", "row", "drop")

-----------------------------------------------------------------------------
(* What the pages offer.  A button waits for busy flags; it sends at once, *)
(* or opens a dialog over the page: a "modal" one cannot be closed while   *)
(* it is saving, a "loose" one can, a "kept" one can and stays open after  *)
(* a success, as does an "inline" one, which leaves the page usable.       *)

Button(op, waits, dialog) == [op |-> op, waits |-> waits, dialog |-> dialog]

\* Mutant: the form can be closed while it is saving.
SubscriptionsHeaderLoose ==
    {Button(RefreshSubscriptions, {"loading", "all"}, "no"),
     Button(CheckNodes, {"loading", "testAll"}, "no"),
     Button(LoadPage, {"loading"}, "no"),
     Button(CreateSubscription, {}, "loose")}

SubscriptionsHeader ==
    {Button(RefreshSubscriptions, {"loading", "all"}, "no"),
     Button(CheckNodes, {"loading", "testAll"}, "no"),
     Button(LoadPage, {"loading"}, "no"),
     Button(CreateSubscription, {}, "modal")}
SubscriptionRow ==
    {Button(CheckSubscription, {"row", "test"}, "no"),
     Button(RefreshSubscription, {"row"}, "no"),
     Button(SaveSubscription, {}, "modal"),
     Button(DeleteSubscription, {"row"}, "modal")}

NodesHeader == {Button(CheckVisibleNodes, {"loading", "batch"}, "no"),
                Button(LoadPage, {"loading"}, "no")}
NodeRow == {Button(CheckNode, {"test"}, "no"), Button(ToggleNode, {}, "no")}

RoutingHeader == {Button(LoadPage, {"loading", "page"}, "no"),
                  Button(ApplyDataPlane, {"page"}, "no"),
                  Button(CreateProxyService, {"create"}, "no")}
ServiceRow == {Button(EditProxyService, {}, "inline"), Button(RemoveService, {}, "modal")}

ChannelsTable ==
    {Button(LoadPage, {}, "no"),
     Button(CreateChannel, {}, "loose"),
     Button(SaveChannel, {}, "loose"),
     Button(SaveEndpoint, {}, "loose"),
     Button(RotateSession, {}, "kept"),
     Button(DeleteChannel, {}, "no")}
ProvidersTable ==
    {Button(LoadPage, {}, "no"),
     Button(CreateProvider, {}, "loose"),
     Button(SaveProvider, {}, "loose"),
     Button(TestProvider, {}, "no"),
     Button(DeleteProvider, {}, "no")}

AccountsPanel ==
    {Button(SweepAccounts, {}, "no"), Button(AddAccount, {}, "loose"),
     Button(DeleteAccount, {}, "no")}

AlertsPanel == {Button(LoadPage, {}, "no"), Button(AcknowledgeAlert, {}, "no"),
                Button(SaveAlertSettings, {"settings"}, "no"),
                Button(TestAlertSettings, {"settings"}, "no")}

ArtifactsPanel == {Button(LoadPage, {"loading"}, "no"),
                   Button(CreateArtifact, {"all"}, "no")}
ArtifactRow == {Button(VerifyArtifact, {"row"}, "no"), Button(DeleteArtifact, {"row"}, "modal")}

\* "hides": the list is replaced while loading; "timed": timers or filters
\* load as well; "quiet": a load does not set the loading flag again; "single":
\* one busy flag holds the name of the last handler that set it.
PageOf(buttons, traits) == [buttons |-> buttons, traits |-> traits]
SubscriptionsPage == PageOf(SubscriptionsHeader \cup SubscriptionRow, {"hides"})
NodesPage == PageOf(NodesHeader \cup NodeRow, {"hides", "timed"})
RoutingPage == PageOf(RoutingHeader \cup ServiceRow, {})
RoutesPanel == PageOf({Button(SaveGroupRoutes, {}, "inline")}, {})
RulesPage == PageOf({Button(SaveRules, {"loading", "saving"}, "no")}, {"hides"})
ChannelsPage == PageOf(ChannelsTable, {})
ProvidersPage == PageOf(ProvidersTable, {})
AccountsPage == PageOf(AccountsPanel, {"timed", "quiet", "single"})
AlertsPage == PageOf(AlertsPanel, {"timed"})
ArtifactsPage == PageOf(ArtifactsPanel \cup ArtifactRow, {"hides"})

Page == [subscriptions |-> SubscriptionsPage, nodes |-> NodesPage, routing |-> RoutingPage,
         routes |-> RoutesPanel, rules |-> RulesPage, channels |-> ChannelsPage,
         providers |-> ProvidersPage, accounts |-> AccountsPage, alerts |-> AlertsPage,
         artifacts |-> ArtifactsPage]
Pages == DOMAIN Page
Ops == {b.op : b \in UNION {Page[p].buttons : p \in Pages}}
OfRecord(op) == op.verb \in {"act", "edit", "delete"} /\ op # SaveRules
Boxes(op) == IF op.name \in {"create", "save"} THEN {"create", "save"} ELSE {op.name}

-----------------------------------------------------------------------------
VARIABLES
    view,      \* the page
    row,       \* the record at the server; ver 0: absent, and rev 0: not created yet
    listed,    \* the copy the page shows, ver 0: none
    again,     \* a second copy below it, of a record that is listed twice
    busy,      \* the busy flags that are set, "loading" among them
    form,      \* the dialog that is open
    task,      \* per task: the handler or load that is awaiting something
    excused,   \* ghost: the copy may differ for a reason outside this visit
    meddled    \* ghost: an answer closed a dialog opened after the one that asked

pages == <<view, row, listed, again, busy, form, task, excused, meddled>>

Keys == {"loading", "batch"} \cup {op.key : op \in Ops}
Copies == [ver : 0..(MaxRev + 1), rev : 0..(MaxRev + 1)]
Absent == [ver |-> 0, rev |-> 0]
Cleared == MaxRev + 1  \* the rev of a copy whose quality has been cleared
NoForm == [op |-> LoadPage, dialog |-> "no", seen |-> 0, saving |-> FALSE]
IdleTask == [op |-> LoadPage, phase |-> "idle", sent |-> 0, own |-> FALSE, copy |-> Absent]

PagesTypeOK ==
    /\ view \in Pages
    /\ row \in Copies /\ listed \in Copies /\ again \in Copies
    /\ busy \subseteq Keys
    /\ form \in [op : Ops \cup {LoadPage}, dialog : {"no", "modal", "loose", "kept", "inline"},
                seen : 0..(MaxRev + 1), saving : BOOLEAN]
    /\ task \in [Tasks -> [op : Ops \cup {LoadPage},
                          phase : {"idle", "sent", "ok", "refused", "second", "asked", "read",
                                   "after"},
                          sent : 0..(MaxRev + 1), own : BOOLEAN, copy : Copies]]
    /\ excused \in BOOLEAN /\ meddled \in BOOLEAN

\* Pages of a configuration, which is never absent.
Lasting == {"rules", "routes"}

PagesInit ==
    /\ view \in Pages
    /\ row \in {Absent, [ver |-> 1, rev |-> 0]} /\ (view \in Lasting => row # Absent)
    /\ listed = Absent /\ again = Absent /\ busy = {"loading"} /\ form = NoForm
    /\ LET first == CHOOSE t \in Tasks : \A u \in Tasks : t <= u
       IN  task = [t \in Tasks |-> IF t = first THEN [IdleTask EXCEPT !.phase = "asked"]
                                   ELSE IdleTask]
    /\ excused = FALSE /\ meddled = FALSE

-----------------------------------------------------------------------------
(* The administrator. *)

NextTask(t) == task[t].phase = "idle" /\ \A u \in Tasks : task[u].phase = "idle" => t <= u

KeysOf(op) == IF op = CheckVisibleNodes THEN {"batch", "test"} ELSE {op.key} \ {"none", "form"}
SetBusy(op) == IF "single" \in Page[view].traits THEN (busy \cap {"loading"}) \cup KeysOf(op)
               ELSE busy \cup KeysOf(op)
ClearBusy(op) == IF "single" \in Page[view].traits THEN busy \cap {"loading"} ELSE busy \ KeysOf(op)

ListVisible == ~("hides" \in Page[view].traits /\ "loading" \in busy)
\* A button of the record needs a copy of it, the others the page.
Offered(b) ==
    /\ b \in Page[view].buttons /\ b.waits \cap busy = {}
    /\ form.dialog \in {"no", "inline"}
    /\ OfRecord(b.op) => listed.ver # 0 /\ ListVisible

\* The version of the copy the administrator edits or deletes.
LookedAt(op) == IF op.verb \notin {"edit", "delete"} THEN {0}
                ELSE {listed.ver} \cup {c.ver : c \in {again} \ {Absent}}

\* The handler is called: it sets its flag and sends.
Begin(t, op, seen, own) ==
    task' = [task EXCEPT ![t] =
        [op |-> op, phase |-> "sent", own |-> own, copy |-> Absent,
         sent |-> CASE op.version = "seen" -> seen [] op.version = "listed" -> listed.ver
                    [] OTHER -> 0]]

Click(t, b) ==
    /\ NextTask(t) /\ Offered(b) /\ b.dialog = "no" /\ b.op # LoadPage
    /\ \E seen \in LookedAt(b.op) : Begin(t, b.op, seen, FALSE)
    /\ busy' = SetBusy(b.op)
    /\ listed' = IF b.op = CheckVisibleNodes /\ listed.ver # 0 THEN [listed EXCEPT !.rev = Cleared]
               ELSE listed
    /\ UNCHANGED <<view, row, again, form, excused, meddled>>

MarkLoading == busy' = IF "quiet" \in Page[view].traits THEN busy ELSE busy \cup {"loading"}

\* load(), by the button, a timer, a filter or the mount.
AskRow(t, op, own) ==
    /\ task' = [task EXCEPT ![t] = [IdleTask EXCEPT !.op = op, !.phase = "asked",
                                                    !.own = own]]
    /\ MarkLoading

Load(t) ==
    /\ NextTask(t)
    /\ \/ "timed" \in Page[view].traits
       \/ \E b \in Page[view].buttons : b.op = LoadPage /\ Offered(b)
    /\ AskRow(t, LoadPage, FALSE)
    /\ UNCHANGED <<view, row, listed, again, form, excused, meddled>>

OpenDialog(b) ==
    /\ Offered(b) /\ b.dialog # "no" /\ form = NoForm
    /\ \E seen \in LookedAt(b.op) :
           form' = [op |-> b.op, dialog |-> b.dialog, seen |-> seen, saving |-> FALSE]
    /\ UNCHANGED <<view, row, listed, again, busy, task, excused, meddled>>

Saving == form.saving \/ form.op.key \in busy

Disowned(f) == [t \in Tasks |-> [f[t] EXCEPT !.own = FALSE]]

CloseDialog ==
    /\ form # NoForm /\ (form.dialog = "modal" => ~Saving)
    /\ form' = NoForm
    /\ task' = Disowned(task)
    /\ UNCHANGED <<view, row, listed, again, busy, excused, meddled>>

SubmitForm(t) ==
    /\ NextTask(t) /\ form # NoForm /\ ~Saving
    /\ Begin(t, form.op, form.seen, TRUE)
    /\ busy' = SetBusy(form.op)
    /\ form' = [form EXCEPT !.saving = (form.op.key = "form")]
    /\ UNCHANGED <<view, row, listed, again, excused, meddled>>

-----------------------------------------------------------------------------
(* The server, and other administrators. *)

Change(how) ==
    CASE how = "create" -> IF row = Absent THEN [ver |-> 1, rev |-> 1] ELSE row
      [] how = "edit" -> [ver |-> row.ver + 1, rev |-> row.rev + 1]
      [] how = "act" -> IF row.rev < MaxRev THEN [row EXCEPT !.rev = @ + 1] ELSE row
      [] how = "delete" -> [ver |-> 0, rev |-> row.rev + 1]
      [] OTHER -> row

\* The handlers of the API: a missing record and a version that is not the
\* record's are refused.
Accepts(r) ==
    \/ r.op.verb \in {"create", "probe"}
    \/ r.op.verb = "act" /\ row.ver # 0
    \/ r.op.verb \in {"edit", "delete"} /\ row.ver # 0 /\ row.rev < MaxRev
       /\ (r.op.version = "none" \/ r.sent = row.ver)

Refused(r) == [r EXCEPT !.phase = "refused", !.sent = 0, !.copy = Absent]

ServeTask(t) ==
    /\ task[t].phase = "sent"
    /\ LET r == task[t] IN
       IF Accepts(r)
       THEN /\ row' = Change(r.op.verb)
            /\ task' = [task EXCEPT ![t] = [@ EXCEPT !.phase = "ok", !.sent = 0,
                            !.copy = IF r.op.verb = "create" /\ row # Absent THEN Absent
                                     ELSE row']]
       ELSE task' = [task EXCEPT ![t] = Refused(@)] /\ UNCHANGED row
    /\ UNCHANGED <<view, listed, again, busy, form, excused, meddled>>

\* The request fails, before or after the server has acted on it.
Lose(t) ==
    /\ task[t].phase \in {"sent", "ok"}
    /\ task' = [task EXCEPT ![t] = Refused(@)]
    /\ excused' = (excused \/ task[t].phase = "ok" \/ task[t].op = CheckVisibleNodes)
    /\ UNCHANGED <<view, row, listed, again, busy, form, meddled>>

Foreign(how) ==
    /\ row.ver # 0 /\ row.rev < MaxRev /\ (how = "delete" => view \notin Lasting)
    /\ row' = Change(how)
    /\ excused' = TRUE
    /\ UNCHANGED <<view, listed, again, busy, form, task, meddled>>

-----------------------------------------------------------------------------
(* The answers, in whatever order they arrive. *)

\* The list takes a copy of the record; excused says that an older copy has
\* replaced a newer one.  A part of the row that is gone is unmounted.
ShowCopy(copy) ==
    /\ listed' = copy
    /\ excused' = (copy # row /\ (excused \/ copy.rev < listed.rev))

\* What a success patches.  A created record is put before the list, which a
\* load has perhaps filled with it; later patches replace or drop each copy.
Second(r) == IF r.op.verb = "create" THEN listed ELSE IF again = Absent THEN Absent ELSE r.copy
Patch(r) ==
    /\ ShowCopy(r.copy)
    /\ again' = IF r.op.ok = "drop" \/ Second(r).ver = 0 THEN Absent ELSE Second(r)

\* finally: the handler's flags are cleared, whatever happened.
Finish(t) == task' = [task EXCEPT ![t] = IdleTask] /\ busy' = ClearBusy(task[t].op)
Unsaving(f, t) == IF task[t].own THEN [f EXCEPT !.saving = FALSE] ELSE f

LooseDialogs == {"channels", "providers", "accounts"}

\* A success closes the dialog of its kind, even one opened since.
Closes(t) ==
    /\ task[t].op \in {b.op : b \in {c \in Page[view].buttons : c.dialog \in {"modal", "loose"}}}
    /\ form.dialog \in {"modal", "loose"} /\ Boxes(form.op) = Boxes(task[t].op)

\* An inline form stays, with what has just been saved.
Seen(t) == IF task[t].own /\ form.dialog = "inline" THEN [form EXCEPT !.seen = task[t].copy.ver]
           ELSE form

Succeed(t) ==
    LET r == task[t] IN
    /\ meddled' = (meddled \/ (Closes(t) /\ ~r.own /\ view \notin LooseDialogs))
    /\ IF r.op.ok = "reload"
       THEN /\ LET asked == [IdleTask EXCEPT !.op = r.op, !.phase = "asked", !.own = r.own]
                   next == [task EXCEPT ![t] = asked]
               IN  task' = IF Closes(t) THEN Disowned(next) ELSE next
            /\ MarkLoading
            /\ form' = IF Closes(t) THEN NoForm ELSE Seen(t)
            /\ UNCHANGED <<listed, again, excused>>
       ELSE /\ LET next == [task EXCEPT ![t] = IdleTask]
               IN  task' = IF Closes(t) THEN Disowned(next) ELSE next
            /\ busy' = ClearBusy(r.op)
            /\ form' = IF Closes(t) THEN NoForm ELSE Unsaving(Seen(t), t)
            /\ IF \/ r.op.ok = "none"
                  \/ r.op.ok = "patch" /\ r.copy.ver = 0
                  \/ OfRecord(r.op) /\ listed.ver = 0
               THEN UNCHANGED <<listed, again, excused>> ELSE Patch(r)

ReceiveOk(t) ==
    /\ task[t].phase = "ok"
    /\ IF task[t].op.second = "before"
       THEN /\ task' = [task EXCEPT ![t].phase = "second"]
            /\ UNCHANGED <<listed, again, busy, form, excused, meddled>>
       ELSE Succeed(t)
    /\ UNCHANGED <<view, row>>

\* The second request of removeService(): when it fails the list is kept.
SecondEnds(t, succeeds) ==
    /\ task[t].phase = "second"
    /\ IF succeeds THEN Succeed(t)
       ELSE /\ Finish(t) /\ excused' = TRUE /\ form' = Unsaving(form, t)
            /\ UNCHANGED <<listed, again, meddled>>
    /\ UNCHANGED <<view, row>>

ReceiveRefused(t) ==
    /\ task[t].phase = "refused"
    /\ IF task[t].op.fails = "reload" THEN AskRow(t, task[t].op, task[t].own) /\ UNCHANGED form
       ELSE Finish(t) /\ form' = Unsaving(form, t)
    /\ UNCHANGED <<view, row, listed, again, excused, meddled>>

ReadRow(t) ==
    /\ task[t].phase = "asked"
    /\ task' = [task EXCEPT ![t].phase = "read", ![t].copy = row]
    /\ UNCHANGED <<view, row, listed, again, busy, form, excused, meddled>>

\* load() never throws: its handler goes on after a failure as well.
PageLoadEnds(t, succeeds) ==
    /\ task[t].phase \in {"asked", "read"}
    /\ IF succeeds THEN task[t].phase = "read" /\ ShowCopy(task[t].copy) /\ again' = Absent
       ELSE UNCHANGED <<listed, again>> /\ excused' = TRUE
    /\ LET after == task[t].op.second = "after"
           gone == form.dialog \in {"kept", "inline"} /\ listed'.ver = 0
           next == [task EXCEPT ![t] = IF after THEN [@ EXCEPT !.phase = "after", !.copy = Absent]
                                       ELSE IdleTask]
       IN  /\ task' = IF gone THEN Disowned(next) ELSE next
           /\ busy' = (IF after THEN busy ELSE ClearBusy(task[t].op)) \ {"loading"}
           /\ form' = IF gone THEN NoForm ELSE IF after THEN form ELSE Unsaving(form, t)
    /\ UNCHANGED <<view, row, meddled>>

\* The sweep that follows a new account.
AfterEnds(t) ==
    /\ task[t].phase = "after" /\ Finish(t)
    /\ UNCHANGED <<view, row, listed, again, form, excused, meddled>>

-----------------------------------------------------------------------------
Progress(t) ==
    \/ ServeTask(t) \/ Lose(t) \/ ReceiveOk(t) \/ ReceiveRefused(t) \/ ReadRow(t) \/ AfterEnds(t)
    \/ \E succeeds \in BOOLEAN : SecondEnds(t, succeeds) \/ PageLoadEnds(t, succeeds)

PagesNext ==
    \/ \E t \in Tasks : Load(t) \/ SubmitForm(t) \/ Progress(t)
    \/ \E t \in Tasks, b \in Page[view].buttons : Click(t, b)
    \/ \E b \in Page[view].buttons : OpenDialog(b)
    \/ CloseDialog
    \/ \E how \in {"edit", "delete"} : Foreign(how)

PagesSpec == PagesInit /\ [][PagesNext]_pages

-----------------------------------------------------------------------------
(* Properties. *)

\* When nothing is in flight any more, no button is left disabled and no dialog
\* left saving, and the page shows the record as the server has it: no handler
\* forgets its finally, its patch or its reload, and none undoes another's.
\* Unless (excused) somebody else changed the record, a request failed, or an
\* older answer replaced a newer one.  It may show it twice: a created record is
\* put before a list that has it already (subscriptions-page.tsx:235,
\* artifacts-page.tsx:45), but then both copies are true.
RestIsTrue ==
    (\A t \in Tasks : task[t].phase = "idle") =>
        /\ busy = {} /\ ~form.saving
        /\ ~excused => listed = row /\ again \in {Absent, row}

\* An answer closes the dialog that asked, never one opened since, and a dialog
\* submits once at a time; except where a dialog can be closed while it is
\* saving (LooseDialogs), and where handlers share a single busy flag.
DialogsOwnAnswers ==
    /\ ~meddled
    /\ \A t, u \in Tasks : t # u /\ task[t].own /\ task[u].own => view = "accounts"
=============================================================================
