# A TLA+ verification of HX-ProxyGroup

HX-ProxyGroup is a control plane for Mihomo: one Go process that keeps
subscriptions, nodes, proxy groups, listeners and residential sessions in
SQLite, compiles them into one configuration, and makes a Mihomo process serve
it. A web console of React pages is its user interface, and a set of scripts guards
the decision notes kept beside its source. This directory models the parts of all
three whose correctness depends on the order of things: what happens when requests,
background workers, answers, timers, sockets, and processes that can die take their
steps in an order nobody wrote a test for. Paths below are relative to the repository.

## 1. Inventory

Every service is a Go object in one process (`cmd/hx-proxygroupd/main.go`).
They call each other directly, share one SQLite database with a single
connection (`internal/store`, so every statement and every transaction is
atomic and transactions never overlap), and all end in one
`Manager.Apply`. What is concurrent is one goroutine per HTTP request, six
background tasks (subscription scheduler with its worker pool, node checks,
alerts, traffic sampling, fleet polling, session sweeping), Mihomo, and systemd.

| Component | State | Operations | Hard behaviour | What makes it correct |
| --- | --- | --- | --- | --- |
| Data-plane manager, `internal/dataplane/mihomo/manager.go` | `active.yaml`, `.previous`, process handle, `lastCompiled`, status | Apply with rollback, Status, Close | three places that fail independently, cancelled contexts, late reloads, crashes on both sides | only validated files; file, Mihomo and memory agree; a failed Apply restores; nothing committed is missed |
| Compiler, `compiler*.go` | none | Compile | large pure function | validity is what `mihomo -t` says |
| Subscriptions, `internal/subscription` | rows, snapshots, raw files, one mutex per subscription | Create, Update, Delete, Refresh | minutes between reading a row and committing; 304 answers; files before rows | row current, files exist, refreshing never stops |
| Scheduler, `internal/scheduler/subscriptions.go` | jobs channel, leases in `next_refresh_at` | claim, enqueue, work | bounded queue, lost claims | every due subscription is attempted again |
| Snapshot and node tables, `internal/store` | snapshot status, node lifecycle | commit, activate, delete | shared nodes, retire and revive | one active snapshot, listed nodes survive |
| Node checks, `internal/node`, `scheduler/nodes.go` | failure counts, lifecycle | Check, CheckDue, Disable, Enable | result recorded seconds after the read | no result overrules an administrator or a retirement |
| Proxy groups, `internal/proxygroup` | rows with versions | Create, Update, Delete | checks outside the writing statement | acyclic, no lost update |
| Listeners, `internal/listener` | rows with versions, share tokens | Create, Update, Delete, Rotate, shared inbound | restore after a failed Apply | no lost update, rejected edits vanish |
| Proxy services, `internal/proxyservice` | none of their own | Create, Update | compensation across two services | as above, over both rows |
| Settings and routing rules | one metadata row each, no version | Update | save, Apply, restore | what is stored is served |
| Residential channels and sessions, `internal/residential` | windows with node, route, version and lease; session nodes; one mutex | ensure, rotate, route, delete, claim, release, resize, sweep | calls of the provider and publications inside the mutex, edits and reads outside it, compensation | no window without its node, served as recorded, leases and versions respected |
| Alerts, `internal/alert` | open alerts, mail retries | evaluate, notify | deduplication, retries | each incident is told once |
| Authentication, `internal/auth` | setup token, sessions, TOTP, rate limits | setup, login, logout | windows, replays, concurrent setup | one administrator, bounded attempts |
| Terminal and root helper, `internal/terminal` | PTY sessions | open, attach, detach, expire | limits, expiry against attach | bounded, nothing left running |
| Fleet, `internal/fleet` | peers | poll | late answers | the newest answer is shown |
| Pipeline, cron, parsing, traffic deltas | none | pure functions | boundaries | equal to a reference definition |
| Transfer, artifacts, bundles, backup | files | export, import | partial failure | all or nothing |
| Worker deployment, logs, overview, controller client, installer | none shared | I/O | none | not verified here |
| Console sign-in, `web/src/App.tsx`, `pages/auth-page.tsx`, `pages/settings-page.tsx`, `lib/api.ts` | gate, CSRF token, cookie | status, setup, login, logout, account changes, any request | answers of two sessions in any order, lost answers, other tabs | who is shown the console can write; nobody is locked out |
| Console terminal, `pages/terminal-page.tsx` | socket, timer, keepalive, 2FA status, path | connect, disconnect, reconnect, poll, unlock | callbacks of former sockets, timers that outlive their cause | one session, closed means quiet |
| File panel, `components/terminal/file-panel.tsx` | listing, failure, sequence number | load with retries, navigate, remove, upload | superseded loads | shows the directory of its path |
| Record pages, `pages/*.tsx` and their forms | list, busy flags, dialogs | save, delete, act, batch, reload | unsequenced loads, forms older than the list, late answers | ends true and enabled, an answer stays with its dialog |
| Decision notes, `.agents/skills/hx-agent-notes/scripts` | notes, archive, manifest | write, move, archive, seal, gate, merge | runs that overlap or die between two files, edits by hand | a note that nobody disturbs keeps its text and its seal line |
| Other console pages, widgets, theme; consumer contract gate | none shared | polls, rendering, comparison of three files | none | not verified here |

The console is one browser tab: JavaScript runs each handler up to its next await,
answers come back in any order, and `App` mounts one page at a time, with the
terminal kept mounted under the others once it has been visited. The
scripts are Node processes that share the work tree and nothing else.

`PROJECT.json` lists every component with what is and is not modelled, and every
hazard at its line.

## 2. Modules

| Module | Models | Uses |
| --- | --- | --- |
| `ConfigPublication` | abstract: what replacing `active.yaml` promises | |
| `Dataplane` | `Manager.Apply`, rollback, Status, Close, Mihomo, systemd | implements `ConfigPublication` |
| `DataplaneProofs` | proofs about `Dataplane` | |
| `NodeInventory` | every transaction on snapshots and node lifecycles, checks in flight | |
| `NodeInventoryProofs` | proofs about `NodeInventory` | |
| `SubscriptionRefresh` | Refresh, scheduler, requests, restart | extends `NodeInventory`, takes its transactions |
| `SubscriptionRefreshProofs` | proofs about `SubscriptionRefresh` | uses `NodeInventoryProofs` |
| `ProxyServices` | groups, listeners, proxy services, settings and routing rules | takes Apply as one step, as `Dataplane` proves it |
| `ProxyServicesProofs` | proofs about `ProxyServices` | |
| `ResidentialSessions` | the sessions of one sticky channel: requests, sweep, leases, versions, resize | takes Apply as one step |
| `ResidentialSessionsProofs` | proofs about `ResidentialSessions` | |
| `ConsoleSession` | the gate, the sign-in form, the account tab, `request()`, `requireAuth` | |
| `ConsoleTerminal` | the terminal page: sockets, timer, keepalive, 2FA polls, tabs | |
| `ConsoleFiles` | the file panel and the path it shares with the shell | |
| `ConsolePages` | the pages that list records and change them | |
| `Console` | the console as the four together, its fairness | extends the four |
| `ConsoleProofs` | proofs about `Console` | |
| `ConsolePagesProofs` | proofs about the record pages | extends `ConsoleProofs` |
| `NotesArchive` | notes, archive, scripts, gates, merges | |
| `NotesArchiveProofs` | proofs about `NotesArchive` | |
| `MC*` | instances for TLC | |

### Dataplane

A configuration is a value of `Configs`, accepted when it is in `Valid`.
`active` and `previous` are the two files; `dpUp`, `dpCfg`, `late` are Mihomo
(running, what it serves, a reload request whose client gave up); `proc`,
`last`, `state`, `running` are the manager's fields; `pc` is the step of the
Apply that holds the mutex, `target`, `hadOld`, `ctxDone` its locals. Each
action is one step of `Apply` that touches one of the three places: compile,
stop when nothing is to be served, validate, preserve, publish, reload, wait or
start, and the same again for the rollback. Outside the mutex, administrators
edit (`Edit`), callers queue (`Lock` takes one), contexts end (`Cancel`), Mihomo
dies and is restarted by systemd, late reloads arrive, and the control plane
crashes and comes back with an empty memory. Both ways to run Mihomo are
explored: systemd unit (`external`) and child process.

`Faults` names which failures an instance explores, so that a run can show
that a single one suffices. `clean` and `outcome` are history variables: whether
a rollback failed since the last publication, and how the last Apply ended.

### NodeInventory

A node is its fingerprint and a content the set of nodes it parses to. One
action per transaction: commit a new snapshot, activate an old one, delete a
subscription (all three retire what no active snapshot lists), set a node's
state, record a check, insert and remove the node of a residential session.
A check is two steps because it probes between reading and recording.

### SubscriptionRefresh

Workers of the pool and one request goroutine run `Refresh`: take the lock,
read the row, load the source (new content, 304, or failure), write the file,
commit or activate, mark, apply. A step that changes the inventory conjoins the
inventory's own action, so what is proved of the inventory holds here too.
Administrators update and delete without the lock, the process may restart.

### ProxyServices

An operation of `Ops` is one request; it stands for the edit it makes and for
the id of the rows it creates. Each database call is a step (`pc`), each
Apply is one, and any of them may fail (`Faults`). `task[o]` holds the rows the
client saw (and whose versions it sends), the rows read to be restored, and the
versions it takes for its own. `UpdateProxyGroup` and `UpdateListener` are two
database calls, the versioned UPDATE (`WriteGroup`, `WriteListener`) and a read of the
row (`ReadBackGroup`, `ReadBackListener`), whose version is what the caller's
compensation later asks for. Another request may write in between, and then the version
and the edit read back (`wrote`, `backG`; `wroteL`, `backL`) are the other's: `crossed`
remembers it. Or the read fails (`LoseGroup`, `LoseListener`): the caller takes it for a
row that was not written, answers with an error and does not restore it, so that the edit
stays without an Apply. The database is `groups` and `listeners` (functions from ids to
rows with edit and version) and `settings`; `served` is what the last successful
Apply compiled; `drifted` says that a request wrote a row after it and ended without an
Apply of its own. Compensations follow the code: listener restore by version
without another Apply, group restore by version through validation and Apply,
deletion of a created group under the foreign key.

### ResidentialSessions

`rows` are the rows of `residential_client_sessions` of one channel, `nodes` its
rows of nodes, `served` what the last successful Apply compiled for each
session. `clientSessionMutex` serialises the requests, so `op` is the one request
that holds it: which `job` it does (`replace` the node, `remove` the session,
`route` it elsewhere, `create` it, publish a `repair`), for whom, at which step,
and the row it would put back. Rotating, switching back to residential, renewing and
resizing share these jobs as they share `replaceClientSessionAllocation` and
`deleteClientSession` in the code. What does not wait for the mutex interleaves
with every step: the repair at the start of `UpdateChannel` (`edit`), snapshots a
consumer reads, other requests' applies, the inventory, providers' edits, crashes.

The history variables are `op.lease` and `op.saw` (what the request presented),
`seen` (one snapshot a consumer holds) and `raced` (a repair cleared a row while
a request ran). Left out of the model because no rule reads it: the managed group's
row. Its version does matter, and `GroupConflict` is the publication that an edit
in between makes fail. A pass over the sessions (the
sweep, a resize) lists them when it begins and reads the expiry policy or the new size
once, and may end early, when its batch is full or its context ends. The two Applies
of a publication are one step with three ways to fail.
Windows that clients create on demand are the ordinals above `session_count`.

### Console

The parts of the console share no variable: what one does to another is an action
of the other (a sign-out is `Unmount` of the terminal, a connection is `SetMode` of
the panel, a page's request is `PageRequest` of the session). `Console` therefore
lets one part move per behaviour, `part`, so the states are the sum of the
parts' and every interleaving within a part is explored.

`ConsoleSession`: a session is a number, `cookie` and `csrf` are the browser's two
halves of it, `flight` the requests on their way with what they carried when they
left, `gate` is `authGate`. The server's side is `Serve*`, with the answers of
`requireAuth`, and `Receive*` is what the awaiting handler does; `Fail` loses the
request or its answer. `mixed` remembers that two logins raced.

`ConsoleTerminal`: `socket`, `timer` and `keepalive` are the refs of that name, `wire`
what the browser has yet to report of each socket, `probes` the status answers on
their way. `strayed` remembers a reconnect timer that fired where `connect()` returns early.

`ConsoleFiles`: `cwd` is the page's, `list` and `denied` the panel's; the newest load
and the superseded ones are apart, as `seqRef` tells them. A load's three attempts
are one. `behind` marks the reload of an edit that ended after the panel had moved on.

`ConsolePages`: ten views share one shape, so a handler is an operation (`Op`: what
the request does, which version it carries, which flag it sets, what it does with a
success and a failure), a page is the set of buttons it offers (`Button`: the flags
that disable it, the dialog it opens) with a few traits of its `load`. The state is one
visit of one page and one record: `row` at the server, `listed` in the page, `busy`, `form`,
and `task`, the handlers that await something. `ver` is the record's version and `rev`
counts its changes. A page that puts a created record before its list may have listed it
already, from a load that overtook the answer: `again` is that second copy, which goes with
the next load or with the record, and changes with it. The rules and the routes of a group
are records that always exist (`Lasting`), and their save button works without a loaded list.
The pages whose dialogs can be closed while saving are named (`LooseDialogs`).

### NotesArchive

A file is per note: under a lifecycle folder (`active`), under the archive (`frozen`), with
its seal in `manifest`. What a file holds (`Files`) is a text, the place of its status line
(in the header, further down, nowhere) and the date of its seal line, or `quoted` when only
the body has a line of that form. A hash is the content it is of, date and place included.

`tool` holds each script run between two file operations: `CheckNote` reads the note and takes a
date, `StampNote` writes back what was read with a seal line, `MoveToArchive` renames whatever is
there by then over whatever is in the archive, `SealNote` writes the manifest that was read
with one entry more. A run that is killed (`Crash`) may leave a file cut short (`Cuts`), also one that
another run has moved away meanwhile, or a manifest that is no JSON (`torn`).

`diff` is what the coverage gate sees of the changes since `main`, the commit merged last. `Merge`
compares the manifest with that of the baseline, or with nothing when `git show` fails
(`notes-lib.ts:372-373`). People edit notes while a run has them, and the archive
by hand in `Tamper`; `spoilt` remembers the notes for which that, or a cut file, has happened, until
a merge with no run under way.

## 3. Runs

| Run | Shows |
| --- | --- |
| `dataplane` | invariants and refinement of Apply under every fault, both modes |
| `dataplane_cancelled` | a cancelled request makes a later Apply report success for a configuration Mihomo does not serve |
| `inventory` | snapshots and nodes stay consistent in every order of transactions |
| `inventory_residential` | a refresh retires session nodes, against the comment of `ListGroupNodeCandidates` |
| `subscription_refresh` | refreshes keep their files and their row, and go on for ever |
| `proxy_services` | no overwrite of an edit that was not read, rejected edits vanish, the data plane ends with the database; through failed and crossed read-backs |
| `services_cycle` | two updates close a cycle that each alone would have been refused |
| `services_create` | the compensation of a failed creation is refused by the foreign key |
| `residential_sessions` | windows keep a node that exists, are served as recorded, and obey leases and versions |
| `sessions_repair` | the repair of a channel edit takes a usable node away from its window |
| `console` | sign-in, terminal, file panel and record pages keep token, socket, path, lists and flags in step, whatever arrives when; the gate and every reconnect settle |
| `notes_archive` | overlapping and dying runs, two dates, and merges without a baseline lose no text of a note that nobody disturbs |

The five violation runs are disagreements between the code and its documents
or comments, quoted in `PROJECT.json` under `findings`.

Bounds, and why they suffice:

- `MCDataplane`: two ordinary configurations, one the validator rejects, the
  empty one and the installer's. An Apply compares at most three contents (the
  former, the new, the newest), and every branch compares for equality only.
  `MaxWaiting = 1`: callers are alike, and one queued caller is enough for an
  edit to arrive during the Apply of another.
- `MCNodeInventory`: two subscriptions that share a node and one that a content
  gives up; `MaxChecks = 1` check in flight per node, since a check that has
  begun carries nothing but its node. `Quarantine = 3` is the code's.
- `MCSubscriptionRefresh`: one subscription, two workers and one request, so
  that two wait for a lock a third holds; a queue of one, so that it is full;
  `MaxFailures = 2` saturates the backoff; one restart. Locks, leases and rows are per
  subscription; the queue is what subscriptions share. Residential nodes and checks
  are left to `NodeInventory`, where they interleave with the same
  transactions.
- `MCProxyServices`: two requests, of every pair of kinds; two groups and a
  listener, enough for every foreign key and for a reference. All rules are between
  the row a request saw and the row it finds, and any number of requests since
  then differ from one only by the version. `services_create` has one request,
  so nothing but its own failed Apply is to blame.
- `MCResidentialSessions`: two windows and two nodes, so that windows share a
  node, as when a provider answers twice with the same exit, or do not. Windows
  may be allocated at the start, so the two events (requests, expirations,
  edits) are left for what interleaves; claims, releases, reads, sweeps and lapses are
  not counted. Two holders with one lease each make a contended window; one
  window is watched. `MaxFaults = 1`: one failure, lost node, withdrawn upstream or
  crash anywhere. `PoolSize` is as large as `Sessions` and never binds.
  `sessions_repair` has one window, so nothing but the repair is to blame.

- `MCConsole`: two requests or handlers in flight (`Slots`, `Tasks`), so that any two
  answers swap and one overtakes a click; two sessions, so that an old one meets a
  new one, and one reload of the tab; two sockets, a current one and a former one
  still closing; one name and depth 2, so that a directory has a parent and a child; `MaxRev = 2`
  changes of a record, one by this administrator and one by another. `Account` has the
  password change only; username and logout of all are answered alike.
- `MCNotesArchive`: one note, which may be cited, with two runs and two dates, so that runs overlap
  on it and stamp it differently; one lifecycle besides `implemented`; one text besides that of a file cut
  short (`MaxText`), since texts are compared for equality. Notes meet in the manifest and in
  the gates only, and `TextsKept` speaks of each note alone; the theorem has any number
  of notes, runs, dates and texts. An archived note is tampered with once between two merges.

Deadlock is not checked where the system may stop: `Dataplane` when the control
plane is down for good, `ResidentialSessions` when its bounds are
reached, `ProxyServices` when every request has been
answered, `SubscriptionRefresh` when the subscription was deleted, `Console` when its
sessions and changes are used up.

## 4. Fairness

- `SubscriptionRefresh!FairSpec`: weak fairness of time passing, the poller,
  the pool and the steps of a refresh, which all have timeouts. Strong fairness of
  `Acquire`, because `sync.Mutex` hands itself to a waiter that has starved
  for a millisecond, and of `ReadRow`, because the database does not refuse the
  same read for ever. Loading may fail every time.
- `Console!ConsoleSpec`: weak fairness of each request being answered or failing, of
  each answer being handled, and of the reconnect timer: `fetch` settles, the event loop
  runs what has settled, and `setTimeout` fires. Nothing is assumed of the administrator,
  of the server's verdicts, or of the sockets.

## 5. Proofs

`tlapm` checks every proof to its leaves. The proofs are for all values of the
constants; the assumptions they rest on are the named `ASSUME`s of the modules
and nothing else.

**`DataplaneProofs`** (from `ConfigsAssumption`, `BoundsAssumption`). The
inductive invariant is `IInv`, the conjunction of

- `TypeOK`;
- `FilesValid`: the active file, its backup and, once it has been validated, the
  candidate of the running Apply passed validation. `OnlyValidated` alone is not
  inductive, since the rename takes its validity from the candidate;
- `Agreement`: at which steps of Apply `lastCompiled` stands for the active file,
  and at which for its backup. It is what makes `MemoryAgrees` inductive through
  the window between the rename and the answer;
- `FailedApplyRestores`, which relates the files when Apply started to those when
  it answers, and needs `Agreement` for the rollback;
- `Freshness`: where the newest edit is on its way to the data plane. It gives
  `NoLostEdit`.

`PublicationImplemented` shows that `Dataplane` implements `ConfigPublication`:
the compilation, the rename and the rollback are its steps, all others stutter.

**`NodeInventoryProofs`** (from `InventoryAssumption`). `IInv` is the conjunction
of `InventoryTypeOK`, `ActiveIsLastSuccess`, `ListedNodesSurvive` and
`VerdictMatchesHistory`, which are inductive together: that a node listed by an
active snapshot survives a switch needs the snapshot to be the only active one
of its subscription. The lemmas `SwitchLists` and `DeleteLists` say which nodes
stay listed when a subscription switches or goes. The action properties
`DisabledSticks` and `RevivedUnverified` follow action by action.

**`SubscriptionRefreshProofs`** (from `InventoryAssumption`, `RefreshAssumption`). The
inductive invariant is `RefreshInv`, the conjunction of

- `TypeOK`, `RecordIsCurrent` and `SnapshotsHaveFiles`;
- `LockHeld`: a worker past `Acquire` holds the lock of its subscription, so that two
  of them work on different subscriptions (`Exclusive`). It is what makes
  `RecordIsCurrent` inductive: nobody else records a result;
- `Prepared`: what is about to be committed was loaded and its file written. A commit
  therefore never adds a row without a file;
- `RowWasThere`: a refresh past its read has seen a row, and a deleted id does not come
  back, so that no `Create` makes an old record look current.

`NextCases` sorts the steps by what they do to the workers; a lemma for each part of the
invariant goes through these kinds. `RefreshKeepsInventory` takes over what is proved of the
inventory, by the lemma `InventoryImplemented`, which follows from the definitions alone: every step
conjoins an action of the inventory or leaves its tables as they are.

**`ProxyServicesProofs`** (from `ServicesAssumption`, `NoRowAssumption`).

- `Typed` says what a request knows at each of its steps (`VerbFits`, `RowsFit`),
  that rows are rows and that every listener has its group; `ServicesTyped`
  follows.
- `PendingApply`: while the data plane has not got what the database holds, some
  request is about to apply, or a request has drifted. `ServedIsCurrent` is not
  inductive, it says nothing of the states in between.
- `Versions`: a version a request has seen or read back stands for one edit. As
  long as the row has that version it has that edit, and the rows a request is
  yet to create are known to nobody. `UpdatesNotLost` follows, as an action
  property: every write and delete asks for such a version, and the edit read back is the
  other's when the version is. No assumption about read-backs is needed.
- `Own`: as long as no read-back has crossed another's write (`Uncrossed`), what a request has
  read back is its own edit. The invariant is `Traced`: `Own`, and `Traces` while `Uncrossed`.
- `Traces`: whoever made an edit that is in a row, or in a row some request may put back,
  has not taken it back. For a row in the database (`GroupTraces`, `ListenerTraces`) its
  maker still stands by it, and its own version is at most the row's. For a row to be put
  back (`GroupBacked`, `ListenerBacked`) the maker's version is older than the one the request
  has written, so that the maker's own restore finds another version and leaves
  the row alone; or the group of the listener is a created one that has been deleted, and the
  foreign key refuses the restore. `RejectedEditsVanishHolds` follows; by itself it says
  nothing of edits that are out of the rows and may come back.

**`ResidentialSessionsProofs`** (from `SessionsAssumption`). The inductive invariant
`SessionsInv` is the conjunction of

- `TypeOK`, `JobsFit` (which job is at which step) and `RowsFit` (which rows exist at it,
  and that a pass has its listed sessions still before it);
- `LeasesIssued`, `LeaseKept` and `LeasesCounted`: a row that may be put back has an issued
  lease, the one of the row it replaces, and leases are numbered without gaps, so that a new
  one is new. `LeaseRespected` needs them because a restore writes a lease;
- `GuardHolds`: what `checkSessionGuard` has found still holds until the row is written,
  although the nodes are cleared and a new one allocated in between;
- `SeenKnown`: a row of the version a consumer has read, or one that may be put back, has
  the node it has read. It gives `VersionDetectsMoves`;
- `NodesBacked`: the node of every row is there, and so are the one just allocated and that
  of every row that may be put back. It gives `AllocationsBacked`;
- `ServesSettled`: outside an unfinished request, the data plane serves the rows. It gives
  `ServedAsRecorded`.

For any number of windows the invariant is inductive only because a pass works from
its list and reads its policy once, as the code does. Were the policy chosen anew for each
window, renewing one could clear the row of another (`ClearMissing`), and releasing that one
next, and failing, would put the row back as it was listed, with a node that may be gone.

**`ConsoleProofs`** (from the assumptions of the four parts), about `ConsoleSpec`. Each
part has its own invariant, and a lemma says that a step of the console is a step of
the part or leaves it alone.

- `TerminalInv`: types; whatever is dialing or open is the current socket; a timer or
  an interval exists only in the states of the connection that own it. `OneSession` is not
  inductive without the last, since a timer that survived a disconnect would dial.
- `FilesInv` relates the newest load to the path: it loads the path, or it is behind.
- `SessionInv` adds `AnswersName` (an answer on its way names the session that its
  cookie will be) and `OneSignIn` (at most one chain of setup, login and status unless
  logins raced), which is what keeps two answers from leaving a token of one session
  beside the cookie of another.
- `PagesInv` adds `RowBounded` (version against changes) to the types.

**`ConsolePagesProofs`** (from the same assumptions), about `ConsoleSpec`: who answers for
a flag, a dialog and a list, through every handler.

- `OwnInv` gives `DialogsOwnAnswersHolds`. The handlers a dialog has sent are of its form
  (`OwnFits`) and keep it saving (`OwnSaves`), so there is one at most (`OneOwn`); what a
  modal dialog has sent is its own until the answer (`AnswersOwned`); the flags of a row and
  of a page are held by one handler at a time (`FlagsHeld`). The accounts page, whose one `busy`
  name lets two submits run, and the `LooseDialogs` are left out of the parts that the property
  does not claim of them.
- `RestInv` gives `RestIsTrueHolds`. A flag that is set is held by a handler that will clear it
  (`FlagsCleared`), a saving dialog by its own (`SavingEnds`); copies in flight are states the
  record has had (`CopiesOfRow`, `GoneForGood`); and a list that is behind is `excused`, or some
  handler will bring the newest copy (`ListCatchesUp`). At rest there is no handler left.
- `TwiceInv` is for the second copy: only pages that create have one, it equals the listed copy
  unless `excused`, and the answer to a create carries the record as it was born, so that it
  never replaces a newer copy unnoticed.
- `Follows` says what a step does to one handler (it moves on, or ends) and to the dialog (kept
  or closed); every action of the page is shown to follow it, and the invariants are proved
  from it. What depends on the pages themselves is in `ButtonFlags`, `OneDialog` and `OpsShow`,
  which go through all buttons.

**`NotesArchiveProofs`** (from `NotesAssumption`). `RunsKeepTexts` needs three facts beside the types.

- `RunsCarry`: which runs have a note, and what they are about to write is a file.
- `MergedSealed`: what is merged into the archive has a seal line. `RestoreArchive` brings it
  back, and a merge without a baseline may take the seal of a note away from `main`.
- `HeldAlike`: while nobody disturbs a note, the tree, the archive and all runs on it have one
  text of it, whatever the dates. `renameSync` overwrites, and two runs may have checked the
  archive before either moved: it is the same text that they move over each other.

`spoilt` is emptied at a merge only when no run is under way, because a run carries a text from before
the merge to after it; with a run under way the invariant would fail at the merge.

## 6. Only model-checked

Every invariant and every action property of the passing runs is stated by a theorem, and
so is the refinement `PublicationSpec`. What TLC alone checks is liveness (`KeepsRefreshing`,
`ReconnectEnds`, `ConsoleSettles`), since the prover handles neither ENABLED nor fairness, and the
findings, which are counterexamples. `Dataplane`, `ResidentialSessions`, `ProxyServices`,
`NodeInventory` and `NotesArchive` assume no fairness and state no liveness.

## 7. Not modelled

- A child Mihomo orphaned by SIGKILL of the control plane, which keeps the ports.
- What a configuration contains: the compiler, the member selection and the
  parsers.
- How long callers wait in the queue of `Manager.Apply`: the steps of an Apply each have a timeout,
  and nothing says that the mutex reaches every caller.
- Which source a subscription has: an update while the former source is being
  loaded is listed as a hazard.
- The aggregate rows of the shared inbound and their convergence.
- Node side effects inside `SubscriptionRefresh`; the batch limit of 100
  claims; provider expansion, which is part of what a source serves.
- Of residential channels: their creation, disabling and deletion, the shared pool of
  passthrough channels and its rotation, `ReleaseIdleDeclaredSessions` (it has no
  caller), the rate limiter, the node re-enabled by an administrator, database
  calls that fail for other reasons than a conflict. A heartbeat only moves the end of
  a lease, and time is an event here, so it changes nothing.
- Of the console: the pages that only read (overview, about, host monitor, ops, docker,
  observability), theme and widgets; the kind switch of the archives page; the fields
  of forms; sorting, filtering and expanding; what the shell prints. Liveness of
  the record pages: an answer that never comes leaves its flag set, and `fetch`
  has no timeout of its own there.
- Of the notes: Markdown, links between notes, translations, the board, hooks. What a reader
  sees of a file that another run is just writing: `writeFileSync` is one step for it, unless
  the writer is killed.
- The components marked `not_modelled`.

Hazards seen but covered by no property, besides those in `PROJECT.json`: an update of a
subscription's source while the former source is loading, whose nodes and conditional
headers then outlive it (`internal/subscription/refresh.go:165`, `:277`); a refresh whose
snapshot is committed and whose Apply fails (`:148`), which waits for another Apply; a
residential node enabled again by its next allocation (`internal/store/residential_sessions.go:40`);
`CheckDue` ending its batch at the first node without data plane (`internal/node/service.go:551`);
references added to a group while it is deleted (`internal/proxygroup/service.go:204`), which
compilation drops; Ensure moving a leased window (`internal/residential/client_session.go:92`);
a sweep that stops at the first session it cannot renew (`:427`).

## 8. Where the code falls short of what one would like

The properties of the passing runs name these cases instead of excluding them silently; where
a name is given, it is a variable or a set a reader can find.

- `drifted`: `UpdateProxyGroup` and `UpdateListener` read the row back after the UPDATE, outside a
  transaction (`internal/store/groups.go:84-124`, `listeners.go:101-149`). When that read fails
  the request is answered with an error, the edit stays, and it is served from the next Apply of
  somebody else on.
- `crossed`: when another request writes between the two, the first takes the other's version for its
  own. If its Apply then fails, its compensation (`internal/proxyservice/service.go:323`,
  `internal/listener/service.go:275`) finds that version and overwrites the other's edit. What
  `NoLostUpdate` still says is that it never overwrites an edit it has not read.

- `strayed`: a reconnect timer that fires unverified or under another tab leaves the page
  "reconnecting" with its connect button disabled (`terminal-page.tsx:209`).
- `behind`: removal and upload reload the directory of the click after a navigation
  (`file-panel.tsx:125-153`).
- `mixed`: two tabs share the cookie and not the CSRF token, and a second submit while the
  first login's status is on its way can do the same.
- `blind` (a gate value): when the status cannot be fetched the console is shown without
  a token; every write is then refused until a reload.
- Rules, routes, alert settings, accounts and archives are written without a version, so the last
  one to save wins; the edit form of a proxy service keeps the fields of its mount and sends the
  newest versions, against its own comment (`edit-proxy-service-form.tsx:74-76`).
- `LooseDialogs`: residential and account dialogs can be closed while saving; a late answer
  then closes a dialog opened since (`residential-page.tsx:467-518`).
- The one `busy` name of `cf-account-group.tsx` lets two submits run at once.
- `again`: a created record is put before the list without looking for it there
  (`subscriptions-page.tsx:235`, `artifacts-page.tsx:45`). A load that was in flight and arrives first
  leaves it listed twice, with the same key, until the next load.
- `excused`: an older list may replace a newer one, since loads have no sequence number; the
  quality a batch check has cleared stays cleared when the batch fails; `removeService` keeps
  its list when the group cannot be deleted.
- A `quoted` seal line: `archive-note` takes any line `Archived: <date>` for the seal line and adds
  none, and the gate refuses the archived note. The same when the status line stands so low
  that the seal line below it is not among the first six (`archive-note.ts:50`, `notes-lib.ts:448`).
- `spoilt`: a note cut short by a killed run (`archive-note.ts:129`) may be archived as it is by
  another run that had checked it; what somebody writes into a note between the read (`:48`) and the
  write is lost.
- Two runs with different dates write different bytes over an archived note: `TextsKept`
  keeps its text, but a hash merged in between no longer matches.
- The append-only comparison is skipped when `git show` of the baseline fails
  (`notes-lib.ts:372-373`): a merge may then change or drop what an earlier one sealed.
- `seal-archive --write` writes the manifest before it compares it with the baseline, and
  prints that nothing was sealed when the comparison fails.
- The contract `AGENTS.md` contains the exemption label, so changing it exempts a change.

## 9. Plan

Done so far, in this order: the publication of configurations and its proofs,
the inventory, the refreshes over it with theirs, the proxy services, the sessions of a
residential channel, the web console with its proofs, the decision notes with theirs, and the
proofs of the sessions, of the rejected edits and of the record pages. Next:

1. The sweep's liveness: with a fair `Maintain`, an expired window is renewed or
   removed, unless the session before it in the list fails every time.
2. Two disagreements to settle with a run each:
   `docs/RESIDENTIAL_INTEGRATION_STANDARD.md:42` has every operation on a window
   leased to another answered with 409, and `EnsureClientSessionByTokenWithOptions`
   never calls `checkSessionGuard`; `alloc_version` is called a monotonic counter
   (`internal/store/residential_client_sessions.go:32`), and a restored row takes
   it back.
3. `SubscriptionRefresh` with a source generation per row, to settle the two
   stale-source hazards.
4. `Alerts` (deduplication, retries of mails, acknowledgement against
   recovery) and `Authentication` (setup token used once, login window, TOTP
   replay, rate limits), one run each; `ConsoleSession` has the sessions only.
5. `SelectionAlgorithms`: the member pipeline, cron and traffic deltas as
   operators, checked against reference definitions over bounded inputs.
6. The convergence of the shared inbound, composed with `ProxyServices`.
7. The archives page with its kind switch; liveness of the record pages with a bounded
   `fetch`.
