------------------------- MODULE ResidentialSessions -------------------------
(***************************************************************************)
(* The sessions of one sticky residential channel.  A session is a window  *)
(* with a name and credentials of its own; the node behind it changes: it  *)
(* is allocated, rotated, given up for another route, renewed when it      *)
(* expires.  A request that changes a session writes its row and its node, *)
(* then publishes, and takes the row back when that fails.  All of them    *)
(* hold clientSessionMutex throughout, so there is one request at a time   *)
(* (variable op).  Four things do not take the mutex: reads of the pool,   *)
(* the edit of the channel (variable edit), the inventory that disables    *)
(* nodes, and the applies other requests cause.                            *)
(*                                                                         *)
(* Session s is the declared ordinal s.  Ensure may also create one above  *)
(* session_count.  Time is two events, a session expires and a lease       *)
(* lapses, so a heartbeat changes nothing here.  Module Dataplane has the  *)
(* inside of an Apply.                                                     *)
(***************************************************************************)
EXTENDS Naturals, FiniteSets

CONSTANTS Sessions,    \* ordinals
          Nodes,       \* fingerprints the provider may answer with
          Holders,     \* consumers that claim windows
          None,
          Watched,     \* bound: the windows consumers claim and read
          PoolSize,    \* concurrent sessions the provider allows
          MaxEvents,   \* bound: requests and expirations
          MaxLeases,   \* bound: leases issued to one holder
          MaxFaults    \* bound: faults

ASSUME SessionsAssumption ==
    /\ Sessions \subseteq Nat \ {0}
    /\ Watched \subseteq Sessions
    /\ None \notin Nodes
    /\ PoolSize \in Nat
    /\ MaxEvents \in Nat /\ MaxLeases \in Nat /\ MaxFaults \in Nat

VARIABLES
    rows,       \* residential_client_sessions: ordinal -> row
    nodes,      \* the channel's rows of nodes
    served,     \* rule the last successful Apply compiled for each session
    published,  \* that Apply had the rows the last request left
    count,      \* session_count
    eager,      \* preallocate
    upstream,   \* the provider has an enabled upstream group
    op,         \* the request that holds clientSessionMutex
    edit,       \* an UpdateChannel before it asks for the mutex
    issued,     \* leases issued
    lapsed,     \* leases that ran out
    seen,       \* what a consumer read of a window
    raced,      \* history: an edit cleared a row while a request ran
    events,     \* requests and expirations so far
    faults      \* faults so far

window == <<rows, nodes>>
plane == <<served, published>>
channel == <<count, eager>>
leases == <<issued, lapsed>>
bounds == <<events, faults>>
vars == <<window, plane, channel, upstream, op, edit, leases, seen, raced, bounds>>

Leases == Holders \X (1 .. MaxLeases)
Routes == {"residential", "direct", "upstream"}
Row == [node : Nodes \cup {None}, route : Routes, expired : BOOLEAN,
        version : Nat, lease : Leases \cup {None}]

Lazy == [node |-> None, route |-> "residential", expired |-> FALSE,
         version |-> 0, lease |-> None]

NoRows == [s \in {} |-> Lazy]

Idle == [pc |-> "idle", job |-> None,
         by |-> "other",   \* or a pass ("expire", "renew", "resize") or "guarded"
         s |-> None,
         prev |-> Lazy,    \* the row to be restored
         node |-> None,    \* the node allocated
         to |-> None,      \* the route asked for
         lease |-> None,   \* history: the lease presented ...
         saw |-> "any",    \* ... and the node read with the version presented
         undo |-> FALSE,   \* the request failed and is taken back
         repaired |-> FALSE,  \* rows were cleared and nothing was published
         rest |-> NoRows,  \* a pass: sessions listed and not handled yet,
         todo |-> {},      \* ordinals to be created
         first |-> "write"]   \* and whether they get a node at once

Passes == {"expire", "renew", "resize"}

NoEdit == [pc |-> "idle", known |-> {}, doomed |-> {}]

Steps == {"idle", "next", "clear", "allocate", "write", "delete", "route",
          "publish", "commit", "restore", "discard",
          "release", "close"}

\* Rows of some sessions.
IsTable(f) == DOMAIN f \subseteq Sessions /\ f \in [DOMAIN f -> Row]

IsOp(o) ==
    /\ IsTable(o.rest)
    /\ o \in
      [pc : Steps,
       job : {"replace", "remove", "create", "route", "released", "repair", None},
       by : Passes \cup {"guarded", "other"},
       s : Sessions \cup {None}, prev : Row, node : Nodes \cup {None},
       to : Routes \cup {None}, lease : Leases \cup {None},
       saw : Nodes \cup {None, "any"}, undo : BOOLEAN, repaired : BOOLEAN,
       rest : {o.rest}, todo : SUBSET Sessions, first : {"allocate", "write"}]

TypeOK ==
    /\ IsTable(rows)
    /\ nodes \in [Nodes -> {"absent", "usable", "lost"}]
    /\ served \in [Sessions -> Nodes \cup {"group", "direct", "upstream"}]
    /\ published \in BOOLEAN /\ upstream \in BOOLEAN /\ raced \in BOOLEAN
    /\ count \in {0} \cup Sessions /\ eager \in BOOLEAN
    /\ IsOp(op)
    /\ op.pc \notin {"idle", "next"} /\ op.job # "repair" => op.s \in Sessions
    /\ edit \in [pc : {"idle", "list", "clear", "sync"},
                 known : SUBSET Nodes, doomed : SUBSET Sessions]
    /\ seen \in [s : Sessions, version : Nat, node : Nodes \cup {None},
                 sound : BOOLEAN] \cup {None}
    /\ issued \subseteq Leases /\ lapsed \subseteq issued
    /\ \A s \in DOMAIN rows : rows[s].lease \in issued \cup {None}
    /\ events \in 0 .. MaxEvents /\ faults \in 0 .. MaxFaults

\* A channel some of whose sessions were allocated when it was created.
Init ==
    /\ count \in Sessions
    /\ rows \in [{s \in Sessions : s <= count} ->
                    {[Lazy EXCEPT !.node = n] : n \in Nodes \cup {None}}]
    /\ nodes = [n \in Nodes |-> IF \E s \in DOMAIN rows : rows[s].node = n
                                THEN "usable" ELSE "absent"]
    /\ served = [s \in Sessions |->
                     IF s \in DOMAIN rows /\ rows[s].node # None
                     THEN rows[s].node ELSE "group"]
    /\ published = TRUE
    /\ eager = FALSE
    /\ upstream = TRUE
    /\ op = Idle
    /\ edit = NoEdit
    /\ issued = {} /\ lapsed = {}
    /\ seen = None
    /\ raced = FALSE
    /\ events = 0 /\ faults = 0

-----------------------------------------------------------------------------
(* Rows, nodes and leases.                                                 *)

Put(s, row) == [i \in DOMAIN rows \cup {s} |-> IF i = s THEN row ELSE rows[i]]
Without(s, table) == [i \in DOMAIN table \ {s} |-> table[i]]
Drop(s) == Without(s, rows)

\* ListResidentialSessionNodes
Usable == {n \in Nodes : nodes[n] = "usable"}

Residential(s) == rows[s].route = "residential"
Expired(s) == Residential(s) /\ rows[s].expired
Allocated(s) == Residential(s) /\ rows[s].node # None
LeaseActive(s) == rows[s].lease # None /\ rows[s].lease \notin lapsed

\* Mutant: the route goes with the node.
ClearedRouteless(row) == [row EXCEPT !.node = None, !.route = None]

\* ClearResidentialClientSessionAllocation
Cleared(row) == [row EXCEPT !.node = None, !.expired = FALSE,
                            !.version = @ + 1, !.lease = None]

\* Sessions whose node is not among those known.
Dangling(known) == {s \in DOMAIN rows : Allocated(s) /\ rows[s].node \notin known}

\* clearMissingClientSessionAllocations, inside the mutex.
Repaired == [s \in DOMAIN rows |->
                IF s \in Dangling(Usable) THEN Cleared(rows[s]) ELSE rows[s]]

\* Mutant: the version stays.
MovedQuietly(row, n) == [row EXCEPT !.node = n, !.route = "residential",
                                    !.expired = FALSE]

\* UpdateResidentialClientSessionAllocation
Moved(row, n) == [row EXCEPT !.node = n, !.route = "residential",
                             !.expired = FALSE, !.version = @ + 1]

\* UpdateResidentialClientSessionRoute
Routed(row, to) == [row EXCEPT !.node = None, !.route = to,
                               !.expired = FALSE, !.version = @ + 1]

\* Mutant: a node other sessions use is deleted.
DeleteUsedNode(n) ==
    nodes' = [m \in Nodes |-> IF m = n THEN "absent" ELSE nodes[m]]

\* DeleteResidentialSessionNode
DeleteNode(n) ==
    nodes' = [m \in Nodes |->
                 IF m = n /\ \A s \in DOMAIN rows : rows[s].node # n
                 THEN "absent" ELSE nodes[m]]

\* A snapshot of a session that is deleted says nothing of the next one.
Outdate(s) ==
    seen' = IF seen # None /\ seen.s = s THEN [seen EXCEPT !.sound = FALSE] ELSE seen

Event == events < MaxEvents /\ events' = events + 1

Fault == faults < MaxFaults /\ faults' = faults + 1

-----------------------------------------------------------------------------
(* The data plane.                                                         *)

\* The compiler fails when a session's upstream group is gone.
Compilable == upstream \/ \A s \in DOMAIN rows : rows[s].route # "upstream"

\* A session without a usable node falls through to the channel's group.
Compiled ==
    [s \in Sessions |->
        IF s \notin DOMAIN rows THEN "group"
        ELSE IF ~ Residential(s) THEN rows[s].route
        ELSE IF rows[s].node \in Usable THEN rows[s].node ELSE "group"]

At(pc) == op.pc = pc
Go(pc) == op' = [op EXCEPT !.pc = pc]

\* The guard has done its work once the row is written.
Written(pc) ==
    op' = [op EXCEPT !.pc = pc, !.to = None, !.lease = None, !.saw = "any",
                     !.by = IF @ = "guarded" THEN "other" ELSE @]

\* A sweep or a resize goes on after a success and stops at the first error.
Finish(ok) ==
    op' = IF ok /\ op.by \in Passes
          THEN [Idle EXCEPT !.pc = "next", !.by = op.by, !.repaired = op.repaired,
                            !.rest = op.rest, !.todo = op.todo, !.first = op.first]
          ELSE Idle

\* What follows a publication.
Succeed ==
    IF op.undo THEN Finish(FALSE)
    ELSE IF op.job \in {"replace", "remove"} THEN Go("release")
    ELSE Finish(TRUE)

\* The publication that ends a route or a repair has no compensation.
Undo ==
    IF op.undo \/ op.job \in {"repair", "released"} THEN Finish(FALSE)
    ELSE op' = [op EXCEPT !.pc = "restore", !.undo = TRUE]

\* republishClientSessionGroup: groups.Update compares the version of the
\* group it read, which an edit in between has changed ...
GroupConflict ==
    /\ At("publish")
    /\ Fault
    /\ published' = FALSE
    /\ Undo
    /\ UNCHANGED <<window, served>>

\* ... and applies; then the service applies again.
Apply ==
    /\ op.pc \in {"publish", "commit"}
    /\ Compilable
    /\ served' = Compiled
    /\ published' = TRUE
    /\ IF At("publish") THEN Succeed
       ELSE IF op.undo THEN Finish(FALSE) ELSE Go("close")
    /\ UNCHANGED <<window, faults>>

\* The first Apply fails, or the second one after the first served the rows.
ApplyFails ==
    /\ op.pc \in {"publish", "commit"}
    /\ \/ ~ Compilable /\ UNCHANGED <<served, faults>>
       \/ Fault /\ UNCHANGED served
       \/ At("publish") /\ Compilable /\ Fault /\ served' = Compiled
    /\ published' = FALSE
    /\ Undo
    /\ UNCHANGED window

-----------------------------------------------------------------------------
(* The jobs requests are made of.                                          *)

Begin(job, by, s) == [Idle EXCEPT !.job = job, !.by = by, !.s = s]

\* replaceClientSessionAllocation repairs the channel and reads the row again.
ClearMissing ==
    /\ At("clear")
    /\ rows' = Repaired
    /\ op' = [op EXCEPT !.pc = "allocate", !.prev = rows'[op.s]]
    /\ UNCHANGED <<nodes, plane, faults, seen>>

\* allocateClientSessionNode: the provider may answer with a node in use.
Allocate ==
    /\ At("allocate")
    /\ \E n \in Nodes :
           /\ nodes' = [nodes EXCEPT ![n] = "usable"]
           /\ op' = [op EXCEPT !.pc = "write", !.node = n]
    /\ UNCHANGED <<rows, plane, faults, seen>>

ProviderFails ==
    /\ At("allocate")
    /\ Fault
    /\ Finish(FALSE)
    /\ UNCHANGED <<window, plane, seen>>

Write ==
    /\ At("write")
    /\ rows' = IF op.job = "replace" THEN Put(op.s, Moved(rows[op.s], op.node))
               ELSE Put(op.s, [Lazy EXCEPT !.node = op.node])
    /\ Written("publish")
    /\ UNCHANGED <<nodes, plane, faults, seen>>

Delete ==
    /\ At("delete")
    /\ rows' = Drop(op.s)
    /\ Outdate(op.s)
    /\ Go("publish")
    /\ UNCHANGED <<nodes, plane, faults>>

\* Mutant: nothing is applied.
RouteUnapplied ==
    /\ At("route")
    /\ rows' = Put(op.s, Routed(rows[op.s], op.to))
    /\ Written("close")
    /\ UNCHANGED <<nodes, plane, faults, seen>>

Route ==
    /\ At("route")
    /\ rows' = Put(op.s, Routed(rows[op.s], op.to))
    /\ Written("commit")
    /\ UNCHANGED <<nodes, plane, faults, seen>>

\* The row as it was before, lease and version included.
Restore ==
    /\ At("restore")
    /\ IF op.job = "create" THEN rows' = Drop(op.s) /\ Outdate(op.s)
       ELSE rows' = Put(op.s, op.prev) /\ UNCHANGED seen
    /\ Go(CASE op.job \in {"replace", "create"} -> "discard"
            [] op.job = "remove" -> "publish"
            [] op.job = "route" -> "commit")
    /\ UNCHANGED <<nodes, plane, faults>>

Discard ==
    /\ At("discard")
    /\ DeleteNode(op.node)
    /\ Go("publish")
    /\ UNCHANGED <<rows, plane, faults, seen>>

\* The node the session had.  A route publishes the smaller group.
Release ==
    /\ At("release")
    /\ IF op.prev.node # op.node THEN DeleteNode(op.prev.node) ELSE UNCHANGED nodes
    /\ IF op.job = "route" THEN op' = [op EXCEPT !.pc = "publish", !.job = "released"]
       ELSE op' = [op EXCEPT !.pc = "close", !.prev = Lazy]
    /\ UNCHANGED <<rows, plane, faults, seen>>

\* closeChannelClientConnections
Close ==
    /\ At("close")
    /\ IF op.job = "route" /\ op.prev.node # None THEN Go("release") ELSE Finish(TRUE)
    /\ UNCHANGED <<window, plane, faults, seen>>

CloseFails ==
    /\ At("close")
    /\ Fault
    /\ Finish(FALSE)
    /\ UNCHANGED <<window, plane, seen>>

\* A pass has the policy of the provider, or the size of the channel, and the
\* sessions as they were when it started.
RemoveNext(s) ==
    op' = [op EXCEPT !.job = "remove", !.pc = "delete", !.s = s,
                     !.prev = op.rest[s], !.rest = Without(s, op.rest)]

NextExpired ==
    /\ At("next") /\ op.by \in {"expire", "renew"}
    /\ \E s \in DOMAIN op.rest :
           /\ op.rest[s].expired \/ rows[s].expired
           /\ IF op.by = "expire" THEN RemoveNext(s)
              ELSE op' = [op EXCEPT !.job = "replace", !.pc = "clear", !.s = s,
                                    !.rest = Without(s, op.rest)]
    /\ UNCHANGED <<window, plane, faults, seen>>

\* A resize first shrinks.
Least(s, set) == s \in set /\ \A i \in set : s <= i

NextOrdinal ==
    /\ At("next") /\ op.by = "resize"
    /\ IF DOMAIN op.rest # {} THEN \E s \in DOMAIN op.rest : RemoveNext(s)
       ELSE IF op.todo # {} THEN \E s \in op.todo :
           /\ Least(s, op.todo)
           /\ op' = [op EXCEPT !.job = "create", !.pc = op.first, !.s = s,
                               !.todo = @ \ {s}]
       ELSE op' = IF op.repaired THEN [Begin("repair", "other", None) EXCEPT !.pc = "publish"]
                  ELSE Idle
    /\ UNCHANGED <<window, plane, faults, seen>>

\* The batch of a sweep is full, nothing has expired, or the context has ended.
PassEnds ==
    /\ At("next")
    /\ op.by = "resize" => Fault
    /\ op.by # "resize" => UNCHANGED faults
    /\ op' = Idle
    /\ UNCHANGED <<window, plane, seen>>

\* What goes on inside the mutex.
Work ==
    /\ \/ /\ GroupConflict \/ Apply \/ ApplyFails
          /\ UNCHANGED seen
       \/ ClearMissing \/ Allocate \/ ProviderFails \/ Write \/ Delete \/ Route
       \/ Restore \/ Discard \/ Release \/ Close \/ CloseFails
       \/ NextExpired \/ NextOrdinal \/ PassEnds
    /\ UNCHANGED <<channel, upstream, edit, leases, raced, events>>

-----------------------------------------------------------------------------
(* Requests.  Each one waits for the mutex.                                *)

Free == op = Idle

Start(next) ==
    /\ Event
    /\ op' = next
    /\ UNCHANGED <<window, plane, channel, upstream, edit, leases, seen, raced, faults>>

Replace(by, s) == [Begin("replace", by, s) EXCEPT !.pc = "clear"]
Remove(by, s) == [Begin("remove", by, s) EXCEPT !.pc = "delete", !.prev = rows[s]]

\* EnsureClientSessionByToken.  A session that expired is removed or renewed,
\* as the policy says; one that needs nothing is only viewed.
Ensure(s) ==
    /\ Free
    /\ IF s \in DOMAIN rows
       THEN \/ Expired(s) /\ Start(Remove("other", s))
            \/ (Expired(s) \/ rows[s].node = None) /\ Start(Replace("other", s))
       ELSE /\ Cardinality({i \in DOMAIN rows : Residential(i)}) < PoolSize
            /\ Start([Begin("create", "other", s) EXCEPT !.pc = "allocate"])

\* checkSessionGuard.  The control API addresses declared ordinals, the
\* older API any session, with no lease and no version.
Guard(s, lease, checked) ==
    /\ lease # None \/ checked => s <= count
    /\ LeaseActive(s) => lease = rows[s].lease
    /\ checked => seen # None /\ seen.s = s /\ seen.version = rows[s].version

Guarded(job, lease, checked) ==
    [job EXCEPT !.lease = lease,
                !.saw = IF checked /\ seen.sound THEN seen.node ELSE "any"]

\* rotateClientSessionByToken
Rotate(s, lease, checked) ==
    /\ Free
    /\ s \in DOMAIN rows /\ Residential(s)
    /\ Guard(s, lease, checked)
    /\ Start(Guarded(Replace("guarded", s), lease, checked))

\* switchClientSessionRouteByToken
Switch(s, to, lease, checked) ==
    /\ Free
    /\ s \in DOMAIN rows /\ rows[s].route # to
    /\ Guard(s, lease, checked)
    /\ to = "upstream" => upstream
    /\ Start(Guarded(IF to = "residential" THEN Replace("guarded", s)
                     ELSE [Begin("route", "guarded", s) EXCEPT
                               !.pc = "route", !.to = to, !.prev = rows[s]],
                     lease, checked))

\* DeleteClientSessionByToken
DeleteSession(s) ==
    /\ Free
    /\ s \in DOMAIN rows
    /\ Start(Remove("other", s))

\* MaintainExpiredClientSessions, every poll interval.
Maintain ==
    /\ Free
    /\ \E s \in DOMAIN rows : Expired(s)
    /\ \E policy \in {"expire", "renew"} :
           op' = [Idle EXCEPT !.pc = "next", !.by = policy,
                              !.rest = [s \in {i \in DOMAIN rows : Allocated(i)} |-> rows[s]]]
    /\ UNCHANGED <<window, plane, channel, upstream, edit, leases, seen, raced, bounds>>

\* Mutant: a claim does not wait for the mutex.
ClaimUnlocked(s, h) ==
    /\ s \in DOMAIN rows \cap Watched /\ s <= count
    /\ LeaseActive(s) => rows[s].lease[1] = h
    /\ \E n \in 1 .. MaxLeases :
           /\ n = Cardinality({l \in issued : l[1] = h}) + 1
           /\ rows' = Put(s, [rows[s] EXCEPT !.lease = <<h, n>>])
           /\ issued' = issued \cup {<<h, n>>}
    /\ UNCHANGED <<nodes, plane, channel, upstream, op, edit, lapsed, seen, raced, bounds>>

\* ClaimDeclaredNodeByControlToken: the holder may claim again.
Claim(s, h) == Free /\ ClaimUnlocked(s, h)

\* ReleaseDeclaredNodeByControlToken: another lease is left alone.
ReleaseLease(s, lease) ==
    /\ Free
    /\ s \in DOMAIN rows /\ s <= count
    /\ LeaseActive(s) /\ rows[s].lease = lease
    /\ rows' = Put(s, [rows[s] EXCEPT !.lease = None])
    /\ UNCHANGED <<nodes, plane, channel, upstream, op, edit, leases, seen, raced, bounds>>

\* ControlNodesByToken, without the mutex.  A snapshot is sound when no
\* request was changing the session.  Bound: one snapshot.
Read(s) ==
    /\ seen = None
    /\ s \in DOMAIN rows \cap Watched /\ s <= count
    /\ seen' = [s |-> s, version |-> rows[s].version, node |-> rows[s].node,
                sound |-> op.s # s]
    /\ UNCHANGED <<window, plane, channel, upstream, op, edit, leases, raced, bounds>>

-----------------------------------------------------------------------------
(* UpdateChannel.  It repairs the channel before it has the mutex.         *)

Edit(next) ==
    /\ edit' = next
    /\ UNCHANGED <<nodes, plane, upstream, leases, seen, faults>>

ListNodes ==
    /\ edit.pc = "idle"
    /\ Event
    /\ Edit([NoEdit EXCEPT !.pc = "list", !.known = Usable])
    /\ UNCHANGED <<rows, count, eager, op, raced>>

ListSessions ==
    /\ edit.pc = "list"
    /\ Edit([NoEdit EXCEPT !.pc = "clear", !.doomed = Dangling(edit.known)])
    /\ UNCHANGED <<rows, count, eager, op, raced, events>>

\* One statement for each session found, which compares no version.
ClearOne ==
    /\ edit.pc = "clear"
    /\ \E s \in edit.doomed :
           IF s \in DOMAIN rows
           THEN /\ rows' = Put(s, Cleared(rows[s]))
                /\ raced' = (raced \/ op # Idle)
                /\ Edit([edit EXCEPT !.doomed = @ \ {s}])
           ELSE Edit(NoEdit) /\ UNCHANGED <<rows, raced>>
    /\ UNCHANGED <<count, eager, op, events>>

Save ==
    /\ edit.pc = "clear" /\ edit.doomed = {}
    /\ count' \in {0} \cup Sessions
    /\ eager' \in BOOLEAN
    /\ Edit([NoEdit EXCEPT !.pc = IF count' > 0 THEN "sync" ELSE "idle"])
    /\ UNCHANGED <<rows, op, raced, events>>

\* SyncDeclaredSessions
Sync ==
    /\ edit.pc = "sync" /\ Free
    /\ rows' = Repaired
    /\ op' = [Idle EXCEPT !.pc = "next", !.by = "resize", !.repaired = rows' # rows,
                          !.rest = [s \in {i \in DOMAIN rows : i > count} |-> rows'[s]],
                          !.todo = {s \in Sessions : s <= count /\ s \notin DOMAIN rows},
                          !.first = IF eager THEN "allocate" ELSE "write"]
    /\ Edit(NoEdit)
    /\ UNCHANGED <<count, eager, raced, events>>

-----------------------------------------------------------------------------
(* Time, the inventory, the provider, other requests, crashes.             *)

Expire(s) ==
    /\ s \in DOMAIN rows /\ Allocated(s) /\ ~ rows[s].expired
    /\ Event
    /\ rows' = [rows EXCEPT ![s].expired = TRUE]
    /\ UNCHANGED <<nodes, plane, channel, upstream, op, edit, leases, seen, raced, faults>>

Lapse(lease) ==
    /\ \E s \in DOMAIN rows : rows[s].lease = lease
    /\ lapsed' = lapsed \cup {lease}
    /\ UNCHANGED <<window, plane, channel, upstream, op, edit, issued, seen, raced, bounds>>

\* A node is disabled or retired: the row stays.
Lose(n) ==
    /\ nodes[n] = "usable"
    /\ Fault
    /\ nodes' = [nodes EXCEPT ![n] = "lost"]
    /\ UNCHANGED <<rows, plane, channel, upstream, op, edit, leases, seen, raced, events>>

\* UpdateProvider applies nothing and looks at no session.
SetUpstream ==
    /\ \/ upstream /\ Fault
       \/ ~ upstream /\ UNCHANGED faults
    /\ upstream' = ~ upstream
    /\ UNCHANGED <<window, plane, channel, op, edit, leases, seen, raced, events>>

\* Another request applies, whatever the rows are at this moment.
ApplyElsewhere ==
    /\ Event
    /\ Compilable
    /\ served' = Compiled
    /\ published' = (published \/ op = Idle)
    /\ UNCHANGED <<window, channel, upstream, op, edit, leases, seen, raced, faults>>

\* The program ends anywhere; when it starts it applies.
Crash ==
    /\ Fault
    /\ op' = Idle /\ edit' = NoEdit
    /\ IF Compilable THEN served' = Compiled /\ published' = TRUE
       ELSE published' = FALSE /\ UNCHANGED served
    /\ UNCHANGED <<window, channel, upstream, leases, seen, raced, events>>

Next ==
    \/ Work
    \/ \E s \in Sessions :
           \/ Ensure(s) \/ DeleteSession(s) \/ Read(s) \/ Expire(s)
           \/ \E lease \in issued \cup {None}, checked \in BOOLEAN :
                  \/ Rotate(s, lease, checked)
                  \/ \E to \in Routes : Switch(s, to, lease, checked)
           \/ \E h \in Holders : Claim(s, h)
           \/ \E lease \in issued : ReleaseLease(s, lease)
    \/ Maintain
    \/ ListNodes \/ ListSessions \/ ClearOne \/ Save \/ Sync
    \/ \E lease \in issued : Lapse(lease)
    \/ \E n \in Nodes : Lose(n)
    \/ SetUpstream \/ ApplyElsewhere \/ Crash

Spec == Init /\ [][Next]_vars

-----------------------------------------------------------------------------
(* Properties.                                                             *)

\* A session never points at a node that is gone: a node is deleted only
\* once no session uses it, and a request that fails puts back a node that
\* is still there (client_allocation.go:162-199).  A row recreated from a
\* list older than a concurrent repair is left out.
AllocationsBacked ==
    raced \/ \A s \in DOMAIN rows :
                 rows[s].node # None => nodes[rows[s].node] # "absent"

\* Between requests, and unless the last publication failed, every session
\* with a node or a route of its own is served what its row says, also after
\* requests that failed and were taken back.
ServedAsRecorded ==
    op = Idle /\ published =>
        \A s \in Sessions :
            IF s \notin DOMAIN rows THEN served[s] = "group"
            ELSE IF ~ Residential(s) THEN served[s] = rows[s].route
            ELSE rows[s].node \in Usable => served[s] = rows[s].node

Moves == (At("write") /\ op.job = "replace") \/ At("route")

\* What checkSessionGuard found is still so when the request writes: the
\* window is free, or leased to who asked (lease.go:274-306), and its lease
\* is replaced only by one issued at that moment, never by an older one that
\* a restored row brings back.
LeaseRespected ==
    [][ /\ Moves /\ op.by = "guarded" /\ op' # op /\ op'.pc # "idle" =>
               (LeaseActive(op.s) => rows[op.s].lease = op.lease)
        /\ \A s \in DOMAIN rows \cap DOMAIN rows' :
               \/ rows'[s].lease \in {rows[s].lease, None}
               \/ rows'[s].lease \notin issued
               \/ raced ]_vars

\* A request with a version that was accepted replaces the node the consumer
\* had read, or none, if it read the window between two requests
\* (residential_client_sessions.go:32-36).
VersionDetectsMoves ==
    [][Moves /\ op' # op /\ op'.pc # "idle" /\ op.saw # "any"
          => rows[op.s].node \in {op.saw, None}]_vars

\* "clears every sticky channel's session references to pool slots that no
\* longer resolve to a node" (client_allocation.go:143-144): an edit takes no
\* usable node from a session.
RepairSparesUsable ==
    [][\A s \in DOMAIN rows \cap DOMAIN rows' :
          edit.pc = "clear" /\ edit' # edit /\ Allocated(s) /\ rows'[s].node = None
              => rows[s].node \notin Usable]_vars
=============================================================================
