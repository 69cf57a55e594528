--------------------------- MODULE NodeInventory ---------------------------
(***************************************************************************)
(* The node inventory: the tables subscriptions, subscription_snapshots,   *)
(* subscription_nodes and nodes, and every transaction of internal/store   *)
(* that changes a snapshot's status or a node's lifecycle_state.  The      *)
(* store has one connection, so a transaction is one step; what interleaves*)
(* is which service runs the next one: refreshes commit snapshots,         *)
(* administrators delete subscriptions and disable nodes, residential      *)
(* sessions come and go, and a quality check that read its node before all *)
(* that records its result afterwards.                                     *)
(*                                                                         *)
(* A node is its fingerprint.  A content is the set of nodes it parses to; *)
(* its hash is its identity, so a subscription has one snapshot row per    *)
(* content (UNIQUE subscription_id, content_hash).                         *)
(***************************************************************************)
EXTENDS Naturals

CONSTANTS Subs,         \* subscription ids; an id is never used twice
          Nodes,        \* fingerprints
          Residential,  \* those of residential sessions, never in a snapshot
          Contents,     \* what sources can serve, as sets of nodes
          None,         \* no snapshot
          MaxChecks     \* bound: quality checks of one node in flight

ASSUME InventoryAssumption ==
    /\ Residential \subseteq Nodes
    /\ Contents \subseteq SUBSET (Nodes \ Residential) \ {{}}
    /\ None \notin Contents
    /\ MaxChecks \in Nat

VARIABLES
    row,        \* subscriptions: "new" (no row yet), "live", "deleted"
    last,       \* subscriptions.last_success_snapshot_id
    snapshot,   \* subscription_snapshots.status, "none" where there is no row
    lifecycle,  \* nodes.lifecycle_state, "absent" where there is no row
    failures,   \* nodes.consecutive_probe_failures, up to Quarantine
    checks      \* checkPrepared calls between GetNodeConfig and the result

inventory == <<row, last, snapshot, lifecycle, failures, checks>>
nodes == <<lifecycle, failures, checks>>

Usable == {"candidate", "healthy", "degraded", "quarantined"}

\* RecordNodeQualityResult compares with 3; larger counts behave alike.
Quarantine == 3

InventoryTypeOK ==
    /\ row \in [Subs -> {"new", "live", "deleted"}]
    /\ last \in [Subs -> Contents \cup {None}]
    /\ snapshot \in [Subs -> [Contents -> {"none", "active", "retired"}]]
    /\ lifecycle \in [Nodes -> Usable \cup {"absent", "disabled", "retired"}]
    /\ failures \in [Nodes -> 0..Quarantine]
    /\ checks \in [Nodes -> 0..MaxChecks]

InventoryInit ==
    /\ row = [s \in Subs |-> "new"]
    /\ last = [s \in Subs |-> None]
    /\ snapshot = [s \in Subs |-> [c \in Contents |-> "none"]]
    /\ lifecycle = [n \in Nodes |-> "absent"]
    /\ failures = [n \in Nodes |-> 0]
    /\ checks = [n \in Nodes |-> 0]

\* Nodes linked to an active snapshot.
Listed(rows) ==
    UNION {c \in Contents : \E s \in Subs : rows[s][c] = "active"}

-----------------------------------------------------------------------------
(* Snapshots.                                                              *)

\* Mutant: a retired node is left retired.
StoredRetired(c) ==
    [n \in Nodes |-> IF n \in c /\ lifecycle[n] = "absent"
                     THEN "candidate" ELSE lifecycle[n]]

\* upsertSnapshotNode, for every node of the content.
Stored(c) ==
    [n \in Nodes |-> IF n \in c /\ lifecycle[n] \in {"absent", "retired"}
                     THEN "candidate" ELSE lifecycle[n]]

\* The statement that ends all three transactions.  It has no condition on
\* nodes.origin.
RetireOrphans(states, rows) ==
    [n \in Nodes |-> IF states[n] \in Usable /\ n \notin Listed(rows)
                     THEN "retired" ELSE states[n]]

\* Mutant: the former snapshot stays active.
SwitchKeepingActive(s, c) ==
    /\ row[s] = "live"
    /\ snapshot' = [snapshot EXCEPT ![s][c] = "active"]
    /\ lifecycle' = RetireOrphans(Stored(c), snapshot')
    /\ last' = [last EXCEPT ![s] = c]
    /\ UNCHANGED <<row, failures, checks>>

\* The statements CommitParsedSubscriptionSnapshot and
\* ActivateParsedSubscriptionSnapshot share.
Switch(s, c) ==
    /\ row[s] = "live"
    /\ snapshot' = [snapshot EXCEPT ![s] =
           [d \in Contents |-> IF d = c THEN "active"
                               ELSE IF @[d] = "active" THEN "retired" ELSE @[d]]]
    /\ lifecycle' = RetireOrphans(Stored(c), snapshot')
    /\ last' = [last EXCEPT ![s] = c]
    /\ UNCHANGED <<row, failures, checks>>

CommitSnapshot(s, c) == snapshot[s][c] = "none" /\ Switch(s, c)

ActivateSnapshot(s, c) == snapshot[s][c] # "none" /\ Switch(s, c)

CreateSubscription(s) ==
    /\ row[s] = "new"
    /\ row' = [row EXCEPT ![s] = "live"]
    /\ UNCHANGED <<last, snapshot, nodes>>

\* Snapshots and links go with the row.
DeleteSubscription(s) ==
    /\ row[s] = "live"
    /\ row' = [row EXCEPT ![s] = "deleted"]
    /\ last' = [last EXCEPT ![s] = None]
    /\ snapshot' = [snapshot EXCEPT ![s] = [c \in Contents |-> "none"]]
    /\ lifecycle' = RetireOrphans(lifecycle, snapshot')
    /\ UNCHANGED <<failures, checks>>

-----------------------------------------------------------------------------
(* Nodes.                                                                  *)

SetNodeLifecycleState(n, state) ==
    /\ lifecycle[n] \notin {"absent", "retired"}
    /\ lifecycle' = [lifecycle EXCEPT ![n] = state]
    /\ UNCHANGED <<row, last, snapshot, failures, checks>>

Disable(n) == SetNodeLifecycleState(n, "disabled")

\* Mutant: a state the nodes table does not know.
EnableAsEnabled(n) == SetNodeLifecycleState(n, "enabled")

\* Also accepted for a node that is not disabled.
Enable(n) == SetNodeLifecycleState(n, "candidate")

\* checkPrepared reads the node and sends the probe, outside any transaction.
StartCheck(n) ==
    /\ lifecycle[n] \in Usable
    /\ checks[n] < MaxChecks
    /\ checks' = [checks EXCEPT ![n] = @ + 1]
    /\ UNCHANGED <<row, last, snapshot, lifecycle, failures>>

EndCheck(n) ==
    /\ checks[n] > 0
    /\ checks' = [checks EXCEPT ![n] = @ - 1]
    /\ UNCHANGED <<row, last, snapshot>>

\* Mutant: a result is recorded whatever became of the node.
RecordAny(n, states) ==
    lifecycle' \in {[lifecycle EXCEPT ![n] = state] : state \in states}

\* The CASE on lifecycle_state in both UPDATEs of RecordNodeQualityResult.
Record(n, states) ==
    IF lifecycle[n] = "disabled"
    THEN UNCHANGED lifecycle
    ELSE lifecycle' \in {[lifecycle EXCEPT ![n] = state] : state \in states}

\* Mutant: the failures before a success still count.
CheckSucceedsUncounted(n) ==
    /\ EndCheck(n)
    /\ lifecycle[n] \notin {"absent", "retired"}
    /\ Record(n, {"healthy", "degraded"})
    /\ UNCHANGED failures

\* Mutant: the guard on retired nodes is missing.
CheckRevives(n) ==
    /\ EndCheck(n)
    /\ lifecycle[n] # "absent"
    /\ lifecycle' = [lifecycle EXCEPT ![n] = "healthy"]
    /\ UNCHANGED failures

\* Healthy, or degraded above 1500 ms.
CheckSucceeds(n) ==
    /\ EndCheck(n)
    /\ lifecycle[n] \notin {"absent", "retired"}
    /\ Record(n, {"healthy", "degraded"})
    /\ failures' = [failures EXCEPT ![n] = 0]

CheckFails(n) ==
    /\ EndCheck(n)
    /\ lifecycle[n] \notin {"absent", "retired"}
    /\ failures' = [failures EXCEPT ![n] = IF @ < Quarantine THEN @ + 1 ELSE @]
    /\ Record(n, IF failures'[n] >= Quarantine THEN {"quarantined"} ELSE {"degraded"})

\* The data plane is down, or the node was retired meanwhile (requireOneRow).
CheckDiscarded(n) ==
    /\ EndCheck(n)
    /\ UNCHANGED <<lifecycle, failures>>

\* A restart of the control plane: the checks in flight are gone.
DropChecks ==
    /\ checks' = [n \in Nodes |-> 0]
    /\ UNCHANGED <<row, last, snapshot, lifecycle, failures>>

\* UpsertResidentialSessionNode, for a client session that gets an address.
AllocateSession(n) ==
    /\ n \in Residential
    /\ lifecycle' = [lifecycle EXCEPT ![n] = "candidate"]
    /\ UNCHANGED <<row, last, snapshot, failures, checks>>

\* DeleteResidentialSessionNode.  Checks in flight find no row any more, also
\* when the same fingerprint is inserted again under a new id.
ReleaseSession(n) ==
    /\ n \in Residential
    /\ lifecycle[n] # "absent"
    /\ lifecycle' = [lifecycle EXCEPT ![n] = "absent"]
    /\ failures' = [failures EXCEPT ![n] = 0]
    /\ checks' = [checks EXCEPT ![n] = 0]
    /\ UNCHANGED <<row, last, snapshot>>

-----------------------------------------------------------------------------
SubscriptionStep ==
    \E s \in Subs :
        \/ CreateSubscription(s) \/ DeleteSubscription(s)
        \/ \E c \in Contents : CommitSnapshot(s, c) \/ ActivateSnapshot(s, c)

NodeStep ==
    \E n \in Nodes :
        \/ Disable(n) \/ Enable(n)
        \/ StartCheck(n) \/ CheckSucceeds(n) \/ CheckFails(n) \/ CheckDiscarded(n)
        \/ AllocateSession(n) \/ ReleaseSession(n)

InventoryNext == SubscriptionStep \/ NodeStep \/ DropChecks

InventorySpec == InventoryInit /\ [][InventoryNext]_inventory

-----------------------------------------------------------------------------
(* What the inventory promises.                                            *)

\* A subscription has exactly one active snapshot, the one the row names as
\* last success, from its first successful refresh to its deletion: conditional
\* requests, the compiler and the node views read one or the other.
ActiveIsLastSuccess ==
    \A s \in Subs :
        {c \in Contents : snapshot[s][c] = "active"} = {last[s]} \ {None}

\* A node some active snapshot lists is never retired, whichever subscription
\* shares it, gave it up or was deleted: proxy groups keep what is offered.
ListedNodesSurvive ==
    \A n \in Listed(snapshot) : lifecycle[n] \notin {"absent", "retired"}

\* docs/V1_CORE.md 4.1: quarantine takes three failures in a row, and a node is
\* healthy only while its last recorded check succeeded, with checks recorded
\* after the node was disabled, retired, revived or enabled again.
VerdictMatchesHistory ==
    \A n \in Nodes :
        /\ lifecycle[n] = "quarantined" => failures[n] = Quarantine
        /\ lifecycle[n] = "healthy" => failures[n] = 0

\* node.Service.Disable: a disabled node stays disabled until an administrator
\* enables it, also through refreshes that list it and checks still in flight.
DisabledSticks ==
    [][\A n \in Nodes \ Residential :
           lifecycle[n] = "disabled" =>
               lifecycle'[n] = "disabled" \/ Enable(n)]_inventory

\* A retired node comes back only through a snapshot or an allocation, and
\* then as a candidate: no late check result brings it back.
RevivedUnverified ==
    [][\A n \in Nodes :
           lifecycle[n] = "retired" =>
               \/ lifecycle'[n] = "retired"
               \/ lifecycle'[n] = "candidate" /\ n \in Listed(snapshot') \cup Residential
               \/ lifecycle'[n] = "absent" /\ n \in Residential]_inventory

\* docs/V1_CORE.md 4.1: a retired node was removed from the newest active
\* snapshot; a residential node is in none and "stays selectable through its
\* own origin" (ListGroupNodeCandidates).
RetiredWasListed ==
    [][\A n \in Nodes :
           lifecycle[n] \in Usable /\ lifecycle'[n] = "retired" =>
               n \in Listed(snapshot)]_inventory

=============================================================================
