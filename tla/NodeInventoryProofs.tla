------------------------ MODULE NodeInventoryProofs ------------------------
(***************************************************************************)
(* Proofs about NodeInventory, for every set of subscriptions, nodes and   *)
(* contents and any number of checks in flight.                            *)
(***************************************************************************)
EXTENDS NodeInventory, TLAPS

(* The inductive invariant.  Its parts do not depend on each other beyond  *)
(* the types, but for ListedNodesSurvive, which is what makes a commit     *)
(* leave alone the nodes other subscriptions list.                         *)
IInv ==
    /\ InventoryTypeOK
    /\ ActiveIsLastSuccess
    /\ ListedNodesSurvive
    /\ VerdictMatchesHistory

\* What a commit or an activation lists afterwards: its own content and what
\* was listed before.
LEMMA SwitchLists ==
    ASSUME InventoryTypeOK, NEW s \in Subs, NEW c \in Contents, Switch(s, c)
    PROVE  /\ c \subseteq Listed(snapshot')
           /\ Listed(snapshot') \subseteq Listed(snapshot) \cup c
  BY DEF InventoryTypeOK, Switch, Listed

\* A deletion lists nothing new.
LEMMA DeleteLists ==
    ASSUME InventoryTypeOK, NEW s \in Subs, DeleteSubscription(s)
    PROVE  Listed(snapshot') \subseteq Listed(snapshot)
  BY DEF InventoryTypeOK, DeleteSubscription, Listed

\* Every step keeps the types.
LEMMA TypeStep == InventoryTypeOK /\ [InventoryNext]_inventory => InventoryTypeOK'
<1> SUFFICES ASSUME InventoryTypeOK, [InventoryNext]_inventory
             PROVE  InventoryTypeOK'
  OBVIOUS
<1> USE InventoryAssumption DEF InventoryTypeOK, Usable, Quarantine
<1>1. ASSUME NEW s \in Subs, CreateSubscription(s) PROVE InventoryTypeOK'
  BY <1>1 DEF CreateSubscription, nodes
<1>2. ASSUME NEW s \in Subs, DeleteSubscription(s) PROVE InventoryTypeOK'
  <2>1. lifecycle' \in [Nodes -> Usable \cup {"absent", "disabled", "retired"}]
    BY <1>2 DEF DeleteSubscription, RetireOrphans
  <2>2. snapshot' \in [Subs -> [Contents -> {"none", "active", "retired"}]]
    BY <1>2 DEF DeleteSubscription
  <2> QED BY <1>2, <2>1, <2>2 DEF DeleteSubscription
<1>3. ASSUME NEW s \in Subs, NEW c \in Contents, Switch(s, c)
      PROVE  InventoryTypeOK'
  <2>1. Stored(c) \in [Nodes -> Usable \cup {"absent", "disabled", "retired"}]
    BY DEF Stored
  <2>2. lifecycle' \in [Nodes -> Usable \cup {"absent", "disabled", "retired"}]
    BY <1>3, <2>1 DEF Switch, RetireOrphans
  <2>3. snapshot' \in [Subs -> [Contents -> {"none", "active", "retired"}]]
    BY <1>3 DEF Switch
  <2> QED BY <1>3, <2>2, <2>3 DEF Switch
<1>4. ASSUME NEW n \in Nodes, Disable(n) \/ Enable(n) PROVE InventoryTypeOK'
  BY <1>4 DEF Disable, Enable, SetNodeLifecycleState
<1>5. ASSUME NEW n \in Nodes, StartCheck(n) PROVE InventoryTypeOK'
  BY <1>5 DEF StartCheck
<1>6. ASSUME NEW n \in Nodes, CheckSucceeds(n) PROVE InventoryTypeOK'
  BY <1>6 DEF CheckSucceeds, EndCheck, Record
<1>7. ASSUME NEW n \in Nodes, CheckFails(n) PROVE InventoryTypeOK'
  BY <1>7 DEF CheckFails, EndCheck, Record
<1>8. ASSUME NEW n \in Nodes, CheckDiscarded(n) PROVE InventoryTypeOK'
  BY <1>8 DEF CheckDiscarded, EndCheck
<1>9. ASSUME NEW n \in Nodes, AllocateSession(n) PROVE InventoryTypeOK'
  BY <1>9 DEF AllocateSession
<1>10. ASSUME NEW n \in Nodes, ReleaseSession(n) PROVE InventoryTypeOK'
  BY <1>10 DEF ReleaseSession
<1>11. CASE DropChecks
  BY <1>11 DEF DropChecks
<1>12. CASE UNCHANGED inventory
  BY <1>12 DEF inventory
<1> QED
  BY <1>1, <1>2, <1>3, <1>4, <1>5, <1>6, <1>7, <1>8, <1>9, <1>10, <1>11, <1>12
  DEF InventoryNext, SubscriptionStep, NodeStep, CommitSnapshot, ActivateSnapshot

\* The three statements of a commit keep snapshot and row in step.
LEMMA ActiveStep ==
    InventoryTypeOK /\ ActiveIsLastSuccess /\ [InventoryNext]_inventory
    => ActiveIsLastSuccess'
<1> SUFFICES ASSUME InventoryTypeOK, ActiveIsLastSuccess, [InventoryNext]_inventory
             PROVE  ActiveIsLastSuccess'
  OBVIOUS
<1> USE InventoryAssumption DEF InventoryTypeOK, ActiveIsLastSuccess
<1>1. ASSUME NEW s \in Subs, CreateSubscription(s) PROVE ActiveIsLastSuccess'
  BY <1>1 DEF CreateSubscription
<1>2. ASSUME NEW s \in Subs, DeleteSubscription(s) PROVE ActiveIsLastSuccess'
  BY <1>2 DEF DeleteSubscription
<1>3. ASSUME NEW s \in Subs, NEW c \in Contents, Switch(s, c)
      PROVE  ActiveIsLastSuccess'
  <2> TAKE t \in Subs
  <2>1. CASE t = s
    <3>1. last'[t] = c
      BY <1>3, <2>1 DEF Switch
    <3>2. \A d \in Contents : snapshot'[t][d] = "active" <=> d = c
      BY <1>3, <2>1 DEF Switch
    <3> QED BY <3>1, <3>2
  <2>2. CASE t # s
    BY <1>3, <2>2 DEF Switch
  <2> QED BY <2>1, <2>2
<1>4. ASSUME NEW n \in Nodes,
             \/ Disable(n) \/ Enable(n) \/ StartCheck(n) \/ CheckSucceeds(n)
             \/ CheckFails(n) \/ CheckDiscarded(n)
             \/ AllocateSession(n) \/ ReleaseSession(n)
      PROVE  ActiveIsLastSuccess'
  <2>1. UNCHANGED <<last, snapshot>>
    BY <1>4 DEF Disable, Enable, SetNodeLifecycleState, StartCheck, CheckSucceeds,
                CheckFails, CheckDiscarded, EndCheck, AllocateSession, ReleaseSession
  <2> QED BY <2>1
<1>5. CASE DropChecks
  BY <1>5 DEF DropChecks
<1>6. CASE UNCHANGED inventory
  BY <1>6 DEF inventory
<1> QED
  BY <1>1, <1>2, <1>3, <1>4, <1>5, <1>6
  DEF InventoryNext, SubscriptionStep, NodeStep, CommitSnapshot, ActivateSnapshot

\* No step retires or removes a node some active snapshot lists.
LEMMA ListedStep ==
    InventoryTypeOK /\ ListedNodesSurvive /\ [InventoryNext]_inventory
    => ListedNodesSurvive'
<1> SUFFICES ASSUME InventoryTypeOK, ListedNodesSurvive, [InventoryNext]_inventory,
                    NEW m \in Listed(snapshot')
             PROVE  lifecycle'[m] \notin {"absent", "retired"}
  BY DEF ListedNodesSurvive
<1> DEFINE Survives == lifecycle'[m] \notin {"absent", "retired"}
<1> USE InventoryAssumption DEF InventoryTypeOK, ListedNodesSurvive, Usable
<1>0. m \in Nodes \ Residential
  BY DEF Listed
<1>1. ASSUME NEW s \in Subs, CreateSubscription(s) PROVE Survives
  BY <1>1 DEF CreateSubscription, nodes
<1>2. ASSUME NEW s \in Subs, DeleteSubscription(s) PROVE Survives
  <2>1. lifecycle[m] \notin {"absent", "retired"}
    BY <1>2, DeleteLists
  <2> QED BY <1>0, <1>2, <2>1 DEF DeleteSubscription, RetireOrphans
<1>3. ASSUME NEW s \in Subs, NEW c \in Contents, Switch(s, c) PROVE Survives
  <2>1. Stored(c)[m] \notin {"absent", "retired"}
    BY <1>0, <1>3, SwitchLists DEF Stored
  <2> QED BY <1>0, <1>3, <2>1 DEF Switch, RetireOrphans
<1>4. ASSUME NEW n \in Nodes,
             \/ Disable(n) \/ Enable(n) \/ StartCheck(n) \/ CheckSucceeds(n)
             \/ CheckFails(n) \/ CheckDiscarded(n)
             \/ AllocateSession(n) \/ ReleaseSession(n)
      PROVE  Survives
  <2>1. lifecycle[m] \notin {"absent", "retired"}
    BY <1>4 DEF Disable, Enable, SetNodeLifecycleState, StartCheck, CheckSucceeds,
                CheckFails, CheckDiscarded, EndCheck, AllocateSession, ReleaseSession,
                Listed
  <2>2. CASE CheckSucceeds(n) \/ CheckFails(n)
    BY <1>0, <2>1, <2>2 DEF CheckSucceeds, CheckFails, Record
  <2>3. CASE Disable(n) \/ Enable(n)
    BY <1>0, <2>1, <2>3 DEF Disable, Enable, SetNodeLifecycleState
  <2>4. CASE StartCheck(n) \/ CheckDiscarded(n)
    BY <2>1, <2>4 DEF StartCheck, CheckDiscarded
  <2>5. CASE AllocateSession(n) \/ ReleaseSession(n)
    BY <1>0, <2>1, <2>5 DEF AllocateSession, ReleaseSession
  <2> QED BY <1>4, <2>2, <2>3, <2>4, <2>5
<1>5. CASE DropChecks
  BY <1>5 DEF DropChecks, Listed
<1>6. CASE UNCHANGED inventory
  BY <1>6 DEF inventory, Listed
<1> QED
  BY <1>1, <1>2, <1>3, <1>4, <1>5, <1>6
  DEF InventoryNext, SubscriptionStep, NodeStep, CommitSnapshot, ActivateSnapshot

\* Only recorded results make a node healthy or quarantined, and they count.
LEMMA VerdictStep ==
    InventoryTypeOK /\ VerdictMatchesHistory /\ [InventoryNext]_inventory
    => VerdictMatchesHistory'
<1> SUFFICES ASSUME InventoryTypeOK, VerdictMatchesHistory, [InventoryNext]_inventory,
                    NEW m \in Nodes
             PROVE  /\ lifecycle'[m] = "quarantined" => failures'[m] = Quarantine
                    /\ lifecycle'[m] = "healthy" => failures'[m] = 0
  BY DEF VerdictMatchesHistory
<1> DEFINE Agrees == /\ lifecycle'[m] = "quarantined" => failures'[m] = Quarantine
                     /\ lifecycle'[m] = "healthy" => failures'[m] = 0
<1> USE InventoryAssumption DEF InventoryTypeOK, VerdictMatchesHistory, Usable, Quarantine
<1>1. ASSUME NEW s \in Subs, CreateSubscription(s) PROVE Agrees
  BY <1>1 DEF CreateSubscription, nodes
<1>2. ASSUME NEW s \in Subs, DeleteSubscription(s) PROVE Agrees
  BY <1>2 DEF DeleteSubscription, RetireOrphans
<1>3. ASSUME NEW s \in Subs, NEW c \in Contents, Switch(s, c) PROVE Agrees
  BY <1>3 DEF Switch, RetireOrphans, Stored
<1>4. ASSUME NEW n \in Nodes, Disable(n) \/ Enable(n) PROVE Agrees
  BY <1>4 DEF Disable, Enable, SetNodeLifecycleState
<1>5. ASSUME NEW n \in Nodes, StartCheck(n) \/ CheckDiscarded(n) PROVE Agrees
  BY <1>5 DEF StartCheck, CheckDiscarded
<1>6. ASSUME NEW n \in Nodes, CheckSucceeds(n) PROVE Agrees
  BY <1>6 DEF CheckSucceeds, Record
<1>7. ASSUME NEW n \in Nodes, CheckFails(n) PROVE Agrees
  <2>1. CASE n # m
    BY <1>7, <2>1 DEF CheckFails, Record
  <2>2. CASE n = m /\ lifecycle[m] = "disabled"
    BY <1>7, <2>2 DEF CheckFails, Record
  <2>3. CASE n = m /\ lifecycle[m] # "disabled"
    BY <1>7, <2>3 DEF CheckFails, Record
  <2> QED BY <2>1, <2>2, <2>3
<1>8. ASSUME NEW n \in Nodes, AllocateSession(n) PROVE Agrees
  BY <1>8 DEF AllocateSession
<1>9. ASSUME NEW n \in Nodes, ReleaseSession(n) PROVE Agrees
  BY <1>9 DEF ReleaseSession
<1>10. CASE DropChecks
  BY <1>10 DEF DropChecks
<1>11. CASE UNCHANGED inventory
  BY <1>11 DEF inventory
<1> QED
  BY <1>1, <1>2, <1>3, <1>4, <1>5, <1>6, <1>7, <1>8, <1>9, <1>10, <1>11
  DEF InventoryNext, SubscriptionStep, NodeStep, CommitSnapshot, ActivateSnapshot

\* The inductive invariant holds throughout.
THEOREM InventoryInvariance == InventorySpec => []IInv
<1>1. InventoryInit => IInv
  BY InventoryAssumption
  DEF InventoryInit, IInv, InventoryTypeOK, ActiveIsLastSuccess, ListedNodesSurvive,
      Listed, VerdictMatchesHistory, Usable, Quarantine
<1>2. IInv /\ [InventoryNext]_inventory => IInv'
  BY TypeStep, ActiveStep, ListedStep, VerdictStep DEF IInv
<1> QED BY <1>1, <1>2, PTL DEF InventorySpec

\* Every table of the inventory has its type.
THEOREM InventoryTyped == InventorySpec => []InventoryTypeOK
  BY InventoryInvariance, PTL DEF IInv

\* A subscription has one active snapshot, the one its row names, from its
\* first successful refresh to its deletion.
THEOREM ActiveIsLastSuccessHolds == InventorySpec => []ActiveIsLastSuccess
  BY InventoryInvariance, PTL DEF IInv

\* A node that an active snapshot lists is neither retired nor gone, however
\* many subscriptions share it.
THEOREM ListedNodesSurviveHolds == InventorySpec => []ListedNodesSurvive
  BY InventoryInvariance, PTL DEF IInv

\* Quarantine takes three failures in a row and health a success since the
\* last failure, whatever was recorded late.
THEOREM VerdictMatchesHistoryHolds == InventorySpec => []VerdictMatchesHistory
  BY InventoryInvariance, PTL DEF IInv

\* A disabled node stays disabled until an administrator enables it: neither
\* a snapshot nor a late result changes its state.
THEOREM DisabledSticksHolds == InventorySpec => DisabledSticks
<1> DEFINE Sticks(n) ==
        lifecycle[n] = "disabled" => lifecycle'[n] = "disabled" \/ Enable(n)
<1>1. ASSUME InventoryTypeOK, [InventoryNext]_inventory, NEW n \in Nodes \ Residential
      PROVE  Sticks(n)
  <2> USE <1>1 DEF InventoryTypeOK, Usable
  <2>1. ASSUME NEW s \in Subs, CreateSubscription(s) PROVE Sticks(n)
    BY <2>1 DEF CreateSubscription, nodes
  <2>2. ASSUME NEW s \in Subs, DeleteSubscription(s) PROVE Sticks(n)
    BY <2>2 DEF DeleteSubscription, RetireOrphans
  <2>3. ASSUME NEW s \in Subs, NEW c \in Contents, Switch(s, c) PROVE Sticks(n)
    BY <2>3 DEF Switch, Stored, RetireOrphans
  <2>4. ASSUME NEW m \in Nodes, Disable(m) \/ Enable(m) PROVE Sticks(n)
    BY <2>4 DEF Disable, Enable, SetNodeLifecycleState
  <2>5. ASSUME NEW m \in Nodes, StartCheck(m) \/ CheckDiscarded(m) PROVE Sticks(n)
    BY <2>5 DEF StartCheck, CheckDiscarded
  <2>6. ASSUME NEW m \in Nodes, CheckSucceeds(m) \/ CheckFails(m) PROVE Sticks(n)
    BY <2>6 DEF CheckSucceeds, CheckFails, Record
  <2>7. ASSUME NEW m \in Nodes, AllocateSession(m) \/ ReleaseSession(m) PROVE Sticks(n)
    BY <2>7 DEF AllocateSession, ReleaseSession
  <2>8. CASE DropChecks \/ UNCHANGED inventory
    BY <2>8 DEF DropChecks, inventory
  <2> QED
    BY <2>1, <2>2, <2>3, <2>4, <2>5, <2>6, <2>7, <2>8
    DEF InventoryNext, SubscriptionStep, NodeStep, CommitSnapshot, ActivateSnapshot
<1>2. InventoryTypeOK /\ [InventoryNext]_inventory =>
          [\A n \in Nodes \ Residential : Sticks(n)]_inventory
  BY <1>1
<1> QED BY <1>2, InventoryTyped, PTL DEF InventorySpec, DisabledSticks

\* A retired node comes back only through a snapshot or an allocation, and
\* then as a candidate.
THEOREM RevivedUnverifiedHolds == InventorySpec => RevivedUnverified
<1> DEFINE Revived(n) ==
        lifecycle[n] = "retired" =>
            \/ lifecycle'[n] = "retired"
            \/ lifecycle'[n] = "candidate" /\ n \in Listed(snapshot') \cup Residential
            \/ lifecycle'[n] = "absent" /\ n \in Residential
<1>1. ASSUME InventoryTypeOK, [InventoryNext]_inventory, NEW n \in Nodes
      PROVE  Revived(n)
  <2> USE <1>1 DEF InventoryTypeOK, Usable
  <2>1. ASSUME NEW s \in Subs, CreateSubscription(s) PROVE Revived(n)
    BY <2>1 DEF CreateSubscription, nodes
  <2>2. ASSUME NEW s \in Subs, DeleteSubscription(s) PROVE Revived(n)
    BY <2>2 DEF DeleteSubscription, RetireOrphans
  <2>3. ASSUME NEW s \in Subs, NEW c \in Contents, Switch(s, c) PROVE Revived(n)
    BY <2>3, SwitchLists DEF Switch, Stored, RetireOrphans
  <2>4. ASSUME NEW m \in Nodes, Disable(m) \/ Enable(m) PROVE Revived(n)
    BY <2>4 DEF Disable, Enable, SetNodeLifecycleState
  <2>5. ASSUME NEW m \in Nodes, StartCheck(m) \/ CheckDiscarded(m) PROVE Revived(n)
    BY <2>5 DEF StartCheck, CheckDiscarded
  <2>6. ASSUME NEW m \in Nodes, CheckSucceeds(m) \/ CheckFails(m) PROVE Revived(n)
    BY <2>6 DEF CheckSucceeds, CheckFails, Record
  <2>7. ASSUME NEW m \in Nodes, AllocateSession(m) \/ ReleaseSession(m) PROVE Revived(n)
    BY <2>7 DEF AllocateSession, ReleaseSession
  <2>8. CASE DropChecks \/ UNCHANGED inventory
    BY <2>8 DEF DropChecks, inventory
  <2> QED
    BY <2>1, <2>2, <2>3, <2>4, <2>5, <2>6, <2>7, <2>8
    DEF InventoryNext, SubscriptionStep, NodeStep, CommitSnapshot, ActivateSnapshot
<1>2. InventoryTypeOK /\ [InventoryNext]_inventory =>
          [\A n \in Nodes : Revived(n)]_inventory
  BY <1>1
<1> QED BY <1>2, InventoryTyped, PTL DEF InventorySpec, RevivedUnverified
=============================================================================
