--------------------- MODULE SubscriptionRefreshProofs ---------------------
(***************************************************************************)
(* Proofs about SubscriptionRefresh, for any number of subscriptions,      *)
(* workers and requests, every content and every number of restarts.       *)
(***************************************************************************)
EXTENDS SubscriptionRefresh, NodeInventoryProofs

Held == {"read", "load", "write", "commit", "activate", "mark", "apply"}
Informed == {"load", "write", "commit", "activate", "mark"}

\* A worker past Acquire holds the lock of its subscription.
LockHeld ==
    \A w \in Workers :
        /\ pc[w] # "idle" => sub[w] \in Subs
        /\ pc[w] \in Held => lockedBy[sub[w]] = w

\* What a refresh is about to commit is a content whose file is on disk.
Prepared ==
    \A w \in Workers :
        /\ pc[w] \in {"write", "commit", "activate"} => content[w] \in Contents
        /\ pc[w] = "commit" => written[w]

\* A refresh that read its row found one, so that its id is not new again.
RowWasThere ==
    \A w \in Workers : pc[w] \in Informed => row[sub[w]] # "new"

(* The inductive invariant.  The lock is what keeps the record current;    *)
(* Prepared is what makes a commit name a file.                            *)
RefreshInv ==
    /\ TypeOK
    /\ LockHeld
    /\ Prepared
    /\ RowWasThere
    /\ RecordIsCurrent
    /\ SnapshotsHaveFiles

-----------------------------------------------------------------------------
(* The steps by what they do to the workers.                               *)

Elsewhere ==
    \/ \E s \in Subs : Create(s) \/ Update(s) \/ Delete(s) \/ Elapse(s)
    \/ Schedule

Begins(w) == Dequeue(w) \/ (w \in Callers /\ \E s \in Subs : Request(w, s))

Advances(w) ==
    \/ \E c \in Contents : LoadContent(w, c)
    \/ LoadNotModified(w) \/ LoadFails(w)
    \/ Write(w) \/ WriteFails(w)
    \/ Commit(w) \/ CommitFails(w) \/ Activate(w) \/ ActivateFails(w)

Ends(w) == ReadRefused(w) \/ ReadFails(w) \/ Mark(w) \/ Apply(w) \/ Abandon(w)

LEMMA NextCases ==
    ASSUME [Next]_vars
    PROVE  \/ Elsewhere \/ Crash \/ UNCHANGED vars
           \/ \E w \in Workers :
                  Begins(w) \/ Acquire(w) \/ ReadRow(w) \/ Advances(w) \/ Ends(w)
  BY DEF Next, Environment, Step, Elsewhere, Begins, Advances, Ends, Workers

\* Administrators and the scheduler touch no refresh.
LEMMA ElsewhereWorkers ==
    ASSUME Elsewhere PROVE UNCHANGED <<lockedBy, workers, crashes>>
  BY DEF Elsewhere, Create, Update, Delete, Elapse, Schedule, Claim, Enqueue

\* A refresh that goes on keeps its subscription, its lock and its record.
LEMMA AdvancesWorkers ==
    ASSUME NEW w \in Workers, Advances(w)
    PROVE  /\ UNCHANGED <<sub, record, lockedBy>>
           /\ pc[w] \in Informed
           /\ pc' = [pc EXCEPT ![w] = "write"] \/ pc' = [pc EXCEPT ![w] = "commit"]
              \/ pc' = [pc EXCEPT ![w] = "activate"] \/ pc' = [pc EXCEPT ![w] = "mark"]
              \/ pc' = [pc EXCEPT ![w] = "apply"]
  BY DEF Advances, LoadContent, LoadNotModified, LoadFails, Write, WriteFails, Commit,
         CommitFails, Activate, ActivateFails, Proceed, Informed

\* Every end of a refresh is a return by the holder of the lock.
LEMMA EndsWorkers ==
    ASSUME NEW w \in Workers, Ends(w)
    PROVE  Return(w) /\ pc[w] \in Held
  BY DEF Ends, ReadRefused, ReadFails, Mark, Apply, Abandon, Held

\* What each kind of step does to the tables of the inventory.
LEMMA TablesCases ==
    ASSUME RefreshInv, [Next]_vars
    PROVE  \/ UNCHANGED inventory
           \/ \E s \in Subs : CreateSubscription(s) \/ DeleteSubscription(s)
           \/ \E w \in Workers : Commit(w) \/ Activate(w)
           \/ DropChecks
<1> USE DEF tables, inventory
<1>1. CASE Elsewhere
  BY <1>1 DEF Elsewhere, Create, Update, Delete, Elapse, Schedule, Claim, Enqueue
<1>2. CASE Crash
  BY <1>2 DEF Crash
<1>3. ASSUME NEW w \in Workers,
             Begins(w) \/ Acquire(w) \/ ReadRow(w) \/ Ends(w)
      PROVE  UNCHANGED inventory
  BY <1>3 DEF Begins, Dequeue, Request, Begin, Acquire, ReadRow, Ends, ReadRefused,
              ReadFails, Mark, Apply, Abandon
<1>4. ASSUME NEW w \in Workers, Advances(w)
      PROVE  UNCHANGED inventory \/ Commit(w) \/ Activate(w)
  BY <1>4 DEF Advances, LoadContent, LoadNotModified, LoadFails, Write, WriteFails,
              CommitFails, ActivateFails
<1>5. CASE UNCHANGED vars
  BY <1>5 DEF vars
<1> QED BY <1>1, <1>2, <1>3, <1>4, <1>5, NextCases

-----------------------------------------------------------------------------
\* Every step of a refresh is a transaction of the inventory or none.
LEMMA InventoryStep == RefreshInv /\ [Next]_vars => [InventoryNext]_inventory
<1> SUFFICES ASSUME RefreshInv, [Next]_vars PROVE [InventoryNext]_inventory
  OBVIOUS
<1>1. ASSUME NEW w \in Workers, Commit(w) \/ Activate(w) PROVE SubscriptionStep
  <2>1. sub[w] \in Subs /\ content[w] \in Contents
    BY <1>1 DEF RefreshInv, LockHeld, Prepared, Commit, Activate
  <2> QED BY <1>1, <2>1 DEF Commit, Activate, SubscriptionStep
<1> QED BY <1>1, TablesCases DEF InventoryNext, SubscriptionStep

\* Every step keeps the types: of the subscription rows,
LEMMA RowsStep ==
    ASSUME RefreshInv, [Next]_vars
    PROVE  /\ enabled' \in [Subs -> BOOLEAN]
           /\ due' \in [Subs -> BOOLEAN]
           /\ failed' \in [Subs -> 0..MaxFailures]
           /\ artifact' \in [Subs -> SUBSET Contents]
<1> DEFINE Rows == /\ enabled' \in [Subs -> BOOLEAN]
                   /\ due' \in [Subs -> BOOLEAN]
                   /\ failed' \in [Subs -> 0..MaxFailures]
                   /\ artifact' \in [Subs -> SUBSET Contents]
<1>0. /\ enabled \in [Subs -> BOOLEAN]
      /\ due \in [Subs -> BOOLEAN]
      /\ failed \in [Subs -> 0..MaxFailures]
      /\ artifact \in [Subs -> SUBSET Contents]
      /\ MaxFailures \in Nat
  BY RefreshAssumption DEF RefreshInv, TypeOK
<1>1. CASE Elsewhere
  <2>1. ASSUME NEW s \in Subs, Create(s) \/ Update(s) PROVE Rows
    <3>1. PICK e \in BOOLEAN : enabled' = [enabled EXCEPT ![s] = e]
      BY <2>1 DEF Create, Update
    <3>2. due' = [due EXCEPT ![s] = TRUE] /\ UNCHANGED <<failed, artifact>>
      BY <2>1 DEF Create, Update
    <3> QED BY <1>0, <3>1, <3>2
  <2>2. ASSUME NEW s \in Subs, Delete(s) PROVE Rows
    BY <1>0, <2>2 DEF Delete
  <2>3. ASSUME NEW s \in Subs, Elapse(s) PROVE Rows
    BY <1>0, <2>3 DEF Elapse
  <2>4. CASE Claim
    BY <1>0, <2>4 DEF Claim
  <2>5. ASSUME NEW s \in Subs, Enqueue(s) PROVE Rows
    BY <1>0, <2>5 DEF Enqueue
  <2> QED BY <1>1, <2>1, <2>2, <2>3, <2>4, <2>5 DEF Elsewhere, Schedule
<1>2. CASE Crash
  BY <1>0, <1>2 DEF Crash
<1>3. ASSUME NEW w \in Workers, Begins(w) \/ Acquire(w) \/ ReadRow(w) \/ Ends(w)
      PROVE  Rows
  <2>1. CASE Mark(w)
    <3>1. UNCHANGED <<enabled, artifact>>
      BY <2>1 DEF Mark
    <3>2. CASE row[sub[w]] = "live"
      <4>1. PICK s \in Subs : s = sub[w]
        BY <2>1 DEF Mark, RefreshInv, LockHeld
      <4>2. /\ failed' = [failed EXCEPT ![s] = IF @ < MaxFailures THEN @ + 1 ELSE @]
            /\ due' = [due EXCEPT ![s] = FALSE]
        BY <2>1, <3>2, <4>1 DEF Mark
      <4> QED BY <1>0, <3>1, <4>2
    <3>3. CASE row[sub[w]] # "live"
      <4>1. UNCHANGED <<failed, due>>
        BY <2>1, <3>3 DEF Mark
      <4> QED BY <1>0, <3>1, <4>1
    <3> QED BY <3>2, <3>3
  <2>2. CASE ~Mark(w)
    <3>1. UNCHANGED <<enabled, due, failed, artifact>>
      BY <1>3, <2>2 DEF Begins, Dequeue, Request, Begin, Acquire, ReadRow, Ends,
                        ReadRefused, ReadFails, Apply, Abandon
    <3> QED BY <1>0, <3>1
  <2> QED BY <2>1, <2>2
<1>4. ASSUME NEW w \in Workers, Advances(w) PROVE Rows
  <2>1. CASE Commit(w) \/ Activate(w)
    <3>1. PICK s \in Subs : s = sub[w]
      BY <2>1 DEF Commit, Activate, RefreshInv, LockHeld
    <3>2. PICK c \in Contents : c = content[w]
      BY <2>1 DEF Commit, Activate, RefreshInv, Prepared
    <3>3. /\ UNCHANGED enabled
          /\ failed' = [failed EXCEPT ![s] = 0]
          /\ due' = [due EXCEPT ![s] = FALSE]
      BY <2>1, <3>1 DEF Commit, Activate, Succeeded
    <3>4. UNCHANGED artifact \/ artifact' = [artifact EXCEPT ![s] = @ \cup {c}]
      <4>1. CASE Commit(w) /\ written[w]
        BY <3>1, <3>2, <4>1 DEF Commit
      <4>2. CASE Commit(w) /\ ~written[w]
        BY <4>2 DEF Commit, RefreshInv, Prepared
      <4>3. CASE Activate(w)
        BY <4>3 DEF Activate
      <4> QED BY <2>1, <4>1, <4>2, <4>3
    <3> QED BY <1>0, <3>3, <3>4
  <2>2. CASE ~Commit(w) /\ ~Activate(w)
    <3>1. UNCHANGED <<enabled, due, failed, artifact>>
      BY <1>4, <2>2 DEF Advances, LoadContent, LoadNotModified, LoadFails, Write,
                        WriteFails, CommitFails, ActivateFails
    <3> QED BY <1>0, <3>1
  <2> QED BY <2>1, <2>2
<1>5. CASE UNCHANGED vars
  BY <1>0, <1>5 DEF vars
<1> QED BY <1>1, <1>2, <1>3, <1>4, <1>5, NextCases

\* of the schedule,
LEMMA JobsStep ==
    ASSUME RefreshInv, [Next]_vars
    PROVE  claimed' \subseteq Subs /\ queue' \in Seq(Subs) /\ Len(queue') <= QueueSize
<1> DEFINE Jobs ==
        claimed' \subseteq Subs /\ queue' \in Seq(Subs) /\ Len(queue') <= QueueSize
<1>0. /\ claimed \subseteq Subs /\ queue \in Seq(Subs) /\ Len(queue) <= QueueSize
      /\ QueueSize \in Nat
  BY RefreshAssumption DEF RefreshInv, TypeOK
<1>1. CASE Elsewhere
  <2>1. ASSUME NEW s \in Subs, Create(s) \/ Update(s) \/ Delete(s) \/ Elapse(s)
        PROVE  Jobs
    <3>1. UNCHANGED <<claimed, queue>>
      BY <2>1 DEF Create, Update, Delete, Elapse, schedule
    <3> QED BY <1>0, <3>1
  <2>2. CASE Claim
    BY <1>0, <2>2 DEF Claim, Claimable
  <2>3. ASSUME NEW s \in Subs, Enqueue(s) PROVE Jobs
    BY <1>0, <2>3 DEF Enqueue
  <2> QED BY <1>1, <2>1, <2>2, <2>3 DEF Elsewhere, Schedule
<1>2. CASE Crash
  <2>1. claimed' = {} /\ queue' = <<>>
    BY <1>2 DEF Crash
  <2> QED BY <1>0, <2>1
<1>3. ASSUME NEW w \in Workers, Acquire(w) \/ ReadRow(w) \/ Advances(w) \/ Ends(w)
      PROVE  Jobs
  <2>1. UNCHANGED <<claimed, queue>>
    BY <1>3 DEF schedule, Acquire, ReadRow, Advances, LoadContent, LoadNotModified,
                LoadFails, Write, WriteFails, Commit, CommitFails, Activate,
                ActivateFails, Ends, ReadRefused, ReadFails, Mark, Apply, Abandon
  <2> QED BY <1>0, <2>1
<1>4. ASSUME NEW w \in Workers, Begins(w) PROVE Jobs
  <2>1. UNCHANGED claimed /\ (UNCHANGED queue \/ (queue # <<>> /\ queue' = Tail(queue)))
    BY <1>4 DEF Begins, Dequeue, Request, Begin
  <2>2. queue # <<>> => Tail(queue) \in Seq(Subs) /\ Len(Tail(queue)) <= Len(queue)
    BY <1>0
  <2> QED BY <1>0, <2>1, <2>2
<1>5. CASE UNCHANGED vars
  BY <1>0, <1>5 DEF vars
<1> QED BY <1>1, <1>2, <1>3, <1>4, <1>5, NextCases

\* and of the workers.
LEMMA WorkersStep ==
    ASSUME RefreshInv, [Next]_vars
    PROVE  /\ lockedBy' \in [Subs -> Workers \cup {None}]
           /\ pc' \in [Workers -> Steps]
           /\ sub' \in [Workers -> Subs \cup {NoSub}]
           /\ record' \in [Workers -> [failed : 0..MaxFailures, last : Contents \cup {None}]]
           /\ content' \in [Workers -> Contents \cup {None}]
           /\ written' \in [Workers -> BOOLEAN]
           /\ crashes' \in 0..MaxCrashes
<1> DEFINE Noted == [failed : 0..MaxFailures, last : Contents \cup {None}]
           Typed == /\ lockedBy' \in [Subs -> Workers \cup {None}]
                    /\ pc' \in [Workers -> Steps]
                    /\ sub' \in [Workers -> Subs \cup {NoSub}]
                    /\ record' \in [Workers -> Noted]
                    /\ content' \in [Workers -> Contents \cup {None}]
                    /\ written' \in [Workers -> BOOLEAN]
                    /\ crashes' \in 0..MaxCrashes
<1>0. /\ lockedBy \in [Subs -> Workers \cup {None}]
      /\ pc \in [Workers -> Steps]
      /\ sub \in [Workers -> Subs \cup {NoSub}]
      /\ record \in [Workers -> Noted]
      /\ content \in [Workers -> Contents \cup {None}]
      /\ written \in [Workers -> BOOLEAN]
      /\ crashes \in 0..MaxCrashes
  BY DEF RefreshInv, TypeOK
<1>00. NoRecord \in Noted /\ MaxCrashes \in Nat
  BY RefreshAssumption DEF NoRecord
<1>000. {"idle", "lock", "read", "load", "write", "commit", "activate", "mark", "apply"}
            \subseteq Steps
  BY DEF Steps
<1> SUFFICES Typed
  OBVIOUS
<1> HIDE DEF Noted
<1>1. CASE UNCHANGED <<lockedBy, workers, crashes>>
  <2>1. UNCHANGED <<lockedBy, pc, sub, record, content, written, crashes>>
    BY <1>1 DEF workers
  <2> QED BY <1>0, <2>1
<1>2. CASE Crash
  <2>1. /\ lockedBy' = [s \in Subs |-> None]
        /\ pc' = [w \in Workers |-> "idle"]
        /\ sub' = [w \in Workers |-> NoSub]
        /\ record' = [w \in Workers |-> NoRecord]
        /\ content' = [w \in Workers |-> None]
        /\ written' = [w \in Workers |-> FALSE]
        /\ crashes < MaxCrashes /\ crashes' = crashes + 1
    BY <1>2 DEF Crash
  <2>2. crashes' \in 0..MaxCrashes
    BY <1>0, <1>00, <2>1
  <2> QED BY <1>00, <1>000, <2>1, <2>2
<1>3. ASSUME NEW w \in Workers, Begins(w) PROVE Typed
  <2>1. PICK s \in Subs : Begin(w, s)
    <3>1. CASE Dequeue(w)
      <4>1. Head(queue) \in Subs
        BY <3>1 DEF Dequeue, RefreshInv, TypeOK
      <4> QED BY <3>1, <4>1 DEF Dequeue
    <3> QED BY <1>3, <3>1 DEF Begins, Request
  <2> QED BY <1>0, <1>000, <2>1 DEF Begin
<1>4. ASSUME NEW w \in Workers, Acquire(w) PROVE Typed
  BY <1>0, <1>000, <1>4 DEF Acquire
<1>5. ASSUME NEW w \in Workers, ReadRow(w) PROVE Typed
  <2>1. sub[w] \in Subs
    BY <1>5 DEF ReadRow, RefreshInv, LockHeld
  <2>2. failed[sub[w]] \in 0..MaxFailures /\ last[sub[w]] \in Contents \cup {None}
    BY <2>1 DEF RefreshInv, TypeOK, InventoryTypeOK
  <2>3. [failed |-> failed[sub[w]], last |-> last[sub[w]]] \in Noted
    BY <2>2 DEF Noted
  <2> QED BY <1>0, <1>000, <1>5, <2>3 DEF ReadRow
<1>6. ASSUME NEW w \in Workers, Advances(w) PROVE Typed
  <2>1. UNCHANGED crashes
    BY <1>6 DEF Advances, LoadContent, LoadNotModified, LoadFails, Write, WriteFails,
                Commit, CommitFails, Activate, ActivateFails
  <2>2. UNCHANGED content
        \/ \E c \in Contents \cup {None} : content' = [content EXCEPT ![w] = c]
    <3>1. record[w].last \in Contents \cup {None}
      BY <1>0 DEF Noted
    <3> QED BY <1>6, <3>1 DEF Advances, LoadContent, LoadNotModified, LoadFails, Write,
               WriteFails, Commit, CommitFails, Activate, ActivateFails
  <2>3. UNCHANGED written \/ written' = [written EXCEPT ![w] = TRUE]
        \/ written' = [written EXCEPT ![w] = FALSE]
    BY <1>6 DEF Advances, LoadContent, LoadNotModified, LoadFails, Write, WriteFails,
                Commit, CommitFails, Activate, ActivateFails
  <2>4. pc' \in [Workers -> Steps]
    BY <1>0, <1>000, <1>6, AdvancesWorkers
  <2> QED BY <1>0, <1>6, <2>1, <2>2, <2>3, <2>4, AdvancesWorkers
<1>7. ASSUME NEW w \in Workers, Ends(w) PROVE Typed
  <2>1. UNCHANGED crashes
    BY <1>7 DEF Ends, ReadRefused, ReadFails, Mark, Apply, Abandon
  <2>2. Return(w)
    BY <1>7, EndsWorkers
  <2> QED BY <1>0, <1>00, <1>000, <2>1, <2>2 DEF Return
<1>8. UNCHANGED vars => UNCHANGED <<lockedBy, workers, crashes>>
  BY DEF vars, workers
<1> QED
  BY <1>1, <1>2, <1>3, <1>4, <1>5, <1>6, <1>7, <1>8, NextCases, ElsewhereWorkers

LEMMA RefreshTypeStep == RefreshInv /\ [Next]_vars => TypeOK'
<1> SUFFICES ASSUME RefreshInv, [Next]_vars PROVE TypeOK'
  OBVIOUS
<1>1. InventoryTypeOK'
  BY InventoryStep, TypeStep DEF RefreshInv, TypeOK
<1> QED BY <1>1, RowsStep, JobsStep, WorkersStep DEF TypeOK

-----------------------------------------------------------------------------
\* A lock is taken only when it is free and released only by its holder.
LEMMA LockStep == RefreshInv /\ [Next]_vars => LockHeld'
<1> SUFFICES ASSUME RefreshInv, [Next]_vars PROVE LockHeld'
  OBVIOUS
<1>0. /\ lockedBy \in [Subs -> Workers \cup {None}]
      /\ pc \in [Workers -> Steps]
      /\ sub \in [Workers -> Subs \cup {NoSub}]
      /\ None \notin Workers
      /\ LockHeld
  BY RefreshAssumption DEF RefreshInv, TypeOK
<1>1. CASE UNCHANGED <<lockedBy, workers, crashes>>
  BY <1>0, <1>1 DEF workers, LockHeld
<1>2. CASE Crash
  BY <1>2 DEF Crash, LockHeld, Held
<1>3. ASSUME NEW w \in Workers, Begins(w) PROVE LockHeld'
  <2>1. PICK s \in Subs : Begin(w, s)
    <3>1. CASE Dequeue(w)
      <4>1. Head(queue) \in Subs
        BY <3>1 DEF Dequeue, RefreshInv, TypeOK
      <4> QED BY <3>1, <4>1 DEF Dequeue
    <3> QED BY <1>3, <3>1 DEF Begins, Request
  <2> QED BY <1>0, <2>1 DEF Begin, LockHeld, Held
<1>4. ASSUME NEW w \in Workers, Acquire(w) PROVE LockHeld'
  <2>1. /\ pc[w] = "lock" /\ sub[w] \in Subs /\ lockedBy[sub[w]] = None
        /\ lockedBy' = [lockedBy EXCEPT ![sub[w]] = w]
        /\ pc' = [pc EXCEPT ![w] = "read"] /\ UNCHANGED sub
    BY <1>0, <1>4 DEF Acquire, LockHeld
  <2>2. ASSUME NEW v \in Workers, v # w, pc[v] \in Held
        PROVE  sub[v] # sub[w]
    BY <1>0, <2>1, <2>2 DEF LockHeld
  <2>3. ASSUME NEW v \in Workers
        PROVE  /\ pc'[v] # "idle" => sub'[v] \in Subs
               /\ pc'[v] \in Held => lockedBy'[sub'[v]] = v
    <3>1. CASE v = w
      BY <1>0, <2>1, <3>1
    <3>2. CASE v # w
      <4>1. pc'[v] = pc[v] /\ sub'[v] = sub[v]
        BY <1>0, <2>1, <3>2
      <4>2. pc[v] \in Held => lockedBy'[sub[v]] = lockedBy[sub[v]]
        BY <1>0, <2>1, <2>2, <3>2 DEF LockHeld, Held
      <4> QED BY <1>0, <4>1, <4>2 DEF LockHeld
    <3> QED BY <3>1, <3>2
  <2> QED BY <2>3 DEF LockHeld
<1>5. ASSUME NEW w \in Workers, ReadRow(w) PROVE LockHeld'
  BY <1>0, <1>5 DEF ReadRow, LockHeld, Held
<1>6. ASSUME NEW w \in Workers, Advances(w) PROVE LockHeld'
  BY <1>0, <1>6, AdvancesWorkers DEF LockHeld, Held, Informed
<1>7. ASSUME NEW w \in Workers, Ends(w) PROVE LockHeld'
  <2>1. /\ lockedBy[sub[w]] = w
        /\ pc' = [pc EXCEPT ![w] = "idle"]
        /\ lockedBy' = [lockedBy EXCEPT ![sub[w]] = None]
        /\ sub' = [sub EXCEPT ![w] = NoSub]
    BY <1>0, <1>7, EndsWorkers DEF Return, LockHeld
  <2> QED BY <1>0, <2>1 DEF LockHeld, Held
<1>8. UNCHANGED vars => UNCHANGED <<lockedBy, workers, crashes>>
  BY DEF vars, workers
<1> QED
  BY <1>1, <1>2, <1>3, <1>4, <1>5, <1>6, <1>7, <1>8, NextCases, ElsewhereWorkers

\* Two workers past Acquire work on different subscriptions.
LEMMA Exclusive ==
    ASSUME RefreshInv, NEW v \in Workers, NEW w \in Workers, v # w,
           pc[v] \in Held, pc[w] \in Held
    PROVE  sub[v] # sub[w]
  BY DEF RefreshInv, LockHeld

\* What is written and committed was loaded before.
LEMMA PreparedStep == RefreshInv /\ [Next]_vars => Prepared'
<1> SUFFICES ASSUME RefreshInv, [Next]_vars PROVE Prepared'
  OBVIOUS
<1>0. /\ pc \in [Workers -> Steps]
      /\ content \in [Workers -> Contents \cup {None}]
      /\ written \in [Workers -> BOOLEAN]
      /\ artifact \in [Subs -> SUBSET Contents]
      /\ Prepared
  BY DEF RefreshInv, TypeOK
<1>1. CASE UNCHANGED <<lockedBy, workers, crashes>>
  BY <1>0, <1>1 DEF workers, Prepared
<1>2. CASE Crash
  BY <1>2 DEF Crash, Prepared
<1>3. ASSUME NEW w \in Workers, Begins(w) \/ Acquire(w) \/ ReadRow(w) PROVE Prepared'
  <2>1. /\ UNCHANGED <<content, written>>
        /\ \/ pc' = [pc EXCEPT ![w] = "lock"] \/ pc' = [pc EXCEPT ![w] = "read"]
           \/ pc' = [pc EXCEPT ![w] = "load"]
    BY <1>3 DEF Begins, Dequeue, Request, Begin, Acquire, ReadRow
  <2> QED BY <1>0, <2>1 DEF Prepared
<1>4. ASSUME NEW w \in Workers, (\E c \in Contents : LoadContent(w, c)) \/ LoadNotModified(w)
      PROVE  Prepared'
  <2>1. PICK c \in Contents :
            /\ content' = [content EXCEPT ![w] = c]
            /\ pc' = [pc EXCEPT ![w] = "write"] \/ pc' = [pc EXCEPT ![w] = "activate"]
            /\ UNCHANGED written
    <3>1. CASE LoadNotModified(w)
      <4>1. sub[w] \in Subs
        BY <3>1 DEF LoadNotModified, RefreshInv, LockHeld
      <4>2. record[w].last \in Contents
        BY <1>0, <3>1, <4>1 DEF LoadNotModified
      <4> QED BY <3>1, <4>2 DEF LoadNotModified, Proceed
    <3> QED BY <1>4, <3>1 DEF LoadContent, Proceed
  <2> QED BY <1>0, <2>1 DEF Prepared
<1>5. ASSUME NEW w \in Workers, Write(w) PROVE Prepared'
  BY <1>0, <1>5 DEF Write, Proceed, Prepared
<1>6. ASSUME NEW w \in Workers,
             \/ LoadFails(w) \/ WriteFails(w) \/ Commit(w) \/ CommitFails(w)
             \/ Activate(w) \/ ActivateFails(w)
      PROVE  Prepared'
  <2>1. /\ UNCHANGED content
        /\ UNCHANGED written \/ written' = [written EXCEPT ![w] = FALSE]
        /\ pc' = [pc EXCEPT ![w] = "mark"] \/ pc' = [pc EXCEPT ![w] = "apply"]
    BY <1>6 DEF LoadFails, WriteFails, Commit, CommitFails, Activate, ActivateFails,
                Proceed
  <2> QED BY <1>0, <2>1 DEF Prepared
<1>7. ASSUME NEW w \in Workers, Ends(w) PROVE Prepared'
  <2>1. /\ pc' = [pc EXCEPT ![w] = "idle"]
        /\ content' = [content EXCEPT ![w] = None]
        /\ written' = [written EXCEPT ![w] = FALSE]
    BY <1>7, EndsWorkers DEF Return
  <2> QED BY <1>0, <2>1 DEF Prepared
<1>8. UNCHANGED vars => UNCHANGED <<lockedBy, workers, crashes>>
  BY DEF vars, workers
<1> QED
  BY <1>1, <1>2, <1>3, <1>4, <1>5, <1>6, <1>7, <1>8, NextCases, ElsewhereWorkers
  DEF Advances

\* Snapshot rows and their files: only a commit adds a row, with its file, and
\* only a deletion forgets files, with their rows.
LEMMA FilesStep == RefreshInv /\ [Next]_vars => SnapshotsHaveFiles'
<1> SUFFICES ASSUME RefreshInv, [Next]_vars PROVE SnapshotsHaveFiles'
  OBVIOUS
<1>0. /\ snapshot \in [Subs -> [Contents -> {"none", "active", "retired"}]]
      /\ artifact \in [Subs -> SUBSET Contents]
      /\ SnapshotsHaveFiles
  BY DEF RefreshInv, TypeOK, InventoryTypeOK
<1>1. CASE UNCHANGED <<snapshot, artifact>>
  BY <1>0, <1>1 DEF SnapshotsHaveFiles
<1>2. ASSUME NEW s \in Subs, Delete(s) PROVE SnapshotsHaveFiles'
  <2>1. /\ snapshot' = [snapshot EXCEPT ![s] = [c \in Contents |-> "none"]]
        /\ artifact' = [artifact EXCEPT ![s] = {}]
    BY <1>2 DEF Delete, DeleteSubscription
  <2> QED BY <1>0, <2>1 DEF SnapshotsHaveFiles
<1>3. ASSUME NEW w \in Workers, Commit(w) \/ Activate(w) PROVE SnapshotsHaveFiles'
  <2>1. PICK s \in Subs : s = sub[w]
    BY <1>3 DEF Commit, Activate, RefreshInv, LockHeld
  <2>2. PICK c \in Contents : c = content[w]
    BY <1>3 DEF Commit, Activate, RefreshInv, Prepared
  <2>3. snapshot' = [snapshot EXCEPT ![s] =
            [d \in Contents |-> IF d = c THEN "active"
                                ELSE IF @[d] = "active" THEN "retired" ELSE @[d]]]
    BY <1>3, <2>1, <2>2 DEF Commit, Activate, CommitSnapshot, ActivateSnapshot, Switch
  <2>4. artifact' = [artifact EXCEPT ![s] = @ \cup {c}]
        \/ (UNCHANGED artifact /\ c \in artifact[s])
    <3>1. CASE Commit(w)
      <4>1. written[w]
        BY <3>1 DEF Commit, RefreshInv, Prepared
      <4> QED BY <2>1, <2>2, <3>1, <4>1 DEF Commit
    <3>2. CASE Activate(w)
      BY <1>0, <2>1, <2>2, <3>2 DEF Activate, ActivateSnapshot, SnapshotsHaveFiles
    <3> QED BY <1>3, <3>1, <3>2
  <2>5. c \in artifact'[s] /\ \A t \in Subs : artifact[t] \subseteq artifact'[t]
    BY <1>0, <2>4
  <2>6. ASSUME NEW t \in Subs, NEW d \in Contents, snapshot'[t][d] # "none"
        PROVE  snapshot[t][d] # "none" \/ (t = s /\ d = c)
    BY <1>0, <2>3, <2>6
  <2> QED BY <1>0, <2>5, <2>6 DEF SnapshotsHaveFiles
<1>4. CASE Elsewhere
  <2>1. ASSUME NEW s \in Subs, Create(s) \/ Update(s) \/ Elapse(s) \/ Claim \/ Enqueue(s)
        PROVE  UNCHANGED <<snapshot, artifact>>
    BY <2>1 DEF Create, CreateSubscription, Update, Elapse, Claim, Enqueue, tables
  <2>2. Claim => UNCHANGED <<snapshot, artifact>>
    BY DEF Claim, tables
  <2> QED BY <1>1, <1>2, <1>4, <2>1, <2>2 DEF Elsewhere, Schedule
<1>5. CASE Crash
  <2>1. UNCHANGED <<snapshot, artifact>>
    BY <1>5 DEF Crash, DropChecks
  <2> QED BY <1>1, <2>1
<1>6. ASSUME NEW w \in Workers, Begins(w) \/ Acquire(w) \/ ReadRow(w) \/ Ends(w)
      PROVE  UNCHANGED <<snapshot, artifact>>
  BY <1>6 DEF tables, Begins, Dequeue, Request, Begin, Acquire, ReadRow, Ends,
              ReadRefused, ReadFails, Mark, Apply, Abandon
<1>7. ASSUME NEW w \in Workers, Advances(w), ~Commit(w), ~Activate(w)
      PROVE  UNCHANGED <<snapshot, artifact>>
  BY <1>7 DEF tables, Advances, LoadContent, LoadNotModified, LoadFails, Write,
              WriteFails, CommitFails, ActivateFails
<1>8. CASE UNCHANGED vars
  BY <1>1, <1>8 DEF vars
<1> QED BY <1>1, <1>3, <1>4, <1>5, <1>6, <1>7, <1>8, NextCases

\* A refresh is past its read for the same subscription with the same record
\* after a step, or it has just read.
LEMMA StillInformed ==
    ASSUME RefreshInv, [Next]_vars, NEW v \in Workers, pc'[v] \in Informed
    PROVE  /\ sub[v] \in Subs /\ pc[v] \in Held /\ sub'[v] = sub[v]
           /\ \/ pc[v] \in Informed /\ record'[v] = record[v]
              \/ ReadRow(v)
<1> DEFINE Kept == /\ sub[v] \in Subs /\ pc[v] \in Held /\ sub'[v] = sub[v]
                   /\ \/ pc[v] \in Informed /\ record'[v] = record[v]
                      \/ ReadRow(v)
<1>0. /\ pc \in [Workers -> Steps]
      /\ sub \in [Workers -> Subs \cup {NoSub}]
      /\ DOMAIN record = Workers
      /\ pc[v] # "idle" => sub[v] \in Subs
      /\ pc'[v] \in Informed
  BY DEF RefreshInv, TypeOK, LockHeld
<1>1. CASE UNCHANGED <<lockedBy, workers, crashes>>
  BY <1>0, <1>1 DEF workers, Held, Informed
<1>2. CASE Crash
  <2>1. pc'[v] = "idle"
    BY <1>2 DEF Crash
  <2> QED BY <1>0, <2>1 DEF Informed
<1>3. ASSUME NEW w \in Workers, Begins(w) \/ Acquire(w) PROVE Kept
  <2>1. \/ pc' = [pc EXCEPT ![w] = "lock"] /\ w # v => sub'[v] = sub[v]
        \/ pc' = [pc EXCEPT ![w] = "read"] /\ sub' = sub
    BY <1>0, <1>3 DEF Begins, Dequeue, Request, Begin, Acquire
  <2>2. UNCHANGED record /\ (pc' = [pc EXCEPT ![w] = "lock"] \/ pc' = [pc EXCEPT ![w] = "read"])
    BY <1>3 DEF Begins, Dequeue, Request, Begin, Acquire
  <2>3. v # w
    BY <1>0, <2>2 DEF Informed
  <2>4. sub'[v] = sub[v]
    BY <1>0, <1>3, <2>3 DEF Begins, Dequeue, Request, Begin, Acquire
  <2> QED BY <1>0, <2>2, <2>3, <2>4 DEF Held, Informed
<1>4. ASSUME NEW w \in Workers, ReadRow(w) PROVE Kept
  <2>1. CASE v = w
    BY <1>0, <1>4, <2>1 DEF ReadRow, Held
  <2>2. CASE v # w
    BY <1>0, <1>4, <2>2 DEF ReadRow, Held, Informed
  <2> QED BY <2>1, <2>2
<1>5. ASSUME NEW w \in Workers, Advances(w) PROVE Kept
  BY <1>0, <1>5, AdvancesWorkers DEF Held, Informed
<1>6. ASSUME NEW w \in Workers, Ends(w) PROVE Kept
  <2>1. /\ pc' = [pc EXCEPT ![w] = "idle"]
        /\ sub' = [sub EXCEPT ![w] = NoSub]
        /\ record' = [record EXCEPT ![w] = NoRecord]
    BY <1>6, EndsWorkers DEF Return
  <2>2. v # w
    BY <1>0, <2>1 DEF Informed
  <2> QED BY <1>0, <2>1, <2>2 DEF Held, Informed
<1>7. UNCHANGED vars => UNCHANGED <<lockedBy, workers, crashes>>
  BY DEF vars, workers
<1> QED
  BY <1>1, <1>2, <1>3, <1>4, <1>5, <1>6, <1>7, NextCases, ElsewhereWorkers

\* An id is new only until its row is created.
LEMMA RowStep == RefreshInv /\ [Next]_vars => RowWasThere'
<1> SUFFICES ASSUME RefreshInv, [Next]_vars, NEW v \in Workers, pc'[v] \in Informed
             PROVE  row'[sub'[v]] # "new"
  BY DEF RowWasThere
<1>1. row[sub[v]] # "new"
  BY StillInformed DEF RefreshInv, RowWasThere, ReadRow
<1>2. row \in [Subs -> {"new", "live", "deleted"}]
  BY DEF RefreshInv, TypeOK, InventoryTypeOK
<1>3. UNCHANGED row
      \/ \E s \in Subs, r \in {"live", "deleted"} : row' = [row EXCEPT ![s] = r]
  BY TablesCases DEF inventory, CreateSubscription, DeleteSubscription, Commit, Activate,
     CommitSnapshot, ActivateSnapshot, Switch, DropChecks
<1> QED BY <1>1, <1>2, <1>3, StillInformed

\* The row of a live subscription changes, as far as a refresh reads it, only
\* by the one refresh that holds its lock, which is then no longer before its
\* result.
LEMMA RowWrites ==
    ASSUME RefreshInv, [Next]_vars, NEW v \in Workers, pc'[v] \in Informed,
           row[sub[v]] # "new", row'[sub[v]] = "live"
    PROVE  /\ row[sub[v]] = "live"
           /\ failed'[sub[v]] = failed[sub[v]] /\ last'[sub[v]] = last[sub[v]]
<1> DEFINE Same == /\ row[sub[v]] = "live"
                   /\ failed'[sub[v]] = failed[sub[v]] /\ last'[sub[v]] = last[sub[v]]
<1>0. /\ row \in [Subs -> {"new", "live", "deleted"}]
      /\ DOMAIN last = Subs /\ DOMAIN failed = Subs
      /\ pc \in [Workers -> Steps]
      /\ sub[v] \in Subs /\ pc[v] \in Held /\ pc'[v] \in Informed
      /\ row[sub[v]] # "new" /\ row'[sub[v]] = "live"
  BY StillInformed DEF RefreshInv, TypeOK, InventoryTypeOK
<1>1. CASE UNCHANGED <<row, last, failed>>
  BY <1>0, <1>1
<1>2. ASSUME NEW s \in Subs, Create(s) PROVE Same
  <2>1. row[s] = "new" /\ row' = [row EXCEPT ![s] = "live"] /\ UNCHANGED <<last, failed>>
    BY <1>2 DEF Create, CreateSubscription
  <2> QED BY <1>0, <2>1
<1>3. ASSUME NEW s \in Subs, Delete(s) PROVE Same
  <2>1. /\ row' = [row EXCEPT ![s] = "deleted"]
        /\ last' = [last EXCEPT ![s] = None]
        /\ failed' = [failed EXCEPT ![s] = 0]
    BY <1>3 DEF Delete, DeleteSubscription
  <2> QED BY <1>0, <2>1
<1>4. ASSUME NEW w \in Workers, Commit(w) \/ Activate(w) \/ Mark(w) PROVE Same
  <2>1. /\ pc[w] \in Held /\ sub[w] \in Subs
        /\ pc' = [pc EXCEPT ![w] = "apply"] \/ pc' = [pc EXCEPT ![w] = "idle"]
    BY <1>4 DEF Commit, Activate, Mark, Proceed, Return, Held, RefreshInv, LockHeld
  <2>2. v # w
    BY <1>0, <2>1 DEF Informed
  <2>3. sub[v] # sub[w]
    BY <1>0, <2>1, <2>2, Exclusive
  <2>4. UNCHANGED row
    BY <1>4 DEF Commit, Activate, Mark, CommitSnapshot, ActivateSnapshot, Switch, tables
  <2>5. UNCHANGED last \/ \E c \in Contents : last' = [last EXCEPT ![sub[w]] = c]
    <3>1. CASE Mark(w)
      BY <3>1 DEF Mark, tables
    <3>2. CASE Commit(w) \/ Activate(w)
      <4>1. content[w] \in Contents
        BY <3>2 DEF Commit, Activate, RefreshInv, Prepared
      <4> QED BY <3>2, <4>1 DEF Commit, Activate, CommitSnapshot, ActivateSnapshot, Switch
    <3> QED BY <1>4, <3>1, <3>2
  <2>6. failed'[sub[v]] = failed[sub[v]]
    BY <1>0, <1>4, <2>1, <2>3 DEF Commit, Activate, Mark, Succeeded
  <2> QED BY <1>0, <2>1, <2>3, <2>4, <2>5, <2>6
<1>5. CASE Elsewhere
  <2>1. ASSUME NEW s \in Subs, Update(s) \/ Elapse(s) \/ Enqueue(s)
        PROVE  UNCHANGED <<row, last, failed>>
    BY <2>1 DEF Update, Elapse, Enqueue, tables
  <2>2. Claim => UNCHANGED <<row, last, failed>>
    BY DEF Claim, tables
  <2> QED BY <1>1, <1>2, <1>3, <1>5, <2>1, <2>2 DEF Elsewhere, Schedule
<1>6. CASE Crash
  <2>1. UNCHANGED <<row, last, failed>>
    BY <1>6 DEF Crash, DropChecks
  <2> QED BY <1>1, <2>1
<1>7. ASSUME NEW w \in Workers, ~Mark(w),
             Begins(w) \/ Acquire(w) \/ ReadRow(w) \/ Ends(w)
      PROVE  UNCHANGED <<row, last, failed>>
  BY <1>7 DEF tables, Begins, Dequeue, Request, Begin, Acquire, ReadRow, Ends,
              ReadRefused, ReadFails, Apply, Abandon
<1>8. ASSUME NEW w \in Workers, Advances(w), ~Commit(w), ~Activate(w)
      PROVE  UNCHANGED <<row, last, failed>>
  BY <1>8 DEF tables, Advances, LoadContent, LoadNotModified, LoadFails, Write,
              WriteFails, CommitFails, ActivateFails
<1>9. CASE UNCHANGED vars
  BY <1>1, <1>9 DEF vars
<1> QED BY <1>1, <1>4, <1>5, <1>6, <1>7, <1>8, <1>9, NextCases

\* So the record stays the row.
LEMMA RecordStep == RefreshInv /\ [Next]_vars => RecordIsCurrent'
<1> SUFFICES ASSUME RefreshInv, [Next]_vars, NEW v \in Workers,
                    pc'[v] \in Informed, row'[sub'[v]] = "live"
             PROVE  /\ record'[v].failed = failed'[sub'[v]]
                    /\ record'[v].last = last'[sub'[v]]
  BY DEF RecordIsCurrent, Informed
<1>1. row[sub[v]] # "new"
  BY StillInformed DEF RefreshInv, RowWasThere, ReadRow
<1>2. /\ sub'[v] = sub[v] /\ row[sub[v]] = "live"
      /\ failed'[sub[v]] = failed[sub[v]] /\ last'[sub[v]] = last[sub[v]]
  BY <1>1, StillInformed, RowWrites
<1>3. CASE pc[v] \in Informed /\ record'[v] = record[v]
  BY <1>2, <1>3 DEF RefreshInv, RecordIsCurrent, Informed
<1>4. CASE ReadRow(v)
  <2>1. record'[v] = [failed |-> failed[sub[v]], last |-> last[sub[v]]]
    BY <1>4 DEF ReadRow, RefreshInv, TypeOK
  <2> QED BY <1>2, <2>1
<1> QED BY <1>3, <1>4, StillInformed

-----------------------------------------------------------------------------
\* The inductive invariant holds throughout.
THEOREM RefreshInvariance == Spec => []RefreshInv
<1>1. Init => RefreshInv
  <2> SUFFICES ASSUME Init PROVE RefreshInv
    OBVIOUS
  <2>1. InventoryTypeOK
    BY InventoryAssumption DEF Init, InventoryInit, InventoryTypeOK, Usable, Quarantine
  <2>2. TypeOK
    BY <2>1, RefreshAssumption DEF Init, TypeOK, Steps, NoRecord
  <2>3. LockHeld /\ Prepared /\ RowWasThere /\ RecordIsCurrent
    BY DEF Init, LockHeld, Prepared, RowWasThere, RecordIsCurrent, Held, Informed
  <2>4. SnapshotsHaveFiles
    BY DEF Init, InventoryInit, SnapshotsHaveFiles
  <2> QED BY <2>2, <2>3, <2>4 DEF RefreshInv
<1>2. RefreshInv /\ [Next]_vars => RefreshInv'
  BY RefreshTypeStep, LockStep, PreparedStep, RowStep, RecordStep, FilesStep
  DEF RefreshInv
<1> QED BY <1>1, <1>2, PTL DEF Spec

\* Rows, jobs, locks and workers keep their types, through restarts.
THEOREM RefreshTyped == Spec => []TypeOK
  BY RefreshInvariance, PTL DEF RefreshInv

\* The row a refresh works from is the row, whoever updates, claims or
\* refreshes the subscription meanwhile: the lock excludes every other writer
\* of the failure count and of the last success.
THEOREM RecordIsCurrentHolds == Spec => []RecordIsCurrent
  BY RefreshInvariance, PTL DEF RefreshInv

\* Every snapshot row names a file on disk, whatever fails and whenever the
\* process dies.
THEOREM SnapshotsHaveFilesHolds == Spec => []SnapshotsHaveFiles
  BY RefreshInvariance, PTL DEF RefreshInv

\* Each step of a refresh is one transaction of the inventory or none, by the
\* way the steps are composed.
LEMMA InventoryImplemented == Spec => InventorySpec
<1>1. Init => InventoryInit
  BY DEF Init
<1>2. RefreshInv /\ [Next]_vars => [InventoryNext]_inventory
  BY InventoryStep
<1> QED BY <1>1, <1>2, RefreshInvariance, PTL DEF Spec, InventorySpec

\* What holds of the inventory therefore holds while subscriptions refresh.
THEOREM RefreshKeepsInventory ==
    Spec => [](ActiveIsLastSuccess /\ ListedNodesSurvive /\ VerdictMatchesHistory)
  BY InventoryImplemented, InventoryInvariance, PTL DEF IInv

=============================================================================
