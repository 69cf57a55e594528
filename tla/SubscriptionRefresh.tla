------------------------ MODULE SubscriptionRefresh ------------------------
(***************************************************************************)
(* Refreshing subscriptions: subscription.Service.Refresh, run by the      *)
(* scheduler's worker pool for claimed subscriptions and by API requests,  *)
(* over the transactions of NodeInventory.  A refresh holds the lock of    *)
(* its subscription from before it reads the row until Mihomo has been     *)
(* reconciled.  Update, Delete and ClaimDueSubscriptions take no lock, a   *)
(* claim is only an advance of next_refresh_at, and the raw source is      *)
(* written to a file before the row that names it is committed.            *)
(*                                                                         *)
(* The node side of the inventory (administrators, quality checks,         *)
(* residential sessions) touches no subscription and no refresh reads it;  *)
(* NodeInventory interleaves it with these transactions.                   *)
(***************************************************************************)
EXTENDS NodeInventory, Sequences

CONSTANTS Pool,         \* the scheduler's workers
          Callers,      \* goroutines of POST /subscriptions/{id}/refresh
          QueueSize,    \* capacity of the jobs channel
          MaxFailures,  \* bound: consecutive_failures saturates here
          MaxCrashes,   \* bound: restarts of the control plane
          NoSub         \* no subscription

Workers == Pool \cup Callers

ASSUME RefreshAssumption ==
    /\ Pool \cap Callers = {}
    /\ QueueSize \in Nat \ {0} /\ MaxFailures \in Nat /\ MaxCrashes \in Nat
    /\ NoSub \notin Subs /\ None \notin Workers

VARIABLES
    enabled,    \* subscriptions.enabled
    due,        \* subscriptions.next_refresh_at has passed
    failed,     \* subscriptions.consecutive_failures, up to MaxFailures
    artifact,   \* per subscription: contents whose row names an existing file
    claimed,    \* subscriptions the poller still has to enqueue
    queue,      \* the jobs channel
    lockedBy,   \* per subscription: the worker inside Refresh
    pc, sub,    \* per worker: its step and its subscription
    record,     \* per worker: the row it read
    content,    \* per worker: what it loaded
    written,    \* per worker: the artifact of its new snapshot is on disk
    crashes     \* restarts so far

tables == <<row, last, snapshot, lifecycle, failures, checks>>
schedule == <<claimed, queue>>
workers == <<pc, sub, record, content, written>>
vars == <<row, last, snapshot, lifecycle, failures, checks, enabled, due, failed,
          artifact, claimed, queue, lockedBy, pc, sub, record, content, written, crashes>>

Steps == {"idle", "lock", "read", "load", "write", "commit", "activate", "mark", "apply"}
NoRecord == [failed |-> 0, last |-> None]

TypeOK ==
    /\ InventoryTypeOK
    /\ enabled \in [Subs -> BOOLEAN]
    /\ due \in [Subs -> BOOLEAN]
    /\ failed \in [Subs -> 0..MaxFailures]
    /\ artifact \in [Subs -> SUBSET Contents]
    /\ claimed \subseteq Subs
    /\ queue \in Seq(Subs) /\ Len(queue) <= QueueSize
    /\ lockedBy \in [Subs -> Workers \cup {None}]
    /\ pc \in [Workers -> Steps]
    /\ sub \in [Workers -> Subs \cup {NoSub}]
    /\ record \in [Workers -> [failed : 0..MaxFailures, last : Contents \cup {None}]]
    /\ content \in [Workers -> Contents \cup {None}]
    /\ written \in [Workers -> BOOLEAN]
    /\ crashes \in 0..MaxCrashes

Init ==
    /\ InventoryInit
    /\ enabled = [s \in Subs |-> FALSE]
    /\ due = [s \in Subs |-> FALSE]
    /\ failed = [s \in Subs |-> 0]
    /\ artifact = [s \in Subs |-> {}]
    /\ claimed = {}
    /\ queue = <<>>
    /\ lockedBy = [s \in Subs |-> None]
    /\ pc = [w \in Workers |-> "idle"]
    /\ sub = [w \in Workers |-> NoSub]
    /\ record = [w \in Workers |-> NoRecord]
    /\ content = [w \in Workers |-> None]
    /\ written = [w \in Workers |-> FALSE]
    /\ crashes = 0

-----------------------------------------------------------------------------
(* Administrators, without the subscription's lock.                        *)

Create(s) ==
    /\ CreateSubscription(s)
    /\ enabled' \in {[enabled EXCEPT ![s] = e] : e \in BOOLEAN}
    /\ due' = [due EXCEPT ![s] = TRUE]
    /\ UNCHANGED <<failed, artifact, schedule, lockedBy, workers, crashes>>

\* UpdateSubscription at the current version; a stale one changes nothing.
Update(s) ==
    /\ row[s] = "live"
    /\ enabled' \in {[enabled EXCEPT ![s] = e] : e \in BOOLEAN}
    /\ due' = [due EXCEPT ![s] = TRUE]
    /\ UNCHANGED <<tables, failed, artifact, schedule, lockedBy, workers, crashes>>

\* The rows go, the files in the snapshot directory stay.
Delete(s) ==
    /\ DeleteSubscription(s)
    /\ enabled' = [enabled EXCEPT ![s] = FALSE]
    /\ due' = [due EXCEPT ![s] = FALSE]
    /\ failed' = [failed EXCEPT ![s] = 0]
    /\ artifact' = [artifact EXCEPT ![s] = {}]
    /\ UNCHANGED <<schedule, lockedBy, workers, crashes>>

-----------------------------------------------------------------------------
(* The scheduler.                                                          *)

\* next_refresh_at passes: a retry, the regular slot, or the five-minute lease
\* of a claim whose refresh has not ended.
Elapse(s) ==
    /\ row[s] = "live" /\ ~due[s]
    /\ due' = [due EXCEPT ![s] = TRUE]
    /\ UNCHANGED <<tables, enabled, failed, artifact, schedule, lockedBy, workers, crashes>>

Claimable == {s \in Subs : row[s] = "live" /\ enabled[s] /\ due[s]}

\* ClaimDueSubscriptions: one transaction for the batch.
Claim ==
    /\ claimed = {} /\ Claimable # {}
    /\ due' = [s \in Subs |-> due[s] /\ s \notin Claimable]
    /\ claimed' = Claimable
    /\ UNCHANGED <<tables, enabled, failed, artifact, queue, lockedBy, workers, crashes>>

\* Mutant: the channel has no bound.
EnqueueUnbounded(s) ==
    /\ s \in claimed
    /\ claimed' = claimed \ {s}
    /\ queue' = Append(queue, s)
    /\ UNCHANGED <<tables, enabled, due, failed, artifact, lockedBy, workers, crashes>>

\* The poller blocks while the channel is full.
Enqueue(s) ==
    /\ s \in claimed
    /\ Len(queue) < QueueSize
    /\ claimed' = claimed \ {s}
    /\ queue' = Append(queue, s)
    /\ UNCHANGED <<tables, enabled, due, failed, artifact, lockedBy, workers, crashes>>

Begin(w, s) ==
    /\ pc[w] = "idle"
    /\ pc' = [pc EXCEPT ![w] = "lock"]
    /\ sub' = [sub EXCEPT ![w] = s]
    /\ UNCHANGED <<tables, enabled, due, failed, artifact, claimed, lockedBy,
                   record, content, written, crashes>>

Dequeue(w) ==
    /\ w \in Pool
    /\ queue # <<>>
    /\ Begin(w, Head(queue))
    /\ queue' = Tail(queue)

Request(w, s) ==
    /\ w \in Callers
    /\ row[s] = "live"
    /\ Begin(w, s)
    /\ UNCHANGED queue

-----------------------------------------------------------------------------
(* Refresh.                                                                *)

\* Mutant: the subscription is not locked.
AcquireUnlocked(w) ==
    /\ pc[w] = "lock"
    /\ lockedBy' = [lockedBy EXCEPT ![sub[w]] = w]
    /\ pc' = [pc EXCEPT ![w] = "read"]
    /\ UNCHANGED <<tables, enabled, due, failed, artifact, schedule,
                   sub, record, content, written, crashes>>

\* refreshLocks.lock(id).
Acquire(w) ==
    /\ pc[w] = "lock"
    /\ lockedBy[sub[w]] = None
    /\ lockedBy' = [lockedBy EXCEPT ![sub[w]] = w]
    /\ pc' = [pc EXCEPT ![w] = "read"]
    /\ UNCHANGED <<tables, enabled, due, failed, artifact, schedule,
                   sub, record, content, written, crashes>>

\* Every return of Refresh, with the deferred unlock.  A file written for a
\* snapshot that was not committed is removed.
Return(w) ==
    /\ pc' = [pc EXCEPT ![w] = "idle"]
    /\ lockedBy' = [lockedBy EXCEPT ![sub[w]] = None]
    /\ sub' = [sub EXCEPT ![w] = NoSub]
    /\ record' = [record EXCEPT ![w] = NoRecord]
    /\ content' = [content EXCEPT ![w] = None]
    /\ written' = [written EXCEPT ![w] = FALSE]

Proceed(w, step) ==
    /\ pc' = [pc EXCEPT ![w] = step]
    /\ UNCHANGED <<sub, record, lockedBy>>

ReadRow(w) ==
    /\ pc[w] = "read"
    /\ row[sub[w]] = "live" /\ enabled[sub[w]]
    /\ record' = [record EXCEPT ![w] =
                      [failed |-> failed[sub[w]], last |-> last[sub[w]]]]
    /\ pc' = [pc EXCEPT ![w] = "load"]
    /\ UNCHANGED <<tables, enabled, due, failed, artifact, schedule, lockedBy,
                   sub, content, written, crashes>>

\* Deleted or disabled meanwhile.
ReadRefused(w) ==
    /\ pc[w] = "read"
    /\ ~(row[sub[w]] = "live" /\ enabled[sub[w]])
    /\ Return(w)
    /\ UNCHANGED <<tables, enabled, due, failed, artifact, schedule, crashes>>

\* The database fails: no attempt is recorded, the lease of the claim decides
\* when it is tried again.
ReadFails(w) ==
    /\ pc[w] = "read"
    /\ Return(w)
    /\ UNCHANGED <<tables, enabled, due, failed, artifact, schedule, crashes>>

\* New or changed content that parses to some node.
LoadContent(w, c) ==
    /\ pc[w] = "load"
    /\ content' = [content EXCEPT ![w] = c]
    /\ Proceed(w, IF snapshot[sub[w]][c] = "none" THEN "write" ELSE "activate")
    /\ UNCHANGED <<tables, enabled, due, failed, artifact, schedule, written, crashes>>

\* 304: the artifact of the snapshot the condition came from is parsed again.
LoadNotModified(w) ==
    /\ pc[w] = "load"
    /\ record[w].last # None
    /\ record[w].last \in artifact[sub[w]]
    /\ content' = [content EXCEPT ![w] = record[w].last]
    /\ Proceed(w, "activate")
    /\ UNCHANGED <<tables, enabled, due, failed, artifact, schedule, written, crashes>>

\* The source fails, has no usable node, or is "not modified" for no snapshot.
LoadFails(w) ==
    /\ pc[w] = "load"
    /\ Proceed(w, "mark")
    /\ UNCHANGED <<tables, enabled, due, failed, artifact, schedule, content, written, crashes>>

\* writeSnapshot: temporary file, fsync, rename.
Write(w) ==
    /\ pc[w] = "write"
    /\ written' = [written EXCEPT ![w] = TRUE]
    /\ Proceed(w, "commit")
    /\ UNCHANGED <<tables, enabled, due, failed, artifact, schedule, content, crashes>>

WriteFails(w) ==
    /\ pc[w] = "write"
    /\ Proceed(w, "mark")
    /\ UNCHANGED <<tables, enabled, due, failed, artifact, schedule, content, written, crashes>>

\* activateSubscriptionAfterSnapshot, in the transaction of the snapshot.
Succeeded(s) ==
    /\ failed' = [failed EXCEPT ![s] = 0]
    /\ due' = [due EXCEPT ![s] = FALSE]

\* Mutant: the row is committed before the file is written.
CommitUnwritten(w) ==
    /\ pc[w] \in {"write", "commit"}
    /\ CommitSnapshot(sub[w], content[w])
    /\ Succeeded(sub[w])
    /\ artifact' = [artifact EXCEPT ![sub[w]] =
                        IF written[w] THEN @ \cup {content[w]} ELSE @]
    /\ written' = [written EXCEPT ![w] = FALSE]
    /\ Proceed(w, "apply")
    /\ UNCHANGED <<enabled, schedule, content, crashes>>

Commit(w) ==
    /\ pc[w] = "commit"
    /\ CommitSnapshot(sub[w], content[w])
    /\ Succeeded(sub[w])
    /\ artifact' = [artifact EXCEPT ![sub[w]] =
                        IF written[w] THEN @ \cup {content[w]} ELSE @]
    /\ written' = [written EXCEPT ![w] = FALSE]
    /\ Proceed(w, "apply")
    /\ UNCHANGED <<enabled, schedule, content, crashes>>

\* The subscription is gone (foreign key), or the database fails; the file is
\* removed.
CommitFails(w) ==
    /\ pc[w] = "commit"
    /\ written' = [written EXCEPT ![w] = FALSE]
    /\ Proceed(w, "mark")
    /\ UNCHANGED <<tables, enabled, due, failed, artifact, schedule, content, crashes>>

Activate(w) ==
    /\ pc[w] = "activate"
    /\ ActivateSnapshot(sub[w], content[w])
    /\ Succeeded(sub[w])
    /\ Proceed(w, "apply")
    /\ UNCHANGED <<enabled, artifact, schedule, content, written, crashes>>

ActivateFails(w) ==
    /\ pc[w] = "activate"
    /\ Proceed(w, "mark")
    /\ UNCHANGED <<tables, enabled, due, failed, artifact, schedule, content, written, crashes>>

\* Mutant: a failed refresh keeps the lock.
MarkLocked(w) ==
    /\ pc[w] = "mark"
    /\ pc' = [pc EXCEPT ![w] = "idle"]
    /\ UNCHANGED <<tables, enabled, due, failed, artifact, schedule, lockedBy,
                   sub, record, content, written, crashes>>

\* refreshFailed: the retry is computed from the count that was read, the
\* count in the row is incremented.
Mark(w) ==
    /\ pc[w] = "mark"
    /\ IF row[sub[w]] = "live"
       THEN /\ failed' = [failed EXCEPT ![sub[w]] = IF @ < MaxFailures THEN @ + 1 ELSE @]
            /\ due' = [due EXCEPT ![sub[w]] = FALSE]
       ELSE UNCHANGED <<failed, due>>
    /\ Return(w)
    /\ UNCHANGED <<tables, enabled, artifact, schedule, crashes>>

\* The deferred Apply: its failure is Refresh's error, the snapshot stays.
Apply(w) ==
    /\ pc[w] = "apply"
    /\ Return(w)
    /\ UNCHANGED <<tables, enabled, due, failed, artifact, schedule, crashes>>

\* The request's context ends: its step fails, and so does refreshFailed.
Abandon(w) ==
    /\ w \in Callers
    /\ pc[w] \in {"read", "load", "write", "commit", "activate", "mark"}
    /\ Return(w)
    /\ UNCHANGED <<tables, enabled, due, failed, artifact, schedule, crashes>>

\* The process dies: leases and committed rows remain, a file that no row
\* names yet is left behind.
Crash ==
    /\ crashes < MaxCrashes
    /\ crashes' = crashes + 1
    /\ claimed' = {}
    /\ queue' = <<>>
    /\ lockedBy' = [s \in Subs |-> None]
    /\ pc' = [w \in Workers |-> "idle"]
    /\ sub' = [w \in Workers |-> NoSub]
    /\ record' = [w \in Workers |-> NoRecord]
    /\ content' = [w \in Workers |-> None]
    /\ written' = [w \in Workers |-> FALSE]
    /\ DropChecks
    /\ UNCHANGED <<enabled, due, failed, artifact>>

-----------------------------------------------------------------------------
Step(w) ==
    \/ ReadRow(w) \/ ReadRefused(w) \/ ReadFails(w)
    \/ \E c \in Contents : LoadContent(w, c)
    \/ LoadNotModified(w) \/ LoadFails(w)
    \/ Write(w) \/ WriteFails(w)
    \/ Commit(w) \/ CommitFails(w) \/ Activate(w) \/ ActivateFails(w)
    \/ Mark(w) \/ Apply(w)

Schedule == Claim \/ \E s \in Subs : Enqueue(s)

Environment ==
    \/ \E s \in Subs : Create(s) \/ Update(s) \/ Delete(s) \/ Elapse(s)
    \/ \E w \in Callers : (\E s \in Subs : Request(w, s)) \/ Abandon(w)
    \/ Crash

Next ==
    \/ Environment \/ Schedule
    \/ \E w \in Workers : Dequeue(w) \/ Acquire(w) \/ Step(w)

Spec == Init /\ [][Next]_vars

\* Time passes, the poller polls, every step of a refresh has a timeout, a
\* sync.Mutex hands itself to a goroutine that has waited for long, and the
\* database does not refuse the same read for ever.
FairSpec ==
    /\ Spec
    /\ \A s \in Subs : WF_vars(Elapse(s)) /\ WF_vars(Enqueue(s))
    /\ WF_vars(Claim)
    /\ \A w \in Workers : WF_vars(Dequeue(w)) /\ WF_vars(Step(w)) /\ SF_vars(Acquire(w))
    /\ \A w \in Workers, s \in Subs : SF_vars(sub[w] = s /\ ReadRow(w))

-----------------------------------------------------------------------------
(* What refreshing promises.                                               *)

\* The row a refresh works from is still the row, as far as refreshes write it:
\* the backoff is computed from the real failure count and a 304 is answered
\* for the snapshot that is still the last success.  Only a deletion makes it
\* stale.
RecordIsCurrent ==
    \A w \in Workers :
        pc[w] \in {"load", "write", "commit", "activate", "mark"}
            /\ row[sub[w]] = "live" =>
                /\ record[w].failed = failed[sub[w]]
                /\ record[w].last = last[sub[w]]

\* docs/SUBSCRIPTIONS.md 6: every snapshot row names a file that exists,
\* whatever fails and whenever the process dies: a 304 reads it.
SnapshotsHaveFiles ==
    \A s \in Subs : \A c \in Contents :
        snapshot[s][c] # "none" => c \in artifact[s]

\* The source is being loaded.
Attempt(s) == \E w \in Workers : sub[w] = s /\ pc[w] = "load"

\* An enabled subscription is attempted again and again, through leases lost
\* in a crash, a full queue, failures, and requests that hold its lock or are
\* abandoned.
KeepsRefreshing ==
    \A s \in Subs : []<>(row[s] # "live" \/ ~enabled[s] \/ Attempt(s))

=============================================================================
