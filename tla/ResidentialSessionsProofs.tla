--------------------- MODULE ResidentialSessionsProofs ---------------------
(***************************************************************************)
(* Proofs about ResidentialSessions, for any number of windows, nodes and  *)
(* consumers, every pool size and any number of requests, leases, faults   *)
(* and crashes.                                                            *)
(***************************************************************************)
EXTENDS ResidentialSessions, FiniteSetTheorems, TLAPS

-----------------------------------------------------------------------------
(* The inductive invariant.                                                *)

\* Which job is at which step.
JobsFit ==
    /\ At("idle") => op = Idle
    /\ At("next") => /\ op.by \in Passes
                     /\ op.node = None /\ op.prev = Lazy /\ op.saw = "any"
    /\ op.pc \in {"clear", "allocate", "write"} => op.job \in {"replace", "create"}
    /\ At("clear") => op.job = "replace" /\ op.by \notin {"expire", "resize"}
    /\ At("delete") => op.job = "remove"
    /\ At("route") => op.job = "route" /\ op.to \in Routes
    /\ At("commit") => op.job = "route"
    /\ At("publish") => op.job \in {"replace", "create", "remove", "released", "repair"}
    /\ At("restore") => op.job \in {"replace", "create", "remove", "route"}
    /\ At("discard") => op.job \in {"replace", "create"}
    /\ op.pc \in {"release", "close"} => op.job \in {"replace", "remove", "route"}
    /\ op.pc \in {"next", "clear", "allocate", "write", "delete", "route", "release", "close"}
           => ~ op.undo
    /\ op.pc \in {"restore", "discard"} => op.undo

\* The former row may still be put back.
Revocable ==
    \/ op.pc \in {"allocate", "write", "delete", "route", "restore"}
    \/ op.pc \in {"publish", "commit"} /\ ~ op.undo /\ op.job \notin {"released", "repair"}

Replacing == op.job \in {"replace", "route"} /\ (At("clear") \/ Revocable)

\* Which rows exist.
RowsFit ==
    /\ Replacing \/ At("delete") => op.s \in DOMAIN rows
    /\ op.job = "create" /\ op.pc \in {"allocate", "write"} => op.s \notin DOMAIN rows
    /\ op.job = "remove" /\ Revocable /\ ~ At("delete") => op.s \notin DOMAIN rows
    /\ DOMAIN op.rest \subseteq DOMAIN rows
    /\ op.todo \cap DOMAIN rows = {}
    /\ ~ At("next") => op.s \notin DOMAIN op.rest \cup op.todo

\* Rows that may be put back have leases that were issued.
LeasesIssued ==
    /\ op.prev.lease \in issued \cup {None}
    /\ \A s \in DOMAIN op.rest : op.rest[s].lease \in issued \cup {None}

\* A row that may be put back has the lease of the row it replaces.
LeaseKept ==
    /\ ~ raced /\ Replacing /\ ~ At("clear") => rows[op.s].lease = op.prev.lease

\* The leases of a holder are numbered from 1 without gaps.
Of(h) == {l \in issued : l[1] = h}

LeasesCounted ==
    \A h \in Holders :
        /\ IsFiniteSet(Of(h))
        /\ \A l \in Of(h) : l[2] <= Cardinality(Of(h))

\* What checkSessionGuard found still holds until the row is written.
GuardHolds ==
    /\ op.saw # "any" => op.by = "guarded"
    /\ op.by = "guarded" =>
        /\ op.job \in {"replace", "route"}
        /\ op.pc \in {"clear", "allocate", "write", "route"}
        /\ LeaseActive(op.s) => rows[op.s].lease = op.lease
        /\ op.saw # "any" => rows[op.s].node \in {op.saw, None}

\* A row of the version a consumer has read has the node it has read.
Known(row) ==
    /\ row.version >= seen.version
    /\ row.version = seen.version => row.node = seen.node

SeenKnown ==
    seen # None /\ seen.sound =>
        /\ seen.s \in DOMAIN rows
        /\ Known(rows[seen.s])
        /\ Replacing /\ ~ At("clear") /\ op.s = seen.s => Known(op.prev)

\* The node a row names is there: of the rows, of the node just allocated and
\* of every row that may be put back.
Backed(n) == n # None => nodes[n] # "absent"

NodesBacked ==
    ~ raced =>
        /\ \A s \in DOMAIN rows : Backed(rows[s].node)
        /\ At("write") => Backed(op.node)
        /\ Revocable => Backed(op.prev.node)
        /\ op.by \in {"expire", "resize"} =>
               \A s \in DOMAIN op.rest : op.rest[s].node = rows[s].node

\* The data plane serves the rows.
Serves ==
    \A s \in Sessions :
        IF s \notin DOMAIN rows THEN served[s] = "group"
        ELSE IF ~ Residential(s) THEN served[s] = rows[s].route
        ELSE rows[s].node \in Usable => served[s] = rows[s].node

\* Between the first change of a request and its last publication it need not.
Unsettled == op.pc \in {"write", "publish", "commit", "restore", "discard"}

ServesSettled == published /\ ~ Unsettled => Serves

SessionsInv ==
    /\ TypeOK
    /\ JobsFit
    /\ RowsFit
    /\ LeasesIssued
    /\ LeaseKept
    /\ LeasesCounted
    /\ GuardHolds
    /\ SeenKnown
    /\ NodesBacked
    /\ ServesSettled

-----------------------------------------------------------------------------
(* Rows and requests keep their types.                                     *)

\* Every change of a row gives a row.
LEMMA RowTyped ==
    ASSUME NEW row \in Row, NEW n \in Nodes \cup {None}, NEW to \in Routes
    PROVE  /\ Lazy \in Row /\ [Lazy EXCEPT !.node = n] \in Row
           /\ Cleared(row) \in Row /\ Moved(row, n) \in Row /\ Routed(row, to) \in Row
           /\ [row EXCEPT !.expired = TRUE] \in Row
           /\ \A l \in Leases \cup {None} : [row EXCEPT !.lease = l] \in Row
  <1>1. Lazy \in Row /\ [Lazy EXCEPT !.node = n] \in Row
    BY DEF Row, Lazy, Routes
  <1>0. row.version + 1 \in Nat
    BY DEF Row
  <1>2. Cleared(row) \in Row
    BY <1>0 DEF Row, Cleared
  <1>3. Moved(row, n) \in Row
    BY <1>0 DEF Row, Moved, Routes
  <1>4. Routed(row, to) \in Row
    BY <1>0 DEF Row, Routed
  <1>5. [row EXCEPT !.expired = TRUE] \in Row
    BY DEF Row
  <1>6. \A l \in Leases \cup {None} : [row EXCEPT !.lease = l] \in Row
    BY DEF Row
  <1> QED
    BY <1>1, <1>2, <1>3, <1>4, <1>5, <1>6

\* What the changes of a row leave alone.
LEMMA RowChanges ==
    ASSUME NEW row \in Row, NEW n, NEW to
    PROVE  /\ Cleared(row).node = None /\ Cleared(row).route = row.route
           /\ Cleared(row).lease = None /\ Cleared(row).version = row.version + 1
           /\ Moved(row, n).node = n /\ Moved(row, n).route = "residential"
           /\ Moved(row, n).lease = row.lease /\ Moved(row, n).version = row.version + 1
           /\ Routed(row, to).node = None /\ Routed(row, to).route = to
           /\ Routed(row, to).lease = row.lease
           /\ Routed(row, to).version = row.version + 1
  BY DEF Row, Cleared, Moved, Routed

LEMMA PutTable ==
    ASSUME IsTable(rows), NEW s \in Sessions, NEW row \in Row
    PROVE  /\ IsTable(Put(s, row))
           /\ DOMAIN Put(s, row) = DOMAIN rows \cup {s}
           /\ Put(s, row)[s] = row
           /\ \A i \in DOMAIN rows \ {s} : Put(s, row)[i] = rows[i]
  BY DEF IsTable, Put

LEMMA WithoutTable ==
    ASSUME NEW table, IsTable(table), NEW s
    PROVE  /\ IsTable(Without(s, table))
           /\ DOMAIN Without(s, table) = DOMAIN table \ {s}
           /\ \A i \in DOMAIN table \ {s} : Without(s, table)[i] = table[i]
  BY DEF IsTable, Without

LEMMA RepairedTable ==
    ASSUME IsTable(rows)
    PROVE  /\ IsTable(Repaired) /\ DOMAIN Repaired = DOMAIN rows
           /\ \A s \in DOMAIN rows : Repaired[s] \in {rows[s], Cleared(rows[s])}
           /\ \A s \in DOMAIN rows : Repaired[s].node # None => Repaired[s] = rows[s]
  <1>1. \A s \in DOMAIN rows : rows[s] \in Row
    BY DEF IsTable
  <1>2. \A s \in DOMAIN rows : Cleared(rows[s]) \in Row /\ Cleared(rows[s]).node = None
    BY <1>1, RowTyped, RowChanges DEF Routes
  <1> QED
    BY <1>1, <1>2 DEF IsTable, Repaired

LEMMA NoRowsTable == IsTable(NoRows) /\ DOMAIN NoRows = {}
  BY DEF IsTable, NoRows

LEMMA IdleTyped == IsOp(Idle)
  BY NoRowsTable DEF IsOp, Idle, Steps, Passes, Row, Lazy, Routes

\* The request that holds the mutex is well formed.
OpFit ==
    /\ IsOp(op)
    /\ op.pc \notin {"idle", "next"} /\ op.job # "repair" => op.s \in Sessions
    /\ JobsFit

LEMMA IdleFits == op' = Idle => OpFit'
  <1>1. IsOp(Idle)
    BY IdleTyped
  <1>2. Idle.pc = "idle"
    BY DEF Idle
  <1> QED
    BY <1>1, <1>2 DEF OpFit, JobsFit, At

LEMMA OpFields ==
    ASSUME NEW o, IsOp(o)
    PROVE  /\ o.prev \in Row /\ IsTable(o.rest) /\ o.todo \subseteq Sessions
           /\ o.node \in Nodes \cup {None} /\ o.lease \in Leases \cup {None}
           /\ o.s \in Sessions \cup {None} /\ o.undo \in BOOLEAN
           /\ o.saw \in Nodes \cup {None, "any"} /\ o.first \in {"allocate", "write"}
  BY DEF IsOp

\* What a pass keeps for its next session.
LEMMA FinishFits == ASSUME OpFit, NEW ok, Finish(ok) PROVE OpFit'
  <1>1. CASE ok /\ op.by \in Passes
    <2>1. IsTable(op.rest) /\ op.by \in Passes /\ op.repaired \in BOOLEAN
          /\ op.todo \subseteq Sessions /\ op.first \in {"allocate", "write"}
      BY <1>1 DEF OpFit, IsOp
    <2>2. op' = [Idle EXCEPT !.pc = "next", !.by = op.by, !.repaired = op.repaired,
                            !.rest = op.rest, !.todo = op.todo, !.first = op.first]
      BY <1>1 DEF Finish
    <2>3. IsOp(op')
      BY <2>1, <2>2, IdleTyped DEF IsOp, Steps
    <2>4. op'.pc = "next" /\ op'.by \in Passes /\ ~ op'.undo
          /\ op'.node = None /\ op'.prev = Lazy /\ op'.saw = "any"
      BY <2>1, <2>2 DEF Idle
    <2> QED
      BY <2>3, <2>4 DEF OpFit, JobsFit, At
  <1>2. CASE ~ (ok /\ op.by \in Passes)
    BY <1>2, IdleFits DEF Finish
  <1> QED
    BY <1>1, <1>2

LEMMA GoTyped ==
    ASSUME OpFit, NEW pc \in Steps, Go(pc)
    PROVE  /\ IsOp(op') /\ op'.pc = pc /\ op'.undo = op.undo /\ op'.by = op.by
           /\ op'.job = op.job /\ op'.s = op.s /\ op'.to = op.to
  BY DEF OpFit, IsOp, Go, Steps

LEMMA SucceedFits ==
    ASSUME OpFit, op.pc \in {"publish", "commit"}, At("publish"), Succeed PROVE OpFit'
  <1>1. CASE op.undo
    BY <1>1, FinishFits DEF Succeed
  <1>2. CASE ~ op.undo /\ op.job \in {"replace", "remove"}
    <2>1. Go("release")
      BY <1>2 DEF Succeed
    <2>2. IsOp(op') /\ op'.pc = "release" /\ op'.undo = op.undo
          /\ op'.job = op.job /\ op'.s = op.s
      BY <2>1, GoTyped DEF Steps
    <2> QED
      BY <1>2, <2>2 DEF OpFit, JobsFit, At
  <1>3. CASE ~ op.undo /\ op.job \notin {"replace", "remove"}
    BY <1>3, FinishFits DEF Succeed
  <1> QED
    BY <1>1, <1>2, <1>3

LEMMA UndoFits ==
    ASSUME OpFit, op.pc \in {"publish", "commit"}, Undo PROVE OpFit'
  <1>1. CASE op.undo \/ op.job \in {"repair", "released"}
    BY <1>1, FinishFits DEF Undo
  <1>2. CASE ~ (op.undo \/ op.job \in {"repair", "released"})
    <2>1. op' = [op EXCEPT !.pc = "restore", !.undo = TRUE]
      BY <1>2 DEF Undo
    <2>2. IsOp(op') /\ op'.pc = "restore" /\ op'.job = op.job /\ op'.s = op.s /\ op'.undo
      BY <2>1 DEF OpFit, IsOp, Steps
    <2> QED
      BY <1>2, <2>2 DEF OpFit, JobsFit, At
  <1> QED
    BY <1>1, <1>2

LEMMA WrittenFits ==
    ASSUME OpFit, NEW pc \in {"publish", "commit"}, Written(pc),
           op.pc \in {"write", "route"},
           pc = "publish" => At("write"), pc = "commit" => At("route")
    PROVE  OpFit'
  <1>1. IsOp(op') /\ op'.pc = pc /\ op'.job = op.job /\ op'.s = op.s
    <2> DEFINE by == IF op.by = "guarded" THEN "other" ELSE op.by
    <2>1. by \in Passes \cup {"guarded", "other"}
      BY DEF OpFit, IsOp
    <2>2. op' = [op EXCEPT !.pc = pc, !.to = None, !.lease = None, !.saw = "any",
                           !.by = by]
      BY DEF Written, OpFit, IsOp
    <2> HIDE DEF by
    <2> QED
      BY <2>1, <2>2 DEF OpFit, IsOp, Steps
  <1> QED
    BY <1>1 DEF OpFit, JobsFit, At

\* Inside the mutex.
LEMMA WorkFits == ASSUME TypeOK, OpFit, RowsFit, Work PROVE OpFit'
  <1>0. IsOp(op) /\ IsTable(rows) /\ IsTable(op.rest)
    BY OpFields DEF OpFit, TypeOK
  <1>1. CASE GroupConflict
    BY <1>1, UndoFits DEF GroupConflict, At
  <1>2. CASE Apply
    <2>1. CASE At("publish")
      BY <1>2, <2>1, SucceedFits DEF Apply, At
    <2>2. CASE At("commit") /\ op.undo
      BY <1>2, <2>2, FinishFits DEF Apply, At
    <2>3. CASE At("commit") /\ ~ op.undo
      <3>1. Go("close")
        BY <1>2, <2>3 DEF Apply, At
      <3>2. IsOp(op') /\ op'.pc = "close" /\ op'.undo = op.undo
            /\ op'.job = op.job /\ op'.s = op.s
        BY <3>1, GoTyped DEF Steps
      <3> QED
        BY <2>3, <3>2 DEF OpFit, JobsFit, At
    <2> QED
      BY <1>2, <2>1, <2>2, <2>3 DEF Apply, At
  <1>3. CASE ApplyFails
    BY <1>3, UndoFits DEF ApplyFails
  <1>4. CASE ClearMissing
    <2>1. op.s \in DOMAIN rows
      BY <1>4 DEF ClearMissing, RowsFit, Replacing, OpFit, JobsFit, At
    <2>2. Repaired[op.s] \in Row
      BY <1>0, <2>1, RepairedTable DEF IsTable
    <2>3. op' = [op EXCEPT !.pc = "allocate", !.prev = Repaired[op.s]]
      BY <1>4 DEF ClearMissing
    <2>4. IsOp(op') /\ op'.pc = "allocate" /\ op'.undo = op.undo
          /\ op'.job = op.job /\ op'.s = op.s
      BY <1>0, <2>2, <2>3 DEF IsOp, Steps
    <2> QED
      BY <1>4, <2>4 DEF ClearMissing, OpFit, JobsFit, At
  <1>5. CASE Allocate
    <2>1. PICK n \in Nodes : op' = [op EXCEPT !.pc = "write", !.node = n]
      BY <1>5 DEF Allocate
    <2>2. IsOp(op') /\ op'.pc = "write" /\ op'.undo = op.undo
          /\ op'.job = op.job /\ op'.s = op.s
      BY <1>0, <2>1 DEF IsOp, Steps
    <2> QED
      BY <1>5, <2>2 DEF Allocate, OpFit, JobsFit, At
  <1>6. CASE ProviderFails
    BY <1>6, FinishFits DEF ProviderFails
  <1>7. CASE Write
    BY <1>7, WrittenFits DEF Write, At
  <1>8. CASE Delete
    <2>1. IsOp(op') /\ op'.pc = "publish" /\ op'.job = op.job /\ op'.s = op.s
      BY <1>8, GoTyped DEF Delete, Steps
    <2> QED
      BY <1>8, <2>1 DEF Delete, OpFit, JobsFit, At
  <1>9. CASE Route
    BY <1>9, WrittenFits DEF Route, At
  <1>10. CASE Restore
    <2>1. op.job \in {"replace", "create", "remove", "route"}
      BY <1>10 DEF Restore, OpFit, JobsFit, At
    <2>2. \/ op.job \in {"replace", "create"} /\ Go("discard")
          \/ op.job = "remove" /\ Go("publish")
          \/ op.job = "route" /\ Go("commit")
      BY <1>10, <2>1 DEF Restore
    <2>3. IsOp(op') /\ op'.job = op.job /\ op'.s = op.s /\ op'.undo = op.undo
          /\ \/ op.job \in {"replace", "create"} /\ op'.pc = "discard"
             \/ op.job = "remove" /\ op'.pc = "publish"
             \/ op.job = "route" /\ op'.pc = "commit"
      BY <2>2, GoTyped DEF Steps
    <2> QED
      BY <1>10, <2>3 DEF Restore, OpFit, JobsFit, At
  <1>11. CASE Discard
    <2>1. IsOp(op') /\ op'.pc = "publish" /\ op'.job = op.job /\ op'.s = op.s
      BY <1>11, GoTyped DEF Discard, Steps
    <2> QED
      BY <1>11, <2>1 DEF Discard, OpFit, JobsFit, At
  <1>12. CASE Release
    <2>1. CASE op.job = "route"
      <3>0. op' = [op EXCEPT !.pc = "publish", !.job = "released"]
        BY <1>12, <2>1 DEF Release
      <3>1. IsOp(op') /\ op'.pc = "publish" /\ op'.job = "released" /\ op'.s = op.s
        BY <1>0, <3>0 DEF IsOp, Steps
      <3> QED
        BY <1>12, <3>1 DEF Release, OpFit, JobsFit, At
    <2>2. CASE op.job # "route"
      <3>0. op' = [op EXCEPT !.pc = "close", !.prev = Lazy] /\ Lazy \in Row
        BY <1>12, <2>2 DEF Release, Row, Lazy, Routes
      <3>1. IsOp(op') /\ op'.pc = "close" /\ op'.job = op.job /\ op'.s = op.s
            /\ op'.undo = op.undo
        BY <1>0, <3>0 DEF IsOp, Steps
      <3> QED
        BY <1>12, <3>1 DEF Release, OpFit, JobsFit, At
    <2> QED
      BY <2>1, <2>2
  <1>13. CASE Close
    <2>1. CASE op.job = "route" /\ op.prev.node # None
      <3>1. Go("release")
        BY <1>13, <2>1 DEF Close
      <3>2. IsOp(op') /\ op'.pc = "release" /\ op'.job = op.job /\ op'.s = op.s
            /\ op'.undo = op.undo
        BY <3>1, GoTyped DEF Steps
      <3> QED
        BY <1>13, <3>2 DEF Close, OpFit, JobsFit, At
    <2>2. CASE ~ (op.job = "route" /\ op.prev.node # None)
      BY <1>13, <2>2, FinishFits DEF Close
    <2> QED
      BY <2>1, <2>2
  <1>14. CASE CloseFails
    BY <1>14, FinishFits DEF CloseFails
  <1>15. ASSUME At("next"), NEW s \in DOMAIN op.rest, RemoveNext(s) PROVE OpFit'
    <2>1. s \in Sessions /\ op.rest[s] \in Row /\ IsTable(Without(s, op.rest))
      BY <1>0, <1>15, WithoutTable DEF IsTable
    <2>2. IsOp(op') /\ op'.pc = "delete" /\ op'.job = "remove" /\ op'.s = s
          /\ op'.undo = op.undo
      BY <1>0, <1>15, <2>1 DEF RemoveNext, IsOp, Steps
    <2> QED
      BY <1>15, <2>1, <2>2 DEF OpFit, JobsFit, At
  <1>16. CASE NextExpired
    <2>1. PICK s \in DOMAIN op.rest :
              \/ RemoveNext(s)
              \/ /\ op.by = "renew"
                 /\ op' = [op EXCEPT !.job = "replace", !.pc = "clear", !.s = s,
                                     !.rest = Without(s, op.rest)]
      BY <1>16 DEF NextExpired
    <2>2. CASE RemoveNext(s)
      BY <1>15, <1>16, <2>2 DEF NextExpired
    <2>3. CASE /\ op.by = "renew"
               /\ op' = [op EXCEPT !.job = "replace", !.pc = "clear", !.s = s,
                                   !.rest = Without(s, op.rest)]
      <3>1. s \in Sessions /\ IsTable(Without(s, op.rest))
        BY <1>0, WithoutTable DEF IsTable
      <3>2. IsOp(op') /\ op'.pc = "clear" /\ op'.job = "replace" /\ op'.s = s
            /\ op'.undo = op.undo /\ op'.by = op.by
        BY <1>0, <2>3, <3>1 DEF IsOp, Steps
      <3> QED
        BY <1>16, <2>3, <3>1, <3>2 DEF NextExpired, OpFit, JobsFit, At
    <2> QED
      BY <2>1, <2>2, <2>3
  <1>17. CASE NextOrdinal
    <2>1. CASE DOMAIN op.rest # {}
      BY <1>15, <1>17, <2>1 DEF NextOrdinal
    <2>2. CASE DOMAIN op.rest = {} /\ op.todo # {}
      <3>1. PICK s \in op.todo :
                op' = [op EXCEPT !.job = "create", !.pc = op.first, !.s = s,
                                 !.todo = @ \ {s}]
        BY <1>17, <2>2 DEF NextOrdinal
      <3>2. s \in Sessions /\ op.todo \ {s} \subseteq Sessions
            /\ op.first \in {"allocate", "write"}
        BY <1>0, OpFields
      <3>3. IsOp(op') /\ op'.pc = op.first /\ op'.job = "create" /\ op'.s = s
            /\ op'.undo = op.undo
        BY <1>0, <3>1, <3>2 DEF IsOp, Steps
      <3> QED
        BY <1>17, <3>2, <3>3 DEF NextOrdinal, OpFit, JobsFit, At
    <2>3. CASE DOMAIN op.rest = {} /\ op.todo = {} /\ op.repaired
      <3>1. op' = [Begin("repair", "other", None) EXCEPT !.pc = "publish"]
        BY <1>17, <2>3 DEF NextOrdinal
      <3>2. op' = [Idle EXCEPT !.job = "repair", !.by = "other", !.s = None,
                               !.pc = "publish"]
        BY <3>1 DEF Begin, Idle
      <3>3. IsOp(op') /\ op'.pc = "publish" /\ op'.job = "repair"
        BY <3>2, IdleTyped DEF IsOp, Steps
      <3> QED
        BY <3>3 DEF OpFit, JobsFit, At
    <2>4. CASE DOMAIN op.rest = {} /\ op.todo = {} /\ ~ op.repaired
      BY <1>17, <2>4, IdleFits DEF NextOrdinal
    <2> QED
      BY <2>1, <2>2, <2>3, <2>4
  <1>18. CASE PassEnds
    BY <1>18, IdleFits DEF PassEnds
  <1> QED
    BY <1>1, <1>2, <1>3, <1>4, <1>5, <1>6, <1>7, <1>8, <1>9, <1>10, <1>11,
       <1>12, <1>13, <1>14, <1>16, <1>17, <1>18 DEF Work

\* How the request of one session starts.
Starts(s) ==
    /\ op = Idle
    /\ IsOp(op') /\ op'.s = s /\ ~ op'.undo /\ op'.rest = NoRows /\ op'.todo = {}
    /\ \/ op'.job = "replace" /\ op'.pc = "clear" /\ s \in DOMAIN rows
          /\ op'.prev = Lazy
       \/ op'.job = "remove" /\ op'.pc = "delete" /\ s \in DOMAIN rows
          /\ op'.prev = rows[s]
       \/ op'.job = "create" /\ op'.pc = "allocate" /\ s \notin DOMAIN rows
          /\ op'.prev = Lazy
       \/ op'.job = "route" /\ op'.pc = "route" /\ s \in DOMAIN rows
          /\ op'.prev = rows[s] /\ op'.to \in Routes
    /\ \/ op'.by = "other" /\ op'.saw = "any"
       \/ /\ op'.by = "guarded" /\ op'.job \in {"replace", "route"}
          /\ LeaseActive(s) => rows[s].lease = op'.lease
          /\ op'.saw # "any" => /\ seen # None /\ seen.s = s /\ seen.sound
                                /\ seen.version = rows[s].version
                                /\ op'.saw = seen.node

\* The requests of one session.
Requests(s) ==
    \/ Ensure(s) \/ DeleteSession(s)
    \/ \E lease \in issued \cup {None}, checked \in BOOLEAN :
           \/ Rotate(s, lease, checked)
           \/ \E to \in Routes : Switch(s, to, lease, checked)

LEMMA RemoveStarts ==
    ASSUME NEW s \in Sessions, op = Idle, IsTable(rows), s \in DOMAIN rows,
           op' = Remove("other", s)
    PROVE  Starts(s)
  <1>1. op' = [Idle EXCEPT !.job = "remove", !.by = "other", !.s = s,
                           !.pc = "delete", !.prev = rows[s]]
    BY DEF Remove, Begin, Idle
  <1>0. rows[s] \in Row
    BY DEF IsTable
  <1>2. op'.s = s /\ op'.job = "remove" /\ op'.pc = "delete" /\ op'.prev = rows[s]
    BY <1>1 DEF Idle
  <1>3. IsOp(op')
    <2> DEFINE o == [Idle EXCEPT !.prev = rows[s]]
    <2>1. IsOp(o)
      BY <1>0, IdleTyped DEF IsOp
    <2> DEFINE u == [o EXCEPT !.job = "remove", !.by = "other", !.s = s]
    <2>2. op' = [u EXCEPT !.pc = "delete"]
      BY <1>1 DEF Idle
    <2> HIDE DEF o
    <2>3. IsOp(u)
      BY <2>1 DEF IsOp
    <2> HIDE DEF u
    <2> QED BY <2>2, <2>3 DEF IsOp, Steps
  <1>4. ~ op'.undo /\ op'.rest = NoRows /\ op'.todo = {}
        /\ op'.by = "other" /\ op'.saw = "any"
    BY <1>1 DEF Idle
  <1> QED
    BY <1>2, <1>3, <1>4 DEF Starts

LEMMA GuardedStarts ==
    ASSUME NEW s \in Sessions, op = Idle, TypeOK, s \in DOMAIN rows,
           NEW lease \in issued \cup {None}, NEW checked \in BOOLEAN, NEW to \in Routes,
           Guard(s, lease, checked),
           \/ op' = Guarded(Replace("guarded", s), lease, checked)
           \/ op' = Guarded([Begin("route", "guarded", s) EXCEPT
                                 !.pc = "route", !.to = to, !.prev = rows[s]],
                            lease, checked)
    PROVE  Starts(s)
  <1> DEFINE saw == IF checked /\ seen.sound THEN seen.node ELSE "any"
  <1>1. saw # "any" => /\ seen # None /\ seen.s = s /\ seen.sound
                       /\ seen.version = rows[s].version /\ saw = seen.node
    BY DEF Guard, TypeOK
  <1>2. saw \in Nodes \cup {None, "any"}
    BY DEF Guard, TypeOK
  <1>3. lease \in Leases \cup {None}
    BY DEF TypeOK
  <1>4. LeaseActive(s) => rows[s].lease = lease
    BY DEF Guard
  <1>5. rows[s] \in Row
    BY DEF TypeOK, IsTable
  <1>6. CASE op' = Guarded(Replace("guarded", s), lease, checked)
    <2>1. op' = [Idle EXCEPT !.job = "replace", !.by = "guarded", !.s = s,
                             !.pc = "clear", !.lease = lease, !.saw = saw]
      BY <1>6 DEF Guarded, Replace, Begin, Idle
    <2> HIDE DEF saw
    <2>2. IsOp(op') /\ op'.s = s /\ op'.job = "replace" /\ op'.pc = "clear"
      BY <1>2, <1>3, <2>1, IdleTyped DEF IsOp, Steps
    <2>3. ~ op'.undo /\ op'.rest = NoRows /\ op'.todo = {} /\ op'.by = "guarded"
          /\ op'.saw = saw /\ op'.lease = lease /\ op'.prev = Lazy
      BY <2>1 DEF Idle
    <2> QED
      BY <1>1, <1>4, <2>2, <2>3 DEF Starts
  <1>7. CASE op' = Guarded([Begin("route", "guarded", s) EXCEPT
                               !.pc = "route", !.to = to, !.prev = rows[s]],
                           lease, checked)
    <2>1. op' = [Idle EXCEPT !.job = "route", !.by = "guarded", !.s = s,
                             !.pc = "route", !.to = to, !.prev = rows[s],
                             !.lease = lease, !.saw = saw]
      BY <1>7 DEF Guarded, Begin, Idle
    <2> HIDE DEF saw
    <2>2. IsOp(op') /\ op'.s = s /\ op'.job = "route" /\ op'.pc = "route"
          /\ op'.to = to /\ op'.prev = rows[s]
      BY <1>2, <1>3, <1>5, <2>1, IdleTyped DEF IsOp, Steps
    <2>3. ~ op'.undo /\ op'.rest = NoRows /\ op'.todo = {} /\ op'.by = "guarded"
          /\ op'.saw = saw /\ op'.lease = lease
      BY <2>1 DEF Idle
    <2> QED
      BY <1>1, <1>4, <2>2, <2>3 DEF Starts
  <1> QED
    BY <1>6, <1>7

LEMMA RequestsStart ==
    ASSUME TypeOK, NEW s \in Sessions, Requests(s)
    PROVE  /\ Starts(s)
           /\ Event
           /\ UNCHANGED <<window, plane, channel, upstream, edit, leases, seen, raced, faults>>
  <1>0. IsTable(rows)
    BY DEF TypeOK
  <1>1. CASE Ensure(s)
    <2>1. CASE s \in DOMAIN rows /\ Start(Remove("other", s))
      BY <1>0, <1>1, <2>1, RemoveStarts DEF Ensure, Free, Start
    <2>2. CASE s \in DOMAIN rows /\ Start(Replace("other", s))
      <3>1. op' = [Idle EXCEPT !.job = "replace", !.by = "other", !.s = s, !.pc = "clear"]
        BY <2>2 DEF Start, Replace, Begin, Idle
      <3>2. IsOp(op') /\ op'.s = s /\ op'.job = "replace" /\ op'.pc = "clear"
        BY <3>1, IdleTyped DEF IsOp, Steps
      <3>3. ~ op'.undo /\ op'.rest = NoRows /\ op'.todo = {}
            /\ op'.by = "other" /\ op'.saw = "any" /\ op'.prev = Lazy
        BY <3>1 DEF Idle
      <3> QED
        BY <1>1, <2>2, <3>2, <3>3 DEF Starts, Ensure, Free, Start
    <2>3. CASE s \notin DOMAIN rows
      <3>1. Start([Begin("create", "other", s) EXCEPT !.pc = "allocate"])
        BY <1>1, <2>3 DEF Ensure
      <3>2. op' = [Idle EXCEPT !.job = "create", !.by = "other", !.s = s, !.pc = "allocate"]
        BY <3>1 DEF Start, Begin, Idle
      <3>3. IsOp(op') /\ op'.s = s /\ op'.job = "create" /\ op'.pc = "allocate"
        BY <3>2, IdleTyped DEF IsOp, Steps
      <3>4. ~ op'.undo /\ op'.rest = NoRows /\ op'.todo = {} /\ op'.prev = Lazy
            /\ op'.by = "other" /\ op'.saw = "any"
        BY <3>2 DEF Idle
      <3> QED
        BY <1>1, <2>3, <3>1, <3>3, <3>4 DEF Starts, Ensure, Free, Start
    <2> QED
      BY <1>1, <2>1, <2>2, <2>3 DEF Ensure
  <1>2. CASE DeleteSession(s)
    BY <1>0, <1>2, RemoveStarts DEF DeleteSession, Free, Start
  <1>3. ASSUME NEW lease \in issued \cup {None}, NEW checked \in BOOLEAN,
               Rotate(s, lease, checked)
        PROVE  /\ Starts(s)
               /\ Event
               /\ UNCHANGED <<window, plane, channel, upstream, edit, leases, seen, raced, faults>>
    <2>1. "direct" \in Routes
      BY DEF Routes
    <2> QED
      BY <1>3, <2>1, GuardedStarts DEF Rotate, Free, Start
  <1>4. ASSUME NEW lease \in issued \cup {None}, NEW checked \in BOOLEAN,
               NEW to \in Routes, Switch(s, to, lease, checked)
        PROVE  /\ Starts(s)
               /\ Event
               /\ UNCHANGED <<window, plane, channel, upstream, edit, leases, seen, raced, faults>>
    BY <1>4, GuardedStarts DEF Switch, Free, Start
  <1> QED
    BY <1>1, <1>2, <1>3, <1>4 DEF Requests

-----------------------------------------------------------------------------
(* The steps.                                                              *)

LEMMA NextSplit ==
    ASSUME Next
    PROVE  \/ Work
           \/ \E s \in Sessions : Requests(s) \/ Read(s) \/ Expire(s)
           \/ \E s \in Sessions, h \in Holders : Claim(s, h)
           \/ \E s \in Sessions, lease \in issued : ReleaseLease(s, lease)
           \/ Maintain \/ ListNodes \/ ListSessions \/ ClearOne \/ Save \/ Sync
           \/ \E lease \in issued : Lapse(lease)
           \/ \E n \in Nodes : Lose(n)
           \/ SetUpstream \/ ApplyElsewhere \/ Crash
  BY DEF Next, Requests

\* A session is done with, or the request.
Quits ==
    \/ op' = Idle
    \/ /\ op'.pc = "next" /\ op'.by = op.by /\ op.by \in Passes
       /\ op'.rest = op.rest /\ op'.todo = op.todo
       /\ op'.prev = Lazy /\ op'.saw = "any" /\ op'.node = None

\* A request goes on with its session and writes no row.
GoesOn ==
    /\ op'.pc \in {"write", "restore", "release", "close", "publish"}
    /\ op.pc \notin {"idle", "next", "clear", "delete", "route"}
    /\ op'.s = op.s /\ op'.rest = op.rest /\ op'.todo = op.todo
    /\ op'.by = op.by /\ op'.saw = op.saw /\ op'.lease = op.lease
    /\ op'.prev \in {op.prev, Lazy}
    /\ op'.pc = "write" => op.pc = "allocate"
    /\ op.pc \in {"allocate", "write"} => op'.pc = "write"
    /\ Revocable' => Revocable /\ op'.job = op.job /\ op'.prev = op.prev

\* A pass takes the next session.
Takes(s) ==
    /\ At("next") /\ op'.s = s /\ op'.by = op.by /\ op'.saw = "any"
    /\ op'.node = None /\ ~ op'.undo
    /\ \/ /\ s \in DOMAIN op.rest
          /\ op'.rest = Without(s, op.rest) /\ op'.todo = op.todo
          /\ \/ op'.job = "remove" /\ op'.pc = "delete" /\ op'.prev = op.rest[s]
                /\ op.by \in {"expire", "resize"}
             \/ op'.job = "replace" /\ op'.pc = "clear" /\ op'.prev = Lazy
                /\ op.by = "renew"
       \/ /\ s \in op.todo
          /\ op'.rest = op.rest /\ op'.todo = op.todo \ {s} /\ op'.prev = Lazy
          /\ op'.job = "create" /\ op'.pc \in {"allocate", "write"}

Repairs ==
    /\ op'.job = "repair" /\ op'.pc = "publish" /\ op'.by = "other"
    /\ op'.saw = "any" /\ op'.rest = NoRows /\ op'.todo = {} /\ op'.prev = Lazy

\* The steps inside the mutex that write a row.
WritesRow == ClearMissing \/ Write \/ Delete \/ Route \/ Restore

LEMMA FinishQuits == ASSUME NEW ok, Finish(ok) PROVE Quits
  <1>1. CASE ok /\ op.by \in Passes
    BY <1>1 DEF Finish, Quits, Idle
  <1>2. CASE ~ (ok /\ op.by \in Passes)
    BY <1>2 DEF Finish, Quits
  <1> QED
    BY <1>1, <1>2

LEMMA GoGoesOn ==
    ASSUME OpFit, NEW pc \in {"release", "close", "publish"}, Go(pc),
           op.pc \in {"publish", "commit", "close", "discard"},
           pc = "publish" => At("discard")
    PROVE  GoesOn
  <1>1. IsOp(op) /\ op' = [op EXCEPT !.pc = pc]
    BY DEF Go, OpFit
  <1>2. /\ op'.pc = pc /\ op'.s = op.s /\ op'.rest = op.rest /\ op'.todo = op.todo
        /\ op'.by = op.by /\ op'.saw = op.saw /\ op'.lease = op.lease
        /\ op'.prev = op.prev /\ op'.undo = op.undo
    BY <1>1 DEF IsOp
  <1>3. ~ Revocable'
    BY <1>2 DEF Revocable, OpFit, JobsFit, At
  <1> QED
    BY <1>2, <1>3 DEF GoesOn

LEMMA UndoForms ==
    ASSUME OpFit, op.pc \in {"publish", "commit"}, Undo
    PROVE  Quits \/ GoesOn
  <1>1. CASE op.undo \/ op.job \in {"repair", "released"}
    BY <1>1, FinishQuits DEF Undo
  <1>2. CASE ~ (op.undo \/ op.job \in {"repair", "released"})
    <2>1. IsOp(op) /\ op' = [op EXCEPT !.pc = "restore", !.undo = TRUE]
      BY <1>2 DEF Undo, OpFit
    <2>2. /\ op'.pc = "restore" /\ op'.s = op.s /\ op'.rest = op.rest
          /\ op'.todo = op.todo /\ op'.by = op.by /\ op'.saw = op.saw
          /\ op'.lease = op.lease /\ op'.prev = op.prev /\ op'.job = op.job
      BY <2>1 DEF IsOp
    <2> QED
      BY <1>2, <2>2 DEF GoesOn, Revocable
  <1> QED
    BY <1>1, <1>2

LEMMA WorkForms ==
    ASSUME OpFit, Work, ~ WritesRow
    PROVE  /\ UNCHANGED <<rows, seen>>
           /\ Quits \/ GoesOn \/ Repairs \/ \E s \in Sessions : Takes(s)
  <1>0. IsOp(op) /\ IsTable(op.rest) /\ op.todo \subseteq Sessions
        /\ op.first \in {"allocate", "write"}
    BY OpFields DEF OpFit
  <1>1. CASE (GroupConflict \/ ApplyFails) /\ UNCHANGED seen
    <2>1. op.pc \in {"publish", "commit"} /\ Undo /\ UNCHANGED <<rows, seen>>
      BY <1>1 DEF GroupConflict, ApplyFails, At, window
    <2> QED
      BY <2>1, UndoForms
  <1>2. CASE Apply /\ UNCHANGED seen
    <2>1. /\ UNCHANGED <<rows, seen>> /\ op.pc \in {"publish", "commit"}
          /\ \/ Finish(FALSE) \/ Finish(TRUE) \/ Go("release") \/ Go("close")
      BY <1>2 DEF Apply, Succeed, window
    <2> QED
      BY <2>1, FinishQuits, GoGoesOn
  <1>3. CASE Allocate
    <2>1. PICK n \in Nodes : op' = [op EXCEPT !.pc = "write", !.node = n]
      BY <1>3 DEF Allocate
    <2>2. /\ op'.pc = "write" /\ op'.s = op.s /\ op'.rest = op.rest
          /\ op'.todo = op.todo /\ op'.by = op.by /\ op'.saw = op.saw
          /\ op'.lease = op.lease /\ op'.prev = op.prev /\ op'.job = op.job
      BY <1>0, <2>1 DEF IsOp
    <2> QED
      BY <1>3, <2>2 DEF GoesOn, Revocable, Allocate, At
  <1>4. CASE ProviderFails \/ CloseFails \/ PassEnds
    BY <1>4, FinishQuits DEF ProviderFails, CloseFails, PassEnds, Quits, window
  <1>5. CASE Discard
    BY <1>5, GoGoesOn DEF Discard, At
  <1>6. CASE Release
    <2>1. CASE op.job = "route"
      <3>1. op' = [op EXCEPT !.pc = "publish", !.job = "released"]
        BY <1>6, <2>1 DEF Release
      <3>2. /\ op'.pc = "publish" /\ op'.s = op.s /\ op'.rest = op.rest
            /\ op'.todo = op.todo /\ op'.by = op.by /\ op'.saw = op.saw
            /\ op'.lease = op.lease /\ op'.prev = op.prev /\ op'.job = "released"
        BY <1>0, <3>1 DEF IsOp
      <3> QED
        BY <1>6, <3>2 DEF GoesOn, Revocable, Release, At
    <2>2. CASE op.job # "route"
      <3>1. op' = [op EXCEPT !.pc = "close", !.prev = Lazy]
        BY <1>6, <2>2 DEF Release
      <3>2. /\ op'.pc = "close" /\ op'.s = op.s /\ op'.rest = op.rest
            /\ op'.todo = op.todo /\ op'.by = op.by /\ op'.saw = op.saw
            /\ op'.lease = op.lease /\ op'.prev = Lazy
        BY <1>0, <3>1 DEF IsOp
      <3> QED
        BY <1>6, <3>2 DEF GoesOn, Revocable, Release, At
    <2> QED
      BY <1>6, <2>1, <2>2 DEF Release
  <1>7. CASE Close
    BY <1>7, FinishQuits, GoGoesOn DEF Close, At, window
  <1>8. ASSUME At("next"), op.by \in {"expire", "resize"},
               NEW s \in DOMAIN op.rest, RemoveNext(s)
        PROVE  \E i \in Sessions : Takes(i)
    <2>1. s \in Sessions
      BY <1>0 DEF IsTable
    <2>2. /\ op'.s = s /\ op'.by = op.by /\ op'.saw = op.saw /\ op'.node = op.node
          /\ op'.undo = op.undo /\ op'.rest = Without(s, op.rest) /\ op'.todo = op.todo
          /\ op'.job = "remove" /\ op'.pc = "delete" /\ op'.prev = op.rest[s]
      BY <1>0, <1>8 DEF RemoveNext, IsOp
    <2> QED
      BY <1>8, <2>1, <2>2 DEF Takes, OpFit, JobsFit, At
  <1>9. CASE NextExpired
    <2>1. PICK s \in DOMAIN op.rest :
              \/ op.by = "expire" /\ RemoveNext(s)
              \/ /\ op.by = "renew"
                 /\ op' = [op EXCEPT !.job = "replace", !.pc = "clear", !.s = s,
                                     !.rest = Without(s, op.rest)]
      BY <1>9 DEF NextExpired
    <2>2. CASE op.by = "expire" /\ RemoveNext(s)
      BY <1>8, <1>9, <2>2 DEF NextExpired, window
    <2>3. CASE /\ op.by = "renew"
               /\ op' = [op EXCEPT !.job = "replace", !.pc = "clear", !.s = s,
                                   !.rest = Without(s, op.rest)]
      <3>1. s \in Sessions
        BY <1>0 DEF IsTable
      <3>2. /\ op'.s = s /\ op'.by = op.by /\ op'.saw = op.saw /\ op'.node = op.node
            /\ op'.undo = op.undo /\ op'.rest = Without(s, op.rest) /\ op'.todo = op.todo
            /\ op'.job = "replace" /\ op'.pc = "clear" /\ op'.prev = op.prev
        BY <1>0, <2>3 DEF IsOp
      <3>3. Takes(s)
        BY <1>9, <2>3, <3>1, <3>2 DEF Takes, NextExpired, OpFit, JobsFit, At
      <3> QED
        BY <1>9, <3>1, <3>3 DEF NextExpired, window
    <2> QED
      BY <2>1, <2>2, <2>3
  <1>10. CASE NextOrdinal
    <2>0. UNCHANGED <<rows, seen>> /\ At("next") /\ op.by = "resize"
      BY <1>10 DEF NextOrdinal, window
    <2>1. CASE DOMAIN op.rest # {}
      BY <1>8, <1>10, <2>0, <2>1 DEF NextOrdinal
    <2>2. CASE DOMAIN op.rest = {} /\ op.todo # {}
      <3>1. PICK s \in op.todo :
                op' = [op EXCEPT !.job = "create", !.pc = op.first, !.s = s,
                                 !.todo = @ \ {s}]
        BY <1>10, <2>2 DEF NextOrdinal
      <3>2. s \in Sessions
        BY <1>0
      <3>3. /\ op'.s = s /\ op'.by = op.by /\ op'.saw = op.saw /\ op'.node = op.node
            /\ op'.undo = op.undo /\ op'.rest = op.rest /\ op'.todo = op.todo \ {s}
            /\ op'.job = "create" /\ op'.pc = op.first /\ op'.prev = op.prev
        BY <1>0, <3>1 DEF IsOp
      <3>4. Takes(s)
        BY <1>0, <2>0, <3>3 DEF Takes, OpFit, JobsFit, At
      <3> QED
        BY <2>0, <3>2, <3>4
    <2>3. CASE DOMAIN op.rest = {} /\ op.todo = {} /\ op.repaired
      <3>1. op' = [Begin("repair", "other", None) EXCEPT !.pc = "publish"]
        BY <1>10, <2>3 DEF NextOrdinal
      <3>2. Repairs
        BY <3>1 DEF Begin, Idle, Repairs
      <3> QED
        BY <2>0, <3>2
    <2>4. CASE DOMAIN op.rest = {} /\ op.todo = {} /\ ~ op.repaired
      BY <1>10, <2>0, <2>4 DEF NextOrdinal, Quits
    <2> QED
      BY <2>1, <2>2, <2>3, <2>4
  <1> QED
    BY <1>1, <1>2, <1>3, <1>4, <1>5, <1>6, <1>7, <1>9, <1>10 DEF Work, WritesRow

\* A pass starts with rows it has listed.
Launches ==
    /\ op = Idle
    /\ op'.pc = "next" /\ op'.by \in Passes /\ op'.saw = "any"
    /\ op'.node = None /\ op'.prev = Lazy /\ ~ op'.undo
    /\ IsOp(op')
    /\ DOMAIN op'.rest \subseteq DOMAIN rows
    /\ op'.todo \cap DOMAIN rows = {}

LEMMA MaintainLaunches ==
    ASSUME IsTable(rows), Maintain
    PROVE  /\ Launches
           /\ \A s \in DOMAIN op'.rest : op'.rest[s] = rows[s]
           /\ UNCHANGED <<window, plane, channel, upstream, edit, leases, seen, raced, bounds>>
  <1> DEFINE rest == [s \in {i \in DOMAIN rows : Allocated(i)} |-> rows[s]]
  <1>1. PICK policy \in {"expire", "renew"} :
            op' = [Idle EXCEPT !.pc = "next", !.by = policy, !.rest = rest]
    BY DEF Maintain
  <1>2. IsTable(rest) /\ DOMAIN rest \subseteq DOMAIN rows
        /\ \A s \in DOMAIN rest : rest[s] = rows[s]
    BY DEF IsTable
  <1> HIDE DEF rest
  <1>3. /\ op'.pc = "next" /\ op'.by = policy /\ op'.saw = "any" /\ op'.rest = rest
        /\ op'.node = None /\ op'.prev = Lazy /\ ~ op'.undo /\ op'.todo = {}
    BY <1>1 DEF Idle
  <1>4. IsOp(op')
    BY <1>1, <1>2, IdleTyped DEF IsOp, Steps, Passes
  <1> QED
    BY <1>2, <1>3, <1>4 DEF Launches, Maintain, Free, Passes

LEMMA SyncLaunches ==
    ASSUME IsTable(rows), Sync
    PROVE  /\ Launches
           /\ rows' = Repaired
           /\ \A s \in DOMAIN op'.rest : op'.rest[s] = rows'[s]
           /\ edit' = NoEdit
           /\ UNCHANGED <<nodes, plane, channel, upstream, leases, seen, raced, bounds>>
  <1> DEFINE rest == [s \in {i \in DOMAIN rows : i > count} |-> rows'[s]]
             todo == {s \in Sessions : s <= count /\ s \notin DOMAIN rows}
             first == IF eager THEN "allocate" ELSE "write"
             repaired == rows' # rows
  <1>1. op' = [Idle EXCEPT !.pc = "next", !.by = "resize", !.repaired = repaired,
                           !.rest = rest, !.todo = todo, !.first = first]
    BY DEF Sync
  <1>2. IsTable(rest) /\ DOMAIN rest \subseteq DOMAIN rows
        /\ \A s \in DOMAIN rest : rest[s] = rows'[s]
    <2>1. IsTable(rows') /\ DOMAIN rows' = DOMAIN rows
      BY RepairedTable DEF Sync
    <2> QED
      BY <2>1 DEF IsTable
  <1>3. todo \subseteq Sessions /\ todo \cap DOMAIN rows = {} /\ first \in {"allocate", "write"}
        /\ repaired \in BOOLEAN
    OBVIOUS
  <1> HIDE DEF rest, todo, first, repaired
  <1>4. /\ op'.pc = "next" /\ op'.by = "resize" /\ op'.saw = "any" /\ op'.rest = rest
        /\ op'.node = None /\ op'.prev = Lazy /\ ~ op'.undo /\ op'.todo = todo
    BY <1>1 DEF Idle
  <1>5. IsOp(op')
    <2>1. IsTable(rest) /\ todo \in SUBSET Sessions
      BY <1>2, <1>3
    <2>2. first \in {"allocate", "write"} /\ repaired \in BOOLEAN
      BY <1>3
    <2>3. "next" \in Steps /\ "resize" \in Passes
      BY DEF Steps, Passes
    <2> QED
      BY <1>1, <2>1, <2>2, <2>3, IdleTyped DEF IsOp
  <1>6. Launches
    BY <1>2, <1>3, <1>4, <1>5 DEF Launches, Sync, Free, Passes
  <1>7. edit' = NoEdit /\ rows' = Repaired
    BY DEF Sync, Edit
  <1>8. UNCHANGED <<nodes, plane, channel, upstream, leases, seen, raced, bounds>>
    BY DEF Sync, Edit, channel, plane, leases, bounds
  <1> QED
    BY <1>2, <1>4, <1>6, <1>7, <1>8

\* Outside requests a row keeps its session: it expires, it is cleared, or its
\* lease changes.
RowEdits ==
    \/ \E s \in Sessions : Expire(s)
    \/ \E s \in Sessions, h \in Holders : Claim(s, h)
    \/ \E s \in Sessions, lease \in issued : ReleaseLease(s, lease)
    \/ ClearOne

\* The other steps write no row and leave the mutex alone.
Others ==
    \/ \E s \in Sessions : Read(s)
    \/ ListNodes \/ ListSessions \/ Save
    \/ \E lease \in issued : Lapse(lease)
    \/ \E n \in Nodes : Lose(n)
    \/ SetUpstream \/ ApplyElsewhere

LEMMA StepSplit ==
    ASSUME [Next]_vars
    PROVE  \/ Work \/ \E s \in Sessions : Requests(s)
           \/ Maintain \/ Sync \/ RowEdits \/ Others \/ Crash \/ UNCHANGED vars
  BY NextSplit DEF RowEdits, Others

\* How a row is edited.
Edited(row, new) ==
    /\ new.route = row.route
    /\ new.node \in {row.node, None}
    /\ new.version >= row.version
    /\ new.version = row.version => new.node = row.node

LEMMA OthersKeep ==
    ASSUME Others
    PROVE  UNCHANGED <<rows, op, issued, raced>>
  BY DEF Others, Read, ListNodes, ListSessions, Save, Lapse, Lose, SetUpstream,
         ApplyElsewhere, Edit, window, leases, bounds, vars

LEMMA RowEditsKeep ==
    ASSUME TypeOK, RowEdits
    PROVE  /\ IsTable(rows') /\ DOMAIN rows' = DOMAIN rows
           /\ \A s \in DOMAIN rows : Edited(rows[s], rows'[s])
           /\ UNCHANGED <<nodes, plane, op, upstream, lapsed, seen>>
  <1>0. IsTable(rows) /\ \A s \in DOMAIN rows : rows[s] \in Row
    BY DEF TypeOK, IsTable
  <1>1. \A s \in DOMAIN rows : Edited(rows[s], rows[s])
    BY <1>0 DEF Edited, Row
  <1>2. ASSUME NEW s \in DOMAIN rows, NEW row \in Row, Edited(rows[s], row),
               rows' = Put(s, row)
        PROVE  /\ IsTable(rows') /\ DOMAIN rows' = DOMAIN rows
               /\ \A i \in DOMAIN rows : Edited(rows[i], rows'[i])
    <2>1. s \in Sessions
      BY <1>0 DEF IsTable
    <2> QED
      <3>1. IsTable(rows') /\ DOMAIN rows' = DOMAIN rows
        BY <1>0, <1>2, <2>1, PutTable
      <3>2. ASSUME NEW i \in DOMAIN rows PROVE Edited(rows[i], rows'[i])
        <4>1. CASE i = s
          BY <1>0, <1>2, <2>1, <4>1, PutTable
        <4>2. CASE i # s
          <5>1. Put(s, row)[i] = rows[i]
            BY <4>2 DEF Put
          <5> QED
            BY <1>1, <1>2, <5>1
        <4> QED
          BY <4>1, <4>2
      <3> QED
        BY <3>1, <3>2
  <1>3. ASSUME NEW s \in Sessions, Expire(s)
        PROVE  /\ IsTable(rows') /\ DOMAIN rows' = DOMAIN rows
               /\ \A i \in DOMAIN rows : Edited(rows[i], rows'[i])
               /\ UNCHANGED <<nodes, plane, op, upstream, lapsed, seen>>
    <2>1. s \in DOMAIN rows /\ rows' = [rows EXCEPT ![s].expired = TRUE]
          /\ UNCHANGED <<nodes, plane, op, upstream, lapsed, seen>>
      BY <1>3 DEF Expire, leases
    <2>2. [rows[s] EXCEPT !.expired = TRUE] \in Row
          /\ Edited(rows[s], [rows[s] EXCEPT !.expired = TRUE])
      <3>1. rows[s] \in Row
        BY <1>0, <2>1
      <3> QED
        <4> DEFINE new == [rows[s] EXCEPT !.expired = TRUE]
        <4>1. new \in Row
          BY <3>1, RowTyped DEF Routes
        <4>2. new.route = rows[s].route /\ new.node = rows[s].node
              /\ new.version = rows[s].version /\ rows[s].version \in Nat
          BY <3>1 DEF Row
        <4> QED
          BY <4>1, <4>2 DEF Edited
    <2>3. rows' = Put(s, [rows[s] EXCEPT !.expired = TRUE])
      BY <1>0, <2>1 DEF Put, IsTable
    <2> QED
      BY <1>2, <2>1, <2>2, <2>3
  <1>4. ASSUME NEW s \in DOMAIN rows, NEW lease \in Leases \cup {None},
               rows' = Put(s, [rows[s] EXCEPT !.lease = lease])
        PROVE  /\ IsTable(rows') /\ DOMAIN rows' = DOMAIN rows
               /\ \A i \in DOMAIN rows : Edited(rows[i], rows'[i])
    <2>1. [rows[s] EXCEPT !.lease = lease] \in Row
          /\ Edited(rows[s], [rows[s] EXCEPT !.lease = lease])
      BY <1>0, <1>4 DEF Row, Edited
    <2> QED
      BY <1>2, <1>4, <2>1
  <1>5. ASSUME NEW s \in Sessions, NEW h \in Holders, Claim(s, h)
        PROVE  /\ IsTable(rows') /\ DOMAIN rows' = DOMAIN rows
               /\ \A i \in DOMAIN rows : Edited(rows[i], rows'[i])
               /\ UNCHANGED <<nodes, plane, op, upstream, lapsed, seen>>
    <2>1. PICK n \in 1 .. MaxLeases : rows' = Put(s, [rows[s] EXCEPT !.lease = <<h, n>>])
      BY <1>5 DEF Claim, ClaimUnlocked
    <2>2. s \in DOMAIN rows /\ <<h, n>> \in Leases \cup {None}
      BY <1>5 DEF Claim, ClaimUnlocked, Leases
    <2> QED
      BY <1>4, <1>5, <2>1, <2>2 DEF Claim, ClaimUnlocked
  <1>6. ASSUME NEW s \in Sessions, NEW lease \in issued, ReleaseLease(s, lease)
        PROVE  /\ IsTable(rows') /\ DOMAIN rows' = DOMAIN rows
               /\ \A i \in DOMAIN rows : Edited(rows[i], rows'[i])
               /\ UNCHANGED <<nodes, plane, op, upstream, lapsed, seen>>
    BY <1>4, <1>6 DEF ReleaseLease, leases
  <1>7. ASSUME ClearOne
        PROVE  /\ IsTable(rows') /\ DOMAIN rows' = DOMAIN rows
               /\ \A i \in DOMAIN rows : Edited(rows[i], rows'[i])
               /\ UNCHANGED <<nodes, plane, op, upstream, lapsed, seen>>
    <2>1. UNCHANGED <<nodes, plane, op, upstream, lapsed, seen>>
      BY <1>7 DEF ClearOne, Edit, leases
    <2>2. ASSUME NEW s \in DOMAIN rows, rows' = Put(s, Cleared(rows[s]))
          PROVE  /\ IsTable(rows') /\ DOMAIN rows' = DOMAIN rows
                 /\ \A i \in DOMAIN rows : Edited(rows[i], rows'[i])
      <3>1. Cleared(rows[s]) \in Row /\ rows[s] \in Row
        BY <1>0, RowTyped DEF Routes
      <3>2. Edited(rows[s], Cleared(rows[s]))
        BY <3>1, RowChanges DEF Edited, Row
      <3> QED
        BY <1>2, <2>2, <3>1, <3>2
    <2>3. CASE rows' = rows
      BY <1>0, <1>1, <2>1, <2>3
    <2> QED
      BY <1>7, <2>1, <2>2, <2>3 DEF ClearOne
  <1> QED
    BY <1>3, <1>5, <1>6, <1>7 DEF RowEdits

LEMMA OpFitNext ==
    ASSUME TypeOK, OpFit, RowsFit, [Next]_vars
    PROVE  OpFit'
  <1>0. IsTable(rows)
    BY DEF TypeOK
  <1>1. CASE Work
    BY <1>1, WorkFits
  <1>2. ASSUME NEW s \in Sessions, Requests(s) PROVE OpFit'
    BY <1>2, RequestsStart DEF Starts, OpFit, JobsFit, At
  <1>3. CASE Maintain \/ Sync
    BY <1>0, <1>3, MaintainLaunches, SyncLaunches DEF Launches, OpFit, JobsFit, At
  <1>4. CASE op' = op
    BY <1>4 DEF OpFit, JobsFit, At
  <1>5. CASE Crash
    BY <1>5, IdleFits DEF Crash
  <1> QED
    BY <1>1, <1>2, <1>3, <1>4, <1>5, StepSplit, OthersKeep, RowEditsKeep DEF vars

-----------------------------------------------------------------------------
(* Type correctness.                                                       *)

NodesTyped == nodes \in [Nodes -> {"absent", "usable", "lost"}]

PlaneTyped ==
    /\ served \in [Sessions -> Nodes \cup {"group", "direct", "upstream"}]
    /\ published \in BOOLEAN

SeenTyped ==
    seen \in [s : Sessions, version : Nat, node : Nodes \cup {None},
             sound : BOOLEAN] \cup {None}

EditTyped ==
    edit \in [pc : {"idle", "list", "clear", "sync"},
             known : SUBSET Nodes, doomed : SUBSET Sessions]

BoundsTyped == events \in 0 .. MaxEvents /\ faults \in 0 .. MaxFaults

LEMMA CompiledTyped ==
    ASSUME IsTable(rows)
    PROVE  Compiled \in [Sessions -> Nodes \cup {"group", "direct", "upstream"}]
  <1>1. ASSUME NEW s \in DOMAIN rows, ~ Residential(s)
        PROVE  rows[s].route \in {"direct", "upstream"}
    <2>1. rows[s] \in Row
      BY DEF IsTable
    <2> QED
      BY <1>1, <2>1 DEF Row, Routes, Residential
  <1> QED
    BY <1>1 DEF Compiled, Usable

LEMMA DeleteNodeTyped == ASSUME NodesTyped, NEW n, DeleteNode(n) PROVE NodesTyped'
  BY DEF NodesTyped, DeleteNode

LEMMA OutdateTyped == ASSUME SeenTyped, NEW s, Outdate(s) PROVE SeenTyped'
  BY DEF SeenTyped, Outdate

LEMMA FaultTyped == ASSUME BoundsTyped, Fault PROVE faults' \in 0 .. MaxFaults
  BY SessionsAssumption DEF BoundsTyped, Fault

LEMMA EventTyped == ASSUME BoundsTyped, Event PROVE events' \in 0 .. MaxEvents
  BY SessionsAssumption DEF BoundsTyped, Event

\* Inside the mutex: nodes, the data plane, the reader and the bounds.
LEMMA WorkTyped ==
    ASSUME TypeOK, Work
    PROVE  NodesTyped' /\ PlaneTyped' /\ SeenTyped' /\ BoundsTyped'
  <1>0. IsTable(rows) /\ NodesTyped /\ PlaneTyped /\ SeenTyped /\ BoundsTyped
    BY DEF TypeOK, NodesTyped, PlaneTyped, SeenTyped, BoundsTyped
  <1>e. events' = events
    BY DEF Work
  <1>1. CASE GroupConflict /\ UNCHANGED seen
    BY <1>0, <1>e, <1>1, FaultTyped
    DEF GroupConflict, window, NodesTyped, PlaneTyped, SeenTyped, BoundsTyped
  <1>2. CASE Apply /\ UNCHANGED seen
    BY <1>0, <1>e, <1>2, CompiledTyped
    DEF Apply, window, NodesTyped, PlaneTyped, SeenTyped, BoundsTyped
  <1>3. CASE ApplyFails /\ UNCHANGED seen
    <2>1. PlaneTyped'
      BY <1>0, <1>3, CompiledTyped DEF ApplyFails, PlaneTyped
    <2>2. BoundsTyped'
      BY <1>0, <1>e, <1>3, FaultTyped DEF ApplyFails, BoundsTyped
    <2> QED
      BY <1>0, <1>3, <2>1, <2>2 DEF ApplyFails, window, NodesTyped, SeenTyped
  <1>4. CASE ClearMissing \/ Write \/ Route
    BY <1>0, <1>e, <1>4 DEF ClearMissing, Write, Route, plane, NodesTyped, PlaneTyped,
                            SeenTyped, BoundsTyped
  <1>5. CASE Allocate
    BY <1>0, <1>e, <1>5 DEF Allocate, plane, NodesTyped, PlaneTyped, SeenTyped, BoundsTyped
  <1>6. CASE ProviderFails \/ CloseFails
    BY <1>0, <1>e, <1>6, FaultTyped
    DEF ProviderFails, CloseFails, window, plane, NodesTyped, PlaneTyped, SeenTyped, BoundsTyped
  <1>7. CASE Delete
    <2>1. SeenTyped'
      BY <1>0, <1>7, OutdateTyped DEF Delete
    <2> QED
      BY <1>0, <1>e, <1>7, <2>1 DEF Delete, plane, NodesTyped, PlaneTyped, BoundsTyped
  <1>8. CASE Restore
    <2>1. SeenTyped'
      BY <1>0, <1>8, OutdateTyped DEF Restore, SeenTyped
    <2> QED
      BY <1>0, <1>e, <1>8, <2>1 DEF Restore, plane, NodesTyped, PlaneTyped, BoundsTyped
  <1>9. CASE Discard
    <2>1. NodesTyped'
      BY <1>0, <1>9, DeleteNodeTyped DEF Discard
    <2> QED
      BY <1>0, <1>e, <1>9, <2>1 DEF Discard, plane, PlaneTyped, SeenTyped, BoundsTyped
  <1>10. CASE Release
    <2>1. NodesTyped'
      BY <1>0, <1>10, DeleteNodeTyped DEF Release, NodesTyped
    <2> QED
      BY <1>0, <1>e, <1>10, <2>1 DEF Release, plane, PlaneTyped, SeenTyped, BoundsTyped
  <1>11. CASE Close \/ NextExpired \/ NextOrdinal
    BY <1>0, <1>e, <1>11 DEF Close, NextExpired, NextOrdinal, window, plane,
                             NodesTyped, PlaneTyped, SeenTyped, BoundsTyped
  <1>12. CASE PassEnds
    <2>1. BoundsTyped'
      BY <1>0, <1>e, <1>12, FaultTyped DEF PassEnds, BoundsTyped
    <2> QED
      BY <1>0, <1>12, <2>1 DEF PassEnds, window, plane, NodesTyped, PlaneTyped, SeenTyped
  <1> QED
    BY <1>1, <1>2, <1>3, <1>4, <1>5, <1>6, <1>7, <1>8, <1>9, <1>10, <1>11, <1>12 DEF Work

\* Leases on rows were issued.
Leased == \A s \in DOMAIN rows : rows[s].lease \in issued \cup {None}

LEMMA PutLeased ==
    ASSUME IsTable(rows), Leased, NEW s \in Sessions, NEW row \in Row,
           row.lease \in issued' \cup {None}, rows' = Put(s, row),
           issued \subseteq issued'
    PROVE  IsTable(rows') /\ Leased'
  <1>1. IsTable(rows') /\ DOMAIN rows' = DOMAIN rows \cup {s}
    BY PutTable
  <1>2. ASSUME NEW i \in DOMAIN rows' PROVE rows'[i].lease \in issued' \cup {None}
    <2>1. CASE i = s
      BY <2>1, PutTable
    <2>2. CASE i # s
      <3>1. i \in DOMAIN rows /\ rows'[i] = rows[i]
        BY <1>1, <1>2, <2>2 DEF Put
      <3> QED
        BY <3>1 DEF Leased
    <2> QED
      BY <2>1, <2>2
  <1> QED
    BY <1>1, <1>2 DEF Leased

LEMMA DropLeased ==
    ASSUME IsTable(rows), Leased, NEW s, rows' = Drop(s), issued' = issued
    PROVE  IsTable(rows') /\ Leased'
  <1>1. IsTable(rows') /\ DOMAIN rows' = DOMAIN rows \ {s}
        /\ \A i \in DOMAIN rows \ {s} : rows'[i] = rows[i]
    BY WithoutTable DEF Drop
  <1> QED
    BY <1>1 DEF Leased

LEMMA RepairedLeased ==
    ASSUME IsTable(rows), Leased, rows' = Repaired, issued' = issued
    PROVE  IsTable(rows') /\ Leased'
  <1>1. \A s \in DOMAIN rows : Cleared(rows[s]).lease = None
    BY RowChanges DEF IsTable
  <1> QED
    BY <1>1, RepairedTable DEF Leased

\* The rows a request reaches.
LEMMA ReachedRow ==
    ASSUME OpFit, RowsFit, op.pc \in {"clear", "allocate", "write", "route", "restore"},
           op.job \in {"replace", "route"}
    PROVE  op.s \in DOMAIN rows
  BY DEF OpFit, RowsFit, Replacing, Revocable, JobsFit, At

LEMMA WritesTyped ==
    ASSUME TypeOK, OpFit, RowsFit, LeasesIssued, WritesRow, issued' = issued
    PROVE  IsTable(rows') /\ Leased'
  <1>0. IsTable(rows) /\ Leased /\ (\A s \in DOMAIN rows : rows[s] \in Row)
    BY DEF TypeOK, Leased, IsTable
  <1>a. op.prev \in Row /\ op.node \in Nodes \cup {None}
    BY OpFields DEF OpFit
  <1>b. op.pc \in {"clear", "allocate", "write", "delete", "route", "restore"}
            => op.s \in Sessions
    BY DEF OpFit, JobsFit, At
  <1>1. CASE ClearMissing
    BY <1>0, <1>1, RepairedLeased DEF ClearMissing
  <1>2. CASE Write /\ op.job = "replace"
    <2>1. op.s \in DOMAIN rows /\ op.s \in Sessions
      BY <1>b, <1>2, ReachedRow DEF Write, At
    <2>2. Moved(rows[op.s], op.node) \in Row
      BY <1>0, <1>a, <2>1, RowTyped DEF Routes
    <2>3. Moved(rows[op.s], op.node).lease = rows[op.s].lease
      BY <1>0, <2>1, RowChanges
    <2> QED
      BY <1>0, <1>2, <2>1, <2>2, <2>3, PutLeased DEF Write, Leased
  <1>3. CASE Write /\ op.job # "replace"
    <2>1. [Lazy EXCEPT !.node = op.node] \in Row
      BY <1>0, <1>a, RowTyped DEF Routes, Row, Lazy
    <2>2. [Lazy EXCEPT !.node = op.node].lease = None
      BY DEF Lazy
    <2>3. op.s \in Sessions /\ rows' = Put(op.s, [Lazy EXCEPT !.node = op.node])
      BY <1>b, <1>3 DEF Write, At
    <2> QED
      BY <1>0, <2>1, <2>2, <2>3, PutLeased
  <1>4. CASE Delete
    BY <1>0, <1>4, DropLeased DEF Delete
  <1>5. CASE Route
    <2>1. op.s \in DOMAIN rows /\ op.s \in Sessions /\ op.to \in Routes
      BY <1>b, <1>5, ReachedRow DEF Route, At, OpFit, JobsFit
    <2>2. Routed(rows[op.s], op.to) \in Row
          /\ Routed(rows[op.s], op.to).lease = rows[op.s].lease
      BY <1>0, <2>1, RowTyped, RowChanges
    <2> QED
      BY <1>0, <1>5, <2>1, <2>2, PutLeased DEF Route, Leased
  <1>6. CASE Restore
    <2>1. CASE op.job = "create"
      BY <1>0, <1>6, <2>1, DropLeased DEF Restore
    <2>2. CASE op.job # "create"
      <3>1. op.s \in Sessions /\ rows' = Put(op.s, op.prev)
        BY <1>b, <1>6, <2>2 DEF Restore, At
      <3>2. op.prev.lease \in issued \cup {None}
        BY DEF LeasesIssued
      <3> QED
        BY <1>0, <1>a, <3>1, <3>2, PutLeased
    <2> QED
      BY <2>1, <2>2
  <1> QED
    BY <1>1, <1>2, <1>3, <1>4, <1>5, <1>6 DEF WritesRow

\* A lease that is issued is a new one.
LEMMA ClaimIssues ==
    ASSUME TypeOK, LeasesCounted, NEW s \in Sessions, NEW h \in Holders, Claim(s, h)
    PROVE  \E n \in 1 .. MaxLeases :
              /\ n = Cardinality(Of(h)) + 1
              /\ <<h, n>> \in Leases \ issued
              /\ rows' = Put(s, [rows[s] EXCEPT !.lease = <<h, n>>])
              /\ issued' = issued \cup {<<h, n>>}
  <1>1. PICK n \in 1 .. MaxLeases :
            /\ n = Cardinality(Of(h)) + 1
            /\ rows' = Put(s, [rows[s] EXCEPT !.lease = <<h, n>>])
            /\ issued' = issued \cup {<<h, n>>}
    BY DEF Claim, ClaimUnlocked, Of
  <1>2. <<h, n>> \in Leases
    BY DEF Leases
  <1>3. <<h, n>> \notin issued
    <2>1. SUFFICES ASSUME <<h, n>> \in issued PROVE FALSE
      OBVIOUS
    <2>2. <<h, n>> \in Of(h)
      BY <2>1 DEF Of
    <2>3. n <= Cardinality(Of(h)) /\ IsFiniteSet(Of(h))
      BY <2>2 DEF LeasesCounted
    <2>4. Cardinality(Of(h)) \in Nat
      BY <2>3, FS_CardinalityType
    <2> QED
      BY <1>1, <2>3, <2>4
  <1> QED
    BY <1>1, <1>2, <1>3

LEMMA RowEditsTyped ==
    ASSUME TypeOK, LeasesCounted, RowEdits
    PROVE  /\ Leased' /\ issued \subseteq issued' /\ issued' \subseteq Leases
           /\ EditTyped' /\ BoundsTyped' /\ raced' \in BOOLEAN
           /\ UNCHANGED channel
  <1>0. /\ IsTable(rows) /\ Leased /\ (\A s \in DOMAIN rows : rows[s] \in Row)
        /\ EditTyped /\ BoundsTyped /\ raced \in BOOLEAN /\ issued \subseteq Leases
    BY DEF TypeOK, Leased, IsTable, EditTyped, BoundsTyped
  <1>1. ASSUME NEW s \in Sessions, Expire(s)
        PROVE  Leased' /\ BoundsTyped' /\ UNCHANGED <<issued, edit, raced, channel>>
    <2>1. BoundsTyped'
      BY <1>0, <1>1, EventTyped DEF Expire, BoundsTyped
    <2>2. s \in DOMAIN rows /\ rows' = [rows EXCEPT ![s].expired = TRUE]
          /\ UNCHANGED <<issued, edit, raced, channel>>
      BY <1>1 DEF Expire, leases
    <2>3. DOMAIN rows' = DOMAIN rows
          /\ \A i \in DOMAIN rows : rows'[i].lease = rows[i].lease
      BY <1>0, <2>2 DEF IsTable, Row
    <2> QED
      BY <1>0, <2>1, <2>2, <2>3 DEF Leased
  <1>2. ASSUME NEW s \in Sessions, NEW h \in Holders, Claim(s, h)
        PROVE  /\ Leased' /\ issued \subseteq issued' /\ issued' \subseteq Leases
               /\ UNCHANGED <<edit, raced, channel, bounds>>
    <2>1. PICK n \in 1 .. MaxLeases :
              /\ <<h, n>> \in Leases
              /\ rows' = Put(s, [rows[s] EXCEPT !.lease = <<h, n>>])
              /\ issued' = issued \cup {<<h, n>>}
      BY <1>2, ClaimIssues
    <2>2. s \in DOMAIN rows /\ UNCHANGED <<edit, raced, channel, bounds>>
      BY <1>2 DEF Claim, ClaimUnlocked
    <2>3. [rows[s] EXCEPT !.lease = <<h, n>>] \in Row
          /\ [rows[s] EXCEPT !.lease = <<h, n>>].lease = <<h, n>>
      BY <1>0, <2>1, <2>2 DEF Row
    <2>4. Leased'
      <3>1. issued \subseteq issued' /\ <<h, n>> \in issued' \cup {None}
        BY <2>1
      <3>2. IsTable(rows) /\ Leased
        BY <1>0
      <3> QED
        BY <2>1, <2>3, <3>1, <3>2, PutLeased
    <2> QED
      BY <1>0, <2>1, <2>2, <2>4
  <1>3. ASSUME NEW s \in Sessions, NEW lease \in issued, ReleaseLease(s, lease)
        PROVE  Leased' /\ UNCHANGED <<issued, edit, raced, channel, bounds>>
    <2>1. s \in DOMAIN rows /\ rows' = Put(s, [rows[s] EXCEPT !.lease = None])
          /\ UNCHANGED <<issued, edit, raced, channel, bounds>>
      BY <1>3 DEF ReleaseLease, leases
    <2>2. [rows[s] EXCEPT !.lease = None] \in Row /\ [rows[s] EXCEPT !.lease = None].lease = None
      BY <1>0, <2>1 DEF Row
    <2> QED
      BY <1>0, <2>1, <2>2, PutLeased
  <1>4. ASSUME ClearOne
        PROVE  Leased' /\ EditTyped' /\ BoundsTyped' /\ raced' \in BOOLEAN
               /\ UNCHANGED <<issued, channel>>
    <2>1. EditTyped'
      BY <1>0, <1>4 DEF ClearOne, Edit, EditTyped, NoEdit
    <2>2. BoundsTyped' /\ UNCHANGED <<issued, channel>>
      BY <1>0, <1>4 DEF ClearOne, Edit, BoundsTyped, leases, channel
    <2>3. raced' \in BOOLEAN
      BY <1>0, <1>4 DEF ClearOne
    <2>4. ASSUME NEW s \in DOMAIN rows, rows' = Put(s, Cleared(rows[s])) PROVE Leased'
      <3>1. s \in Sessions /\ Cleared(rows[s]) \in Row /\ Cleared(rows[s]).lease = None
        BY <1>0, RowTyped, RowChanges DEF Routes, IsTable
      <3> QED
        BY <1>0, <2>2, <2>4, <3>1, PutLeased
    <2>5. ASSUME rows' = rows PROVE Leased'
      BY <1>0, <2>2, <2>5 DEF Leased
    <2> QED
      BY <1>4, <2>1, <2>2, <2>3, <2>4, <2>5 DEF ClearOne
  <1> QED
    BY <1>0, <1>1, <1>2, <1>3, <1>4 DEF RowEdits, EditTyped, BoundsTyped, bounds

LeasesTyped == issued \subseteq Leases /\ lapsed \subseteq issued

ChannelTyped ==
    count \in {0} \cup Sessions /\ eager \in BOOLEAN /\ upstream \in BOOLEAN
    /\ raced \in BOOLEAN

LEMMA TypeParts ==
    TypeOK /\ JobsFit <=>
        /\ IsTable(rows) /\ Leased /\ NodesTyped /\ PlaneTyped /\ SeenTyped
        /\ EditTyped /\ BoundsTyped /\ LeasesTyped /\ ChannelTyped /\ OpFit
  BY DEF TypeOK, Leased, NodesTyped, PlaneTyped, SeenTyped, EditTyped, BoundsTyped,
         LeasesTyped, ChannelTyped, OpFit

LEMMA NextTypeParts ==
    ASSUME IsTable(rows'), Leased', NodesTyped', PlaneTyped', SeenTyped', EditTyped',
           BoundsTyped', LeasesTyped', ChannelTyped', OpFit'
    PROVE  TypeOK' /\ JobsFit'
  BY DEF TypeOK, Leased, NodesTyped, PlaneTyped, SeenTyped, EditTyped, BoundsTyped,
         LeasesTyped, ChannelTyped, OpFit

LEMMA OthersTyped ==
    ASSUME TypeOK, Others
    PROVE  /\ NodesTyped' /\ PlaneTyped' /\ SeenTyped' /\ EditTyped' /\ BoundsTyped'
           /\ LeasesTyped' /\ ChannelTyped'
  <1> DEFINE Typed == /\ NodesTyped /\ PlaneTyped /\ SeenTyped /\ EditTyped
                      /\ BoundsTyped /\ LeasesTyped /\ ChannelTyped
  <1>0. IsTable(rows) /\ Leased /\ (\A s \in DOMAIN rows : rows[s] \in Row) /\ Typed
    BY DEF TypeOK, IsTable, Leased, NodesTyped, PlaneTyped, SeenTyped, EditTyped,
           BoundsTyped, LeasesTyped, ChannelTyped
  <1>u. ASSUME UNCHANGED <<nodes, plane>> PROVE NodesTyped' /\ PlaneTyped'
    BY <1>0, <1>u DEF NodesTyped, PlaneTyped, plane
  <1>s. ASSUME UNCHANGED seen PROVE SeenTyped'
    BY <1>0, <1>s DEF SeenTyped
  <1>d. ASSUME UNCHANGED edit PROVE EditTyped'
    BY <1>0, <1>d DEF EditTyped
  <1>b. ASSUME UNCHANGED bounds PROVE BoundsTyped'
    BY <1>0, <1>b DEF BoundsTyped, bounds
  <1>l. ASSUME UNCHANGED leases PROVE LeasesTyped'
    BY <1>0, <1>l DEF LeasesTyped, leases
  <1>c. ASSUME UNCHANGED <<channel, upstream, raced>> PROVE ChannelTyped'
    BY <1>0, <1>c DEF ChannelTyped, channel
  <1>1. ASSUME NEW s \in Sessions, Read(s) PROVE Typed'
    <2>1. rows[s] \in Row
      BY <1>0, <1>1 DEF Read
    <2>2. (op.s # s) \in BOOLEAN
      OBVIOUS
    <2> DEFINE free == op.s # s
    <2> HIDE DEF free
    <2>3. seen' = [s |-> s, version |-> rows[s].version, node |-> rows[s].node, sound |-> free]
      BY <1>1 DEF Read, free
    <2>4. SeenTyped'
      BY <2>1, <2>2, <2>3 DEF Row, SeenTyped, free
    <2> QED
      BY <1>1, <1>u, <1>d, <1>b, <1>l, <1>c, <2>4 DEF Read, window
  <1>2. CASE ListNodes \/ ListSessions \/ Save
    <2>1. NodesTyped' /\ PlaneTyped' /\ SeenTyped' /\ LeasesTyped'
      BY <1>2, <1>u, <1>s, <1>l DEF ListNodes, ListSessions, Save, Edit
    <2>2. BoundsTyped'
      BY <1>0, <1>2, EventTyped DEF ListNodes, ListSessions, Save, Edit, BoundsTyped
    <2>3. ChannelTyped'
      BY <1>0, <1>2 DEF ListNodes, ListSessions, Save, Edit, ChannelTyped
    <2>4. EditTyped'
      <3>1. Usable \subseteq Nodes /\ Dangling(edit.known) \subseteq Sessions
        BY <1>0 DEF Usable, Dangling, IsTable
      <3> QED
        BY <1>2, <3>1 DEF ListNodes, ListSessions, Save, Edit, NoEdit, EditTyped
    <2> QED
      BY <2>1, <2>2, <2>3, <2>4
  <1>3. ASSUME NEW lease \in issued, Lapse(lease) PROVE Typed'
    <2>1. LeasesTyped'
      BY <1>0, <1>3 DEF Lapse, LeasesTyped
    <2> QED
      BY <1>3, <1>u, <1>s, <1>d, <1>b, <1>c, <2>1 DEF Lapse, window
  <1>4. ASSUME NEW n \in Nodes, Lose(n) PROVE Typed'
    <2>1. NodesTyped' /\ PlaneTyped'
      BY <1>0, <1>4 DEF Lose, NodesTyped, PlaneTyped, plane
    <2>2. BoundsTyped'
      BY <1>0, <1>4, FaultTyped DEF Lose, BoundsTyped
    <2> QED
      BY <1>4, <1>s, <1>d, <1>l, <1>c, <2>1, <2>2 DEF Lose
  <1>5. CASE SetUpstream
    <2>1. BoundsTyped'
      BY <1>0, <1>5, FaultTyped DEF SetUpstream, BoundsTyped
    <2>2. ChannelTyped'
      BY <1>0, <1>5 DEF SetUpstream, ChannelTyped, channel
    <2> QED
      BY <1>5, <1>u, <1>s, <1>d, <1>l, <2>1, <2>2 DEF SetUpstream, window
  <1>6. CASE ApplyElsewhere
    <2>1. NodesTyped' /\ PlaneTyped'
      BY <1>0, <1>6, CompiledTyped DEF ApplyElsewhere, NodesTyped, PlaneTyped, window
    <2>2. BoundsTyped'
      BY <1>0, <1>6, EventTyped DEF ApplyElsewhere, BoundsTyped
    <2> QED
      BY <1>6, <1>s, <1>d, <1>l, <1>c, <2>1, <2>2 DEF ApplyElsewhere
  <1> QED
    BY <1>1, <1>2, <1>3, <1>4, <1>5, <1>6 DEF Others

LEMMA TypeStep ==
    ASSUME TypeOK, JobsFit, RowsFit, LeasesIssued, LeasesCounted, [Next]_vars
    PROVE  TypeOK' /\ JobsFit'
  <1>0. /\ IsTable(rows) /\ Leased /\ NodesTyped /\ PlaneTyped /\ SeenTyped
        /\ EditTyped /\ BoundsTyped /\ LeasesTyped /\ ChannelTyped /\ OpFit
    BY TypeParts
  <1>a. OpFit'
    BY <1>0, OpFitNext
  <1> DEFINE Rest == /\ IsTable(rows) /\ Leased /\ NodesTyped /\ PlaneTyped /\ SeenTyped
                     /\ EditTyped /\ BoundsTyped /\ LeasesTyped /\ ChannelTyped
  <1>b. ASSUME UNCHANGED <<rows, issued>> PROVE IsTable(rows') /\ Leased'
    BY <1>0, <1>b DEF Leased
  <1>1. CASE Work
    <2>0. UNCHANGED <<edit, issued, lapsed, count, eager, upstream, raced>>
      BY <1>1 DEF Work, channel, leases
    <2>1. IsTable(rows') /\ Leased'
      <3>1. CASE WritesRow
        BY <1>0, <2>0, <3>1, WritesTyped
      <3>2. CASE ~ WritesRow
        BY <1>0, <1>1, <1>b, <2>0, <3>2, WorkForms
      <3> QED
        BY <3>1, <3>2
    <2>2. EditTyped' /\ LeasesTyped' /\ ChannelTyped'
      BY <1>0, <2>0 DEF EditTyped, LeasesTyped, ChannelTyped
    <2> QED
      BY <1>a, <1>1, <2>1, <2>2, WorkTyped, NextTypeParts
  <1>2. ASSUME NEW s \in Sessions, Requests(s) PROVE Rest'
    <2>1. Event /\ UNCHANGED <<rows, nodes, served, published, count, eager, upstream, edit,
                               issued, lapsed, seen, raced, faults>>
      BY <1>2, RequestsStart DEF window, plane, channel, leases
    <2>2. BoundsTyped'
      BY <1>0, <2>1, EventTyped DEF BoundsTyped
    <2> QED
      BY <1>0, <1>b, <2>1, <2>2 DEF NodesTyped, PlaneTyped, SeenTyped, EditTyped,
                                    LeasesTyped, ChannelTyped
  <1>3. CASE Maintain
    <2>1. UNCHANGED <<rows, nodes, served, published, count, eager, upstream, edit,
                      issued, lapsed, seen, raced, events, faults>>
      BY <1>0, <1>3, MaintainLaunches DEF window, plane, channel, leases, bounds
    <2>2. Rest'
      BY <1>0, <1>b, <2>1 DEF NodesTyped, PlaneTyped, SeenTyped, EditTyped, BoundsTyped,
                              LeasesTyped, ChannelTyped
    <2> QED
      BY <1>a, <2>2, NextTypeParts
  <1>4. CASE Sync
    <2>1. /\ rows' = Repaired /\ edit' = NoEdit
          /\ UNCHANGED <<nodes, served, published, count, eager, upstream,
                         issued, lapsed, seen, raced, events, faults>>
      BY <1>0, <1>4, SyncLaunches DEF plane, channel, leases, bounds
    <2>2. IsTable(rows') /\ Leased'
      BY <1>0, <2>1, RepairedLeased
    <2>3. Rest'
      BY <1>0, <2>1, <2>2 DEF NodesTyped, PlaneTyped, SeenTyped, EditTyped, NoEdit,
                              BoundsTyped, LeasesTyped, ChannelTyped
    <2> QED
      BY <1>a, <2>3, NextTypeParts
  <1>5. CASE RowEdits
    <2>1. /\ IsTable(rows') /\ Leased' /\ EditTyped' /\ BoundsTyped' /\ raced' \in BOOLEAN
          /\ issued \subseteq issued' /\ issued' \subseteq Leases
          /\ UNCHANGED <<nodes, served, published, count, eager, upstream, lapsed, seen>>
      BY <1>5, RowEditsKeep, RowEditsTyped DEF plane, channel
    <2>2. Rest'
      BY <1>0, <2>1 DEF NodesTyped, PlaneTyped, SeenTyped, LeasesTyped, ChannelTyped
    <2> QED
      BY <1>a, <2>2, NextTypeParts
  <1>6. CASE Others
    BY <1>a, <1>b, <1>6, OthersKeep, OthersTyped, NextTypeParts
  <1>7. CASE Crash
    <2>1. Fault /\ edit' = NoEdit
          /\ UNCHANGED <<rows, nodes, count, eager, upstream, issued, lapsed, seen,
                         raced, events>>
      BY <1>7 DEF Crash, window, channel, leases
    <2>2. BoundsTyped'
      BY <1>0, <2>1, FaultTyped DEF BoundsTyped
    <2>3. PlaneTyped'
      BY <1>0, <1>7, CompiledTyped DEF Crash, PlaneTyped
    <2>4. Rest'
      BY <1>0, <1>b, <2>1, <2>2, <2>3 DEF NodesTyped, SeenTyped, EditTyped, NoEdit,
                                          LeasesTyped, ChannelTyped
    <2> QED
      BY <1>a, <2>4, NextTypeParts
  <1>8. CASE UNCHANGED vars
    <2>1. Rest'
      BY <1>0, <1>8 DEF vars, window, plane, channel, leases, bounds, Leased, NodesTyped,
                        PlaneTyped, SeenTyped, EditTyped, BoundsTyped, LeasesTyped, ChannelTyped
    <2> QED
      BY <1>a, <2>1, NextTypeParts
  <1> QED
    BY <1>a, <1>1, <1>2, <1>3, <1>4, <1>5, <1>6, <1>7, <1>8, StepSplit, NextTypeParts

-----------------------------------------------------------------------------
(* Which rows exist.                                                       *)

\* What the five steps that write a row do to the request.
LEMMA WriteForms ==
    ASSUME OpFit, WritesRow
    PROVE  /\ op'.s = op.s /\ op'.rest = op.rest /\ op'.todo = op.todo /\ op'.job = op.job
           /\ op.s \in Sessions
           /\ \/ /\ ClearMissing /\ op.job = "replace" /\ op'.pc = "allocate"
                 /\ op'.prev = Repaired[op.s] /\ op'.node = op.node
                 /\ op'.by = op.by /\ op'.saw = op.saw /\ op'.lease = op.lease
              \/ /\ Write /\ op.job \in {"replace", "create"} /\ op'.pc = "publish"
                 /\ op'.prev = op.prev
                 /\ op'.saw = "any" /\ op'.by # "guarded"
                 /\ op'.by = op.by \/ op.by = "guarded"
              \/ /\ Delete /\ op.job = "remove" /\ op'.pc = "publish" /\ op'.prev = op.prev
                 /\ op'.by = op.by /\ op'.saw = op.saw
              \/ /\ Route /\ op.job = "route" /\ op'.pc = "commit" /\ op'.prev = op.prev
                 /\ op'.saw = "any" /\ op'.by # "guarded"
                 /\ op'.by = op.by \/ op.by = "guarded"
              \/ /\ Restore /\ op.job \in {"replace", "create", "remove", "route"}
                 /\ op'.pc \in {"discard", "publish", "commit"} /\ op'.undo /\ op'.prev = op.prev
                 /\ op'.by = op.by /\ op'.saw = op.saw
  <1>0. IsOp(op)
    BY DEF OpFit
  <1>1. CASE ClearMissing
    <2>1. op' = [op EXCEPT !.pc = "allocate", !.prev = Repaired[op.s]]
      BY <1>1 DEF ClearMissing
    <2>2. /\ op'.s = op.s /\ op'.rest = op.rest /\ op'.todo = op.todo /\ op'.job = op.job
          /\ op'.pc = "allocate" /\ op'.prev = Repaired[op.s] /\ op'.node = op.node
          /\ op'.by = op.by /\ op'.saw = op.saw /\ op'.lease = op.lease
      BY <1>0, <2>1 DEF IsOp
    <2> QED
      BY <1>1, <2>2 DEF ClearMissing, OpFit, JobsFit, At
  <1>2. ASSUME NEW pc, Written(pc)
        PROVE  /\ op'.s = op.s /\ op'.rest = op.rest /\ op'.todo = op.todo /\ op'.job = op.job
               /\ op'.pc = pc /\ op'.prev = op.prev
               /\ op'.saw = "any" /\ op'.by # "guarded"
               /\ op'.by = op.by \/ op.by = "guarded"
    <2> DEFINE by == IF op.by = "guarded" THEN "other" ELSE op.by
    <2>1. op' = [op EXCEPT !.pc = pc, !.to = None, !.lease = None, !.saw = "any",
                           !.by = by]
      BY <1>0, <1>2 DEF Written, IsOp
    <2>2. by # "guarded" /\ (by = op.by \/ op.by = "guarded")
      OBVIOUS
    <2> HIDE DEF by
    <2> QED
      BY <1>0, <2>1, <2>2 DEF IsOp
  <1>3. ASSUME NEW pc, Go(pc)
        PROVE  /\ op'.s = op.s /\ op'.rest = op.rest /\ op'.todo = op.todo /\ op'.job = op.job
               /\ op'.pc = pc /\ op'.prev = op.prev /\ op'.undo = op.undo
               /\ op'.by = op.by /\ op'.saw = op.saw
    BY <1>0, <1>3 DEF Go, IsOp
  <1>4. CASE Write \/ Route
    BY <1>2, <1>4 DEF Write, Route, OpFit, JobsFit, At
  <1>5. CASE Delete
    BY <1>3, <1>5 DEF Delete, OpFit, JobsFit, At
  <1>6. CASE Restore
    <2>1. op.job \in {"replace", "create", "remove", "route"} /\ op.undo /\ op.s \in Sessions
      BY <1>6 DEF Restore, OpFit, JobsFit, At
    <2>2. \E pc \in {"discard", "publish", "commit"} : Go(pc)
      BY <1>6, <2>1 DEF Restore
    <2> QED
      BY <1>3, <1>6, <2>1, <2>2
  <1> QED
    BY <1>1, <1>4, <1>5, <1>6 DEF WritesRow

LEMMA WorkRowsFit == ASSUME TypeOK, OpFit, RowsFit, Work PROVE RowsFit'
  <1>0. IsTable(rows) /\ IsTable(op.rest)
    BY OpFields DEF TypeOK, OpFit
  <1>1. CASE WritesRow
    <2>1. op'.s = op.s /\ op'.rest = op.rest /\ op'.todo = op.todo /\ op'.job = op.job
          /\ op.s \in Sessions /\ op.pc # "next" /\ op'.pc # "next"
      BY <1>1, WriteForms DEF WritesRow, ClearMissing, Write, Delete, Route, Restore, At
    <2>2. op.s \notin DOMAIN op.rest \cup op.todo
      BY <2>1 DEF RowsFit, At
    <2>3. CASE ClearMissing
      <3>1. DOMAIN rows' = DOMAIN rows /\ op'.pc = "allocate" /\ op.job = "replace"
            /\ op.s \in DOMAIN rows
        <4>1. DOMAIN rows' = DOMAIN rows
          BY <1>0, <2>3, RepairedTable DEF ClearMissing
        <4>2. op'.pc = "allocate" /\ op.job = "replace"
          BY <2>3, GoTyped DEF ClearMissing, OpFit, JobsFit, At, IsOp
        <4> QED
          BY <2>3, <4>1, <4>2, ReachedRow DEF ClearMissing, At
      <3> QED
        BY <2>1, <2>2, <3>1 DEF RowsFit, Replacing, Revocable, At
    <2>4. CASE Write /\ op.job = "replace"
      <3>1. op.s \in DOMAIN rows
        BY <2>4, ReachedRow DEF Write, At
      <3>2. DOMAIN rows' = DOMAIN rows \cup {op.s}
        BY <2>4 DEF Write, Put
      <3>3. op'.pc = "publish"
        BY <2>4, WrittenFits DEF Write, Written, OpFit, IsOp
      <3> QED
        BY <2>1, <2>2, <2>4, <3>1, <3>2, <3>3 DEF RowsFit, Replacing, Revocable, At
    <2>5. CASE Write /\ op.job # "replace"
      <3>1. op.job = "create"
        BY <2>5 DEF Write, OpFit, JobsFit, At
      <3>2. DOMAIN rows' = DOMAIN rows \cup {op.s}
        BY <2>5 DEF Write, Put
      <3>3. op'.pc = "publish"
        BY <2>5 DEF Write, Written, OpFit, IsOp
      <3> QED
        BY <2>1, <2>2, <3>1, <3>2, <3>3 DEF RowsFit, Replacing, Revocable, At
    <2>6. CASE Delete
      <3>1. op.job = "remove" /\ op'.pc = "publish"
        BY <2>6 DEF Delete, Go, OpFit, IsOp, JobsFit, At
      <3>2. DOMAIN rows' = DOMAIN rows \ {op.s}
        BY <2>6 DEF Delete, Drop, Without
      <3> QED
        BY <2>1, <2>2, <3>1, <3>2 DEF RowsFit, Replacing, Revocable, At
    <2>7. CASE Route
      <3>1. op.job = "route" /\ op'.pc = "commit" /\ op.s \in DOMAIN rows
        BY <2>7, ReachedRow DEF Route, Written, OpFit, IsOp, JobsFit, At
      <3>2. DOMAIN rows' = DOMAIN rows \cup {op.s}
        BY <2>7 DEF Route, Put
      <3> QED
        BY <2>1, <2>2, <3>1, <3>2 DEF RowsFit, Replacing, Revocable, At
    <2>8. CASE Restore
      <3>1. op'.pc \in {"discard", "publish", "commit"} /\ op'.undo
        BY <2>8, WriteForms DEF WritesRow, Restore, ClearMissing, Write, Delete, Route, At
      <3>2. ~ Revocable' /\ ~ Replacing' /\ ~ At("delete")' /\ op'.pc \notin {"allocate", "write"}
        BY <3>1 DEF Revocable, Replacing, At
      <3>3. DOMAIN rows' \in {DOMAIN rows \ {op.s}, DOMAIN rows \cup {op.s}}
        BY <2>8 DEF Restore, Drop, Without, Put
      <3> QED
        BY <2>1, <2>2, <3>2, <3>3 DEF RowsFit, At
    <2> QED
      BY <1>1, <2>3, <2>4, <2>5, <2>6, <2>7, <2>8 DEF WritesRow
  <1>2. CASE ~ WritesRow
    <2>0. rows' = rows
      BY <1>2, WorkForms
    <2>1. CASE Quits
      BY <2>0, <2>1, NoRowsTable DEF Quits, Idle, RowsFit, Replacing, Revocable, At
    <2>2. CASE GoesOn
      BY <2>0, <2>2 DEF GoesOn, RowsFit, Replacing, Revocable, At
    <2>3. CASE Repairs
      BY <2>0, <2>3, NoRowsTable DEF Repairs, RowsFit, Replacing, Revocable, At
    <2>4. ASSUME NEW s \in Sessions, Takes(s) PROVE RowsFit'
      <3>1. DOMAIN Without(s, op.rest) = DOMAIN op.rest \ {s}
        BY DEF Without
      <3>2. DOMAIN op.rest \subseteq DOMAIN rows /\ op.todo \cap DOMAIN rows = {}
        BY DEF RowsFit
      <3> QED
        BY <2>0, <2>4, <3>1, <3>2 DEF Takes, RowsFit, Replacing, Revocable, At
    <2> QED
      BY <1>2, <2>1, <2>2, <2>3, <2>4, WorkForms
  <1> QED
    BY <1>1, <1>2

LEMMA RowsFitStep ==
    ASSUME TypeOK, JobsFit, RowsFit, [Next]_vars PROVE RowsFit'
  <1>0. OpFit /\ IsTable(rows)
    BY TypeParts
  <1>1. CASE Work
    BY <1>0, <1>1, WorkRowsFit
  <1>2. ASSUME NEW s \in Sessions, Requests(s) PROVE RowsFit'
    <2>1. Starts(s) /\ rows' = rows
      BY <1>2, RequestsStart DEF window
    <2> QED
      BY <2>1, NoRowsTable DEF Starts, RowsFit, Replacing, Revocable, At
  <1>3. CASE Maintain \/ Sync
    <2>1. Launches /\ DOMAIN rows' = DOMAIN rows
      BY <1>0, <1>3, MaintainLaunches, SyncLaunches, RepairedTable DEF window
    <2> QED
      BY <2>1 DEF Launches, RowsFit, Replacing, Revocable, At
  <1>4. ASSUME op' = op, DOMAIN rows' = DOMAIN rows PROVE RowsFit'
    BY <1>4 DEF RowsFit, Replacing, Revocable, At
  <1>5. CASE Crash
    <2>1. op' = Idle
      BY <1>5 DEF Crash
    <2> QED
      BY <2>1, NoRowsTable DEF Idle, RowsFit, Replacing, Revocable, At
  <1> QED
    BY <1>1, <1>2, <1>3, <1>4, <1>5, StepSplit, OthersKeep, RowEditsKeep DEF vars, window

-----------------------------------------------------------------------------
(* Leases.                                                                 *)

LEMMA LeasesIssuedStep ==
    ASSUME TypeOK, JobsFit, RowsFit, LeasesIssued, LeasesCounted, [Next]_vars
    PROVE  LeasesIssued'
  <1>0. OpFit /\ IsTable(rows) /\ Leased /\ IsTable(op.rest) /\ DOMAIN op.rest \subseteq DOMAIN rows
    BY TypeParts, OpFields DEF RowsFit, OpFit
  <1>a. Lazy.lease = None
    BY DEF Lazy
  <1>b. op.prev.lease \in issued \cup {None}
        /\ \A s \in DOMAIN op.rest : op.rest[s].lease \in issued \cup {None}
    BY DEF LeasesIssued
  <1>1. CASE Work
    <2>0. issued' = issued
      BY <1>1 DEF Work, leases
    <2>1. CASE WritesRow
      <3>1. op'.rest = op.rest /\ op.s \in Sessions
            /\ (op'.prev = op.prev \/ (ClearMissing /\ op'.prev = Repaired[op.s]))
        BY <1>0, <2>1, WriteForms
      <3>2. ASSUME ClearMissing PROVE Repaired[op.s].lease \in issued \cup {None}
        <4>1. op.s \in DOMAIN rows
          BY <1>0, <3>2, ReachedRow DEF ClearMissing, At, OpFit, JobsFit
        <4>2. rows[op.s] \in Row /\ rows[op.s].lease \in issued \cup {None}
          BY <1>0, <4>1 DEF IsTable, Leased
        <4>3. Cleared(rows[op.s]).lease = None
          BY <4>2, RowChanges
        <4> QED
          BY <1>0, <4>1, <4>2, <4>3, RepairedTable
      <3> QED
        BY <1>b, <2>0, <3>1, <3>2 DEF LeasesIssued
    <2>2. CASE ~ WritesRow
      <3>1. ASSUME NEW s \in Sessions, Takes(s) PROVE LeasesIssued'
        <4>1. \A i \in DOMAIN Without(s, op.rest) :
                 i \in DOMAIN op.rest /\ Without(s, op.rest)[i] = op.rest[i]
          BY DEF Without
        <4> QED
          BY <1>a, <1>b, <2>0, <3>1, <4>1 DEF Takes, LeasesIssued
      <3>2. CASE Quits
        BY <1>a, <1>b, <2>0, <3>2, NoRowsTable DEF Quits, Idle, LeasesIssued
      <3>3. CASE GoesOn
        BY <1>a, <1>b, <2>0, <3>3 DEF GoesOn, LeasesIssued
      <3>4. CASE Repairs
        BY <1>a, <3>4, NoRowsTable DEF Repairs, LeasesIssued
      <3> QED
        BY <1>0, <1>1, <2>2, <3>1, <3>2, <3>3, <3>4, WorkForms
    <2> QED
      BY <2>1, <2>2
  <1>2. ASSUME NEW s \in Sessions, Requests(s) PROVE LeasesIssued'
    <2>1. Starts(s) /\ issued' = issued
      BY <1>2, RequestsStart DEF leases
    <2> QED
      BY <1>0, <1>a, <2>1, NoRowsTable DEF Starts, LeasesIssued, Leased
  <1>3. CASE Maintain \/ Sync
    <2>1. /\ Launches /\ issued' = issued /\ Leased'
          /\ DOMAIN rows' = DOMAIN rows /\ \A s \in DOMAIN op'.rest : op'.rest[s] = rows'[s]
      <3>1. CASE Maintain
        <4>1. /\ Launches /\ issued' = issued /\ rows' = rows
              /\ \A s \in DOMAIN op'.rest : op'.rest[s] = rows[s]
          BY <1>0, <3>1, MaintainLaunches DEF window, leases
        <4> QED
          BY <1>0, <4>1 DEF Leased
      <3>2. CASE Sync
        BY <1>0, <3>2, SyncLaunches, RepairedTable, RepairedLeased DEF leases
      <3> QED
        BY <1>3, <3>1, <3>2
    <2> QED
      BY <1>a, <2>1 DEF Launches, LeasesIssued, Leased
  <1>4. ASSUME op' = op, issued \subseteq issued' PROVE LeasesIssued'
    BY <1>b, <1>4 DEF LeasesIssued
  <1>5. CASE Crash
    BY <1>a, <1>5, NoRowsTable DEF Crash, Idle, LeasesIssued
  <1>6. CASE RowEdits
    BY <1>4, <1>6, RowEditsKeep, RowEditsTyped
  <1> QED
    BY <1>1, <1>2, <1>3, <1>4, <1>5, <1>6, StepSplit, OthersKeep DEF vars, leases

\* Only a claim issues leases.
LEMMA IssuedKept ==
    ASSUME TypeOK, [Next]_vars,
           ~ \E s \in Sessions, h \in Holders : Claim(s, h)
    PROVE  issued' = issued
  <1>0. IsTable(rows)
    BY DEF TypeOK
  <1>1. CASE RowEdits
    BY <1>1 DEF RowEdits, Expire, ReleaseLease, ClearOne, Edit, leases
  <1>2. CASE Work \/ Crash \/ UNCHANGED vars
    BY <1>2 DEF Work, Crash, vars, leases
  <1>3. CASE Maintain \/ Sync
    BY <1>0, <1>3, MaintainLaunches, SyncLaunches DEF leases
  <1>4. ASSUME NEW s \in Sessions, Requests(s) PROVE issued' = issued
    BY <1>4, RequestsStart DEF leases
  <1> QED
    BY <1>1, <1>2, <1>3, <1>4, StepSplit, OthersKeep

LEMMA LeasesCountedStep ==
    ASSUME TypeOK, LeasesCounted, [Next]_vars
    PROVE  LeasesCounted'
  <1>1. ASSUME NEW s \in Sessions, NEW h \in Holders, Claim(s, h) PROVE LeasesCounted'
    <2>1. PICK n \in 1 .. MaxLeases :
              /\ n = Cardinality(Of(h)) + 1
              /\ <<h, n>> \in Leases \ issued
              /\ issued' = issued \cup {<<h, n>>}
      BY <1>1, ClaimIssues
    <2>2. ASSUME NEW g \in Holders
          PROVE  /\ IsFiniteSet(Of(g)')
                 /\ \A l \in Of(g)' : l[2] <= Cardinality(Of(g)')
      <3>0. IsFiniteSet(Of(g)) /\ \A l \in Of(g) : l[2] <= Cardinality(Of(g))
        BY DEF LeasesCounted
      <3>1. CASE g = h
        <4>1. Of(g)' = Of(g) \cup {<<h, n>>} /\ <<h, n>> \notin Of(g)
          BY <2>1, <3>1 DEF Of
        <4>2. IsFiniteSet(Of(g)') /\ Cardinality(Of(g)') = Cardinality(Of(g)) + 1
          BY <3>0, <4>1, FS_AddElement
        <4>3. ASSUME NEW l \in Of(g)' PROVE l[2] <= Cardinality(Of(g)')
          <5>1. Cardinality(Of(g)) \in Nat
            BY <3>0, FS_CardinalityType
          <5>2. CASE l = <<h, n>>
            BY <2>1, <3>1, <4>2, <5>1, <5>2
          <5>3. CASE l \in Of(g)
            <6>1. l \in Leases
              BY <5>3 DEF Of, TypeOK
            <6>2. l[2] \in Nat
              BY <6>1, SessionsAssumption DEF Leases
            <6> QED
              BY <3>0, <4>2, <5>1, <5>3, <6>2
          <5> QED
            BY <4>1, <5>2, <5>3
        <4> QED
          BY <4>2, <4>3
      <3>2. CASE g # h
        <4>1. Of(g)' = Of(g)
          BY <2>1, <3>2 DEF Of
        <4> QED
          BY <3>0, <4>1
      <3> QED
        BY <3>1, <3>2
    <2> QED
      BY <2>2 DEF LeasesCounted
  <1>2. CASE issued' = issued
    BY <1>2 DEF LeasesCounted, Of
  <1> QED
    BY <1>1, <1>2, IssuedKept

\* During a request a row keeps its node and its lease, unless an edit clears it.
LEMMA RowEditsRaced ==
    ASSUME TypeOK, RowEdits, op # Idle
    PROVE  /\ raced => raced'
           /\ \A s \in DOMAIN rows : rows'[s].lease \in {rows[s].lease, None}
           /\ raced' \/ \A s \in DOMAIN rows : /\ rows'[s].lease = rows[s].lease
                                                /\ rows'[s].node = rows[s].node
  <1>0. IsTable(rows) /\ \A s \in DOMAIN rows : rows[s] \in Row
    BY DEF TypeOK, IsTable
  <1>1. ASSUME NEW s \in Sessions, Expire(s)
        PROVE  /\ raced' = raced
               /\ \A i \in DOMAIN rows : /\ rows'[i].lease = rows[i].lease
                                         /\ rows'[i].node = rows[i].node
    <2>1. s \in DOMAIN rows /\ rows' = [rows EXCEPT ![s].expired = TRUE] /\ raced' = raced
      BY <1>1 DEF Expire
    <2> QED
      BY <1>0, <2>1 DEF IsTable, Row
  <1>2. ASSUME ClearOne
        PROVE  /\ raced => raced'
               /\ \A i \in DOMAIN rows : rows'[i].lease \in {rows[i].lease, None}
               /\ raced' \/ rows' = rows
    <2>1. raced => raced'
      BY <1>2 DEF ClearOne
    <2>2. ASSUME NEW s \in DOMAIN rows, rows' = Put(s, Cleared(rows[s]))
          PROVE  \A i \in DOMAIN rows : rows'[i].lease \in {rows[i].lease, None}
      <3>1. Cleared(rows[s]).lease = None
        BY <1>0, RowChanges
      <3> QED
        BY <2>2, <3>1 DEF Put
    <2> QED
      BY <1>2, <2>1, <2>2 DEF ClearOne
  <1>3. ~ \E s \in Sessions, h \in Holders : Claim(s, h)
    BY DEF Claim, Free
  <1>4. ~ \E s \in Sessions, lease \in issued : ReleaseLease(s, lease)
    BY DEF ReleaseLease, Free
  <1> QED
    BY <1>1, <1>2, <1>3, <1>4 DEF RowEdits

LEMMA LeaseKeptStep ==
    ASSUME TypeOK, JobsFit, RowsFit, LeaseKept, [Next]_vars
    PROVE  LeaseKept'
  <1>0. OpFit /\ IsTable(rows) /\ \A s \in DOMAIN rows : rows[s] \in Row
    BY TypeParts DEF IsTable
  <1>n. ASSUME ~ Replacing' \/ At("clear")' PROVE LeaseKept'
    BY <1>n DEF LeaseKept
  <1>1. CASE Work
    <2>0. raced' = raced
      BY <1>1 DEF Work
    <2>1. CASE WritesRow
      <3>0. op'.s = op.s /\ op'.job = op.job /\ op.s \in Sessions
        BY <1>0, <2>1, WriteForms
      <3>1. CASE ClearMissing
        <4>1. op'.prev = rows'[op.s]
          BY <1>0, <3>1 DEF ClearMissing, OpFit, IsOp
        <4> QED
          BY <3>0, <4>1 DEF LeaseKept
      <3>2. CASE Write /\ op.job = "replace"
        <4>1. op.s \in DOMAIN rows /\ op'.prev = op.prev
          BY <1>0, <3>2, ReachedRow DEF Write, Written, At, OpFit, IsOp
        <4>2. rows'[op.s].lease = rows[op.s].lease
          BY <1>0, <3>0, <3>2, <4>1, RowChanges DEF Write, Put
        <4>3. Replacing /\ ~ At("clear")
          BY <3>2 DEF Write, Replacing, Revocable, At
        <4> QED
          BY <2>0, <3>0, <4>1, <4>2, <4>3 DEF LeaseKept
      <3>3. CASE Route
        <4>1. op.s \in DOMAIN rows /\ op'.prev = op.prev /\ op.job = "route"
          BY <1>0, <3>3, ReachedRow DEF Route, Written, At, OpFit, IsOp, JobsFit
        <4>2. rows'[op.s].lease = rows[op.s].lease
          BY <1>0, <3>0, <3>3, <4>1, RowChanges DEF Route, Put
        <4>3. Replacing /\ ~ At("clear")
          BY <3>3, <4>1 DEF Route, Replacing, Revocable, At
        <4> QED
          BY <2>0, <3>0, <4>1, <4>2, <4>3 DEF LeaseKept
      <3>4. CASE ~ ClearMissing /\ ~ Route /\ ~ (Write /\ op.job = "replace")
        <4>1. ~ Replacing'
          BY <1>0, <2>1, <3>4, WriteForms DEF Replacing, Revocable, At
        <4> QED
          BY <1>n, <4>1
      <3> QED
        BY <3>1, <3>2, <3>3, <3>4
    <2>2. CASE ~ WritesRow
      <3>0. rows' = rows
        BY <1>0, <1>1, <2>2, WorkForms
      <3>1. CASE GoesOn
        BY <2>0, <3>0, <3>1 DEF GoesOn, LeaseKept, Replacing, At
      <3>2. CASE Quits \/ Repairs \/ \E s \in Sessions : Takes(s)
        <4>1. ~ Replacing' \/ At("clear")'
          BY <3>2 DEF Quits, Idle, Repairs, Takes, Replacing, Revocable, At
        <4> QED
          BY <1>n, <4>1
      <3> QED
        BY <1>0, <1>1, <2>2, <3>1, <3>2, WorkForms
    <2> QED
      BY <2>1, <2>2
  <1>2. ASSUME NEW s \in Sessions, Requests(s) PROVE LeaseKept'
    <2>1. Starts(s) /\ rows' = rows
      BY <1>2, RequestsStart DEF window
    <2> QED
      BY <2>1 DEF Starts, LeaseKept, Replacing, Revocable, At
  <1>3. CASE op' = Idle \/ Launches
    <2>1. ~ Replacing'
      BY <1>3 DEF Idle, Launches, Replacing, Revocable, At
    <2> QED
      BY <1>n, <2>1
  <1>4. CASE RowEdits
    <2>1. op' = op /\ DOMAIN rows' = DOMAIN rows
      BY <1>4, RowEditsKeep
    <2>2. CASE op = Idle
      BY <1>3, <2>1, <2>2
    <2>3. CASE op # Idle
      <3>1. (Replacing' <=> Replacing) /\ (At("clear")' <=> At("clear"))
        BY <2>1 DEF Replacing, Revocable, At
      <3>2. Replacing => op.s \in DOMAIN rows
        BY DEF RowsFit
      <3> QED
        BY <1>4, <2>1, <2>3, <3>1, <3>2, RowEditsRaced DEF LeaseKept
    <2> QED
      BY <2>2, <2>3
  <1>5. CASE UNCHANGED <<rows, op, raced>>
    BY <1>5 DEF LeaseKept, Replacing, Revocable, At
  <1>6. Crash => op' = Idle
    BY DEF Crash
  <1> QED
    BY <1>0, <1>1, <1>2, <1>3, <1>4, <1>5, <1>6, StepSplit, OthersKeep,
       MaintainLaunches, SyncLaunches DEF vars, window

\* Lapsed leases stay lapsed.
LEMMA LapsedGrow ==
    ASSUME TypeOK, [Next]_vars PROVE lapsed \subseteq lapsed'
  <1>0. IsTable(rows)
    BY DEF TypeOK
  <1>1. CASE Others
    BY <1>1 DEF Others, Read, ListNodes, ListSessions, Save, Lapse, Lose, SetUpstream,
                ApplyElsewhere, Edit, leases
  <1>2. CASE Work \/ Crash \/ UNCHANGED vars
    BY <1>2 DEF Work, Crash, vars, leases
  <1>3. CASE Maintain \/ Sync
    BY <1>0, <1>3, MaintainLaunches, SyncLaunches DEF leases
  <1>4. ASSUME NEW s \in Sessions, Requests(s) PROVE lapsed' = lapsed
    BY <1>4, RequestsStart DEF leases
  <1>5. CASE RowEdits
    BY <1>5, RowEditsKeep
  <1> QED
    BY <1>1, <1>2, <1>3, <1>4, <1>5, StepSplit

LEMMA GuardHoldsStep ==
    ASSUME TypeOK, JobsFit, RowsFit, GuardHolds, SeenKnown, [Next]_vars
    PROVE  GuardHolds'
  <1>0. OpFit /\ IsTable(rows) /\ \A s \in DOMAIN rows : rows[s] \in Row
    BY TypeParts DEF IsTable
  <1>l. lapsed \subseteq lapsed'
    BY LapsedGrow
  <1>n. ASSUME op'.by # "guarded", op'.saw = "any" PROVE GuardHolds'
    BY <1>n DEF GuardHolds
  <1>g. op.by = "guarded" /\ op.pc \in {"clear", "allocate", "write", "route"}
            => op.s \in DOMAIN rows
    BY <1>0, ReachedRow DEF GuardHolds
  <1>k. ASSUME op.by = "guarded", op'.s = op.s, op'.lease = op.lease, op'.saw = op.saw,
               op.s \in DOMAIN rows,
               rows'[op.s].lease \in {rows[op.s].lease, None},
               rows'[op.s].node \in {rows[op.s].node, None}
        PROVE  /\ LeaseActive(op.s)' => rows'[op.s].lease = op'.lease
               /\ op'.saw # "any" => rows'[op.s].node \in {op'.saw, None}
    BY <1>l, <1>k DEF GuardHolds, LeaseActive
  <1>1. CASE Work
    <2>1. CASE WritesRow
      <3>1. CASE ClearMissing
        <4>0. op'.pc = "allocate" /\ op'.job = "replace" /\ op'.by = op.by
              /\ op'.s = op.s /\ op'.saw = op.saw /\ op'.lease = op.lease
          <5>1. op' = [op EXCEPT !.pc = "allocate", !.prev = rows'[op.s]] /\ op.job = "replace"
            BY <1>0, <3>1 DEF ClearMissing, OpFit, JobsFit, At
          <5> QED
            BY <1>0, <5>1 DEF OpFit, IsOp
        <4>1. CASE op.by = "guarded"
          <5>1. op.s \in DOMAIN rows
            BY <1>g, <3>1, <4>1 DEF ClearMissing, At
          <5>2. rows[op.s] \in Row /\ Cleared(rows[op.s]).lease = None
                /\ Cleared(rows[op.s]).node = None
            BY <1>0, <5>1, RowChanges
          <5>3. rows'[op.s] \in {rows[op.s], Cleared(rows[op.s])}
            BY <1>0, <3>1, <5>1, RepairedTable DEF ClearMissing
          <5>4. /\ LeaseActive(op.s)' => rows'[op.s].lease = op'.lease
                /\ op'.saw # "any" => rows'[op.s].node \in {op'.saw, None}
            BY <1>k, <4>0, <4>1, <5>1, <5>2, <5>3
          <5> QED
            BY <4>0, <4>1, <5>4 DEF GuardHolds, LeaseActive
        <4>2. CASE op.by # "guarded"
          BY <1>n, <4>0, <4>2 DEF GuardHolds
        <4> QED
          BY <4>1, <4>2
      <3>2. CASE ~ ClearMissing
        <4>1. op.pc \in {"delete", "restore"} => op.by # "guarded" /\ op.saw = "any"
          BY DEF GuardHolds
        <4>2. Delete \/ Restore => op.pc \in {"delete", "restore"}
          BY DEF Delete, Restore, At
        <4>3. op'.by # "guarded" /\ op'.saw = "any"
          BY <1>0, <2>1, <3>2, <4>1, <4>2, WriteForms
        <4> QED
          BY <1>n, <4>3
      <3> QED
        BY <3>1, <3>2
    <2>2. CASE ~ WritesRow
      <3>0. rows' = rows
        BY <1>0, <1>1, <2>2, WorkForms
      <3>1. CASE GoesOn
        <4>1. CASE op.by = "guarded"
          <5>1. op'.pc = "write" /\ op.pc \in {"allocate", "write"}
            BY <3>1, <4>1 DEF GoesOn, GuardHolds
          <5>2. op'.job = op.job /\ op'.by = op.by /\ op'.s = op.s /\ op'.saw = op.saw
                /\ op'.lease = op.lease
            BY <3>1, <5>1 DEF GoesOn, Revocable
          <5>3. /\ LeaseActive(op.s)' => rows'[op.s].lease = op'.lease
                /\ op'.saw # "any" => rows'[op.s].node \in {op'.saw, None}
            BY <1>g, <1>k, <3>0, <4>1, <5>1, <5>2
          <5> QED
            BY <4>1, <5>1, <5>2, <5>3 DEF GuardHolds, LeaseActive
        <4>2. CASE op.by # "guarded"
          BY <1>n, <3>1, <4>2 DEF GoesOn, GuardHolds
        <4> QED
          BY <4>1, <4>2
      <3>2. CASE Quits
        BY <1>n, <3>2 DEF Quits, Idle, Passes
      <3>3. CASE Repairs
        BY <1>n, <3>3 DEF Repairs
      <3>4. ASSUME NEW s \in Sessions, Takes(s) PROVE GuardHolds'
        <4>1. op'.by \in Passes /\ op'.saw = "any"
          BY <1>0, <3>4 DEF Takes, OpFit, JobsFit
        <4> QED
          BY <1>n, <4>1 DEF Passes
      <3> QED
        BY <1>0, <1>1, <2>2, <3>1, <3>2, <3>3, <3>4, WorkForms
    <2> QED
      BY <2>1, <2>2
  <1>2. ASSUME NEW s \in Sessions, Requests(s) PROVE GuardHolds'
    <2>1. Starts(s) /\ rows' = rows /\ lapsed' = lapsed
      BY <1>2, RequestsStart DEF window, leases
    <2>2. CASE op'.by = "other"
      BY <1>n, <2>1, <2>2 DEF Starts
    <2>3. CASE op'.by # "other"
      <3>1. /\ op'.by = "guarded" /\ op'.job \in {"replace", "route"} /\ op'.s = s
            /\ op'.pc \in {"clear", "route"}
            /\ LeaseActive(s) => rows[s].lease = op'.lease
            /\ op'.saw # "any" => /\ seen # None /\ seen.s = s /\ seen.sound
                                  /\ seen.version = rows[s].version /\ op'.saw = seen.node
        BY <2>1, <2>3 DEF Starts
      <3>2. LeaseActive(s)' => rows'[s].lease = op'.lease
        BY <2>1, <3>1 DEF LeaseActive
      <3>3. op'.saw # "any" => rows'[s].node \in {op'.saw, None}
        BY <2>1, <3>1 DEF SeenKnown, Known
      <3> QED
        BY <3>1, <3>2, <3>3 DEF GuardHolds, LeaseActive
    <2> QED
      BY <2>2, <2>3
  <1>3. CASE op' = Idle \/ Launches
    BY <1>n, <1>3 DEF Idle, Launches, Passes
  <1>4. ASSUME op' = op,
               \A s \in DOMAIN rows : /\ rows'[s].lease \in {rows[s].lease, None}
                                     /\ rows'[s].node \in {rows[s].node, None}
        PROVE  GuardHolds'
    <2>1. CASE op.by = "guarded"
      <3>1. op.s \in DOMAIN rows
        BY <1>g, <2>1 DEF GuardHolds
      <3>2. /\ LeaseActive(op.s)' => rows'[op.s].lease = op'.lease
            /\ op'.saw # "any" => rows'[op.s].node \in {op'.saw, None}
        BY <1>k, <1>4, <2>1, <3>1
      <3> QED
        BY <1>4, <2>1, <3>2 DEF GuardHolds, LeaseActive
    <2>2. CASE op.by # "guarded"
      BY <1>n, <1>4, <2>2 DEF GuardHolds
    <2> QED
      BY <2>1, <2>2
  <1>5. CASE RowEdits
    <2>1. op' = op /\ \A s \in DOMAIN rows : rows'[s].node \in {rows[s].node, None}
      BY <1>5, RowEditsKeep DEF Edited
    <2>2. CASE op = Idle
      BY <1>3, <2>1, <2>2
    <2>3. CASE op # Idle
      BY <1>4, <1>5, <2>1, <2>3, RowEditsRaced
    <2> QED
      BY <2>2, <2>3
  <1>6. CASE UNCHANGED <<rows, op>>
    BY <1>4, <1>6
  <1>7. Crash => op' = Idle
    BY DEF Crash
  <1> QED
    BY <1>0, <1>1, <1>2, <1>3, <1>5, <1>6, <1>7, StepSplit, OthersKeep,
       MaintainLaunches, SyncLaunches DEF vars, window

-----------------------------------------------------------------------------
(* What a consumer has read.                                               *)

\* A row that follows one of the version read, or a later one, keeps the node
\* or gets a later version.
LEMMA KnownFollows ==
    ASSUME NEW row \in Row, NEW new \in Row, seen.version \in Nat, Known(row),
           new.version >= row.version,
           new.version = row.version => new.node = row.node
    PROVE  Known(new)
  <1>1. row.version \in Nat /\ new.version \in Nat
    BY DEF Row
  <1> QED
    BY <1>1 DEF Known

\* Every write of a row raises its version.
LEMMA ChangesKnown ==
    ASSUME NEW row \in Row, NEW n \in Nodes \cup {None}, NEW to \in Routes,
           seen.version \in Nat, Known(row)
    PROVE  Known(Cleared(row)) /\ Known(Moved(row, n)) /\ Known(Routed(row, to))
  <1>1. Cleared(row) \in Row /\ Moved(row, n) \in Row /\ Routed(row, to) \in Row
    BY RowTyped
  <1>2. /\ Cleared(row).version = row.version + 1 /\ Moved(row, n).version = row.version + 1
        /\ Routed(row, to).version = row.version + 1 /\ row.version \in Nat
    BY RowChanges DEF Row
  <1>3. row.version + 1 >= row.version /\ row.version + 1 # row.version
    BY <1>2
  <1> QED
    BY <1>1, <1>2, <1>3, KnownFollows

LEMMA OutdateKeeps ==
    ASSUME SeenTyped, NEW s, Outdate(s), seen' # None, seen'.sound
    PROVE  seen' = seen /\ seen # None /\ seen.s # s
  <1>1. CASE seen # None /\ seen.s = s
    <2>1. seen' = [seen EXCEPT !.sound = FALSE]
      BY <1>1 DEF Outdate
    <2>2. ~ seen'.sound
      BY <1>1, <2>1 DEF SeenTyped
    <2> QED
      BY <2>2
  <1>2. CASE ~ (seen # None /\ seen.s = s)
    BY <1>2 DEF Outdate
  <1> QED
    BY <1>1, <1>2

LEMMA SeenKnownWrites ==
    ASSUME TypeOK, OpFit, RowsFit, SeenKnown, WritesRow, Work
    PROVE  SeenKnown'
  <1>0. /\ SeenTyped /\ IsTable(rows) /\ \A s \in DOMAIN rows : rows[s] \in Row
        /\ op.prev \in Row /\ op.node \in Nodes \cup {None}
    BY OpFields DEF TypeOK, SeenTyped, IsTable, OpFit
  <1>1. SUFFICES ASSUME seen' # None, seen'.sound
                 PROVE  /\ seen'.s \in DOMAIN rows'
                        /\ Known(rows[seen.s])'
                        /\ (Replacing /\ ~ At("clear") /\ op.s = seen.s)' => Known(op.prev)'
    BY DEF SeenKnown
  <1>2. seen' = seen /\ (Delete \/ (Restore /\ op.job = "create") => seen.s # op.s)
    BY <1>0, <1>1, OutdateKeeps
    DEF WritesRow, ClearMissing, Write, Delete, Route, Restore
  <1>3. /\ seen.s \in DOMAIN rows /\ Known(rows[seen.s]) /\ seen.version \in Nat
        /\ Replacing /\ ~ At("clear") /\ op.s = seen.s => Known(op.prev)
    BY <1>0, <1>1, <1>2 DEF SeenKnown, SeenTyped
  <1>f. op'.s = op.s /\ op'.job = op.job /\ op.s \in Sessions
    BY WriteForms
  <1>k. seen'.version = seen.version /\ seen'.node = seen.node /\ seen'.s = seen.s
    BY <1>2
  <1>5. CASE ClearMissing
    <2>1. rows' = Repaired /\ op'.prev = rows'[op.s]
      BY <1>5 DEF ClearMissing, OpFit, IsOp
    <2>2. Known(Cleared(rows[seen.s]))
      BY <1>0, <1>3, ChangesKnown DEF Routes
    <2>3. rows'[seen.s] \in {rows[seen.s], Cleared(rows[seen.s])} /\ DOMAIN rows' = DOMAIN rows
      BY <1>0, <1>3, <2>1, RepairedTable
    <2>4. Known(rows[seen.s])'
      BY <1>3, <1>k, <2>2, <2>3 DEF Known
    <2> QED
      BY <1>3, <1>f, <1>k, <2>1, <2>3, <2>4
  <1>6. CASE (Write /\ op.job = "replace") \/ Route
    <2>0. op.s \in DOMAIN rows /\ op'.prev = op.prev
      BY <1>6, ReachedRow DEF Write, Route, Written, At, OpFit, IsOp, JobsFit
    <2>1. PICK new : rows' = Put(op.s, new)
                     /\ (Known(rows[op.s]) => Known(new))
      <3>1. CASE Write /\ op.job = "replace"
        <4>1. Known(rows[op.s]) => Known(Moved(rows[op.s], op.node))
          BY <1>0, <1>3, <2>0, ChangesKnown DEF Routes
        <4> QED
          BY <3>1, <4>1 DEF Write
      <3>2. CASE Route
        <4>1. op.to \in Routes
          BY <3>2 DEF Route, OpFit, JobsFit, At
        <4>2. Known(rows[op.s]) => Known(Routed(rows[op.s], op.to))
          BY <1>0, <1>3, <2>0, <4>1, ChangesKnown
        <4> QED
          BY <3>2, <4>2 DEF Route
      <3> QED
        BY <1>6, <3>1, <3>2
    <2>2. DOMAIN rows' = DOMAIN rows /\ rows'[seen.s] = IF seen.s = op.s THEN new ELSE rows[seen.s]
      BY <1>3, <2>0, <2>1 DEF Put
    <2>3. Known(rows[seen.s])'
      <3>1. Known(rows'[seen.s])
        BY <1>3, <2>1, <2>2
      <3> QED
        BY <1>k, <3>1 DEF Known
    <2>4. Replacing /\ ~ At("clear")
      BY <1>6 DEF Write, Route, Replacing, Revocable, At, OpFit, JobsFit
    <2>5. op.s = seen.s => Known(op.prev)'
      BY <1>3, <1>k, <2>0, <2>4 DEF Known
    <2> QED
      BY <1>3, <1>f, <1>k, <2>2, <2>3, <2>5
  <1>7. CASE (Write /\ op.job # "replace") \/ Delete \/ Restore
    <2>1. ~ Replacing'
      BY <1>7, WriteForms DEF Replacing, Revocable, At,
         Write, Delete, Restore, ClearMissing, Route
    <2>2. ASSUME op.s # seen.s, DOMAIN rows \ {op.s} \subseteq DOMAIN rows',
                 rows'[seen.s] = rows[seen.s]
          PROVE  seen'.s \in DOMAIN rows' /\ Known(rows[seen.s])'
      BY <1>3, <1>k, <2>2 DEF Known
    <2>3. CASE Write /\ op.job # "replace"
      <3>1. op.s \notin DOMAIN rows
        BY <2>3 DEF Write, OpFit, JobsFit, RowsFit, At
      <3>2. op.s # seen.s /\ DOMAIN rows \ {op.s} \subseteq DOMAIN rows'
            /\ rows'[seen.s] = rows[seen.s]
        BY <1>3, <2>3, <3>1 DEF Write, Put
      <3> QED
        BY <2>1, <2>2, <3>2
    <2>4. CASE Delete \/ (Restore /\ op.job = "create")
      <3>1. op.s # seen.s /\ DOMAIN rows \ {op.s} \subseteq DOMAIN rows'
            /\ rows'[seen.s] = rows[seen.s]
        BY <1>2, <1>3, <2>4 DEF Delete, Restore, Drop, Without
      <3> QED
        BY <2>1, <2>2, <3>1
    <2>5. CASE Restore /\ op.job # "create"
      <3>1. rows' = Put(op.s, op.prev)
        BY <2>5 DEF Restore
      <3>2. op.s = seen.s => Known(op.prev)
        <4>1. op.job = "remove" => op.s \notin DOMAIN rows
          BY <2>5 DEF Restore, RowsFit, Revocable, At
        <4>2. op.job # "remove" => Replacing /\ ~ At("clear")
          BY <2>5 DEF Restore, Replacing, Revocable, At, OpFit, JobsFit
        <4> QED
          BY <1>3, <4>1, <4>2
      <3>3. seen.s \in DOMAIN rows'
            /\ rows'[seen.s] = IF seen.s = op.s THEN op.prev ELSE rows[seen.s]
        BY <1>3, <3>1 DEF Put
      <3>4. Known(rows[seen.s])'
        <4>1. Known(rows'[seen.s])
          BY <1>3, <3>2, <3>3
        <4> QED
          BY <1>k, <4>1 DEF Known
      <3> QED
        BY <1>k, <2>1, <3>3, <3>4
    <2> QED
      BY <1>7, <2>3, <2>4, <2>5
  <1> QED
    BY <1>5, <1>6, <1>7 DEF WritesRow

LEMMA SeenKnownStep ==
    ASSUME TypeOK, JobsFit, RowsFit, SeenKnown, [Next]_vars
    PROVE  SeenKnown'
  <1>0. /\ OpFit /\ SeenTyped /\ IsTable(rows) /\ \A s \in DOMAIN rows : rows[s] \in Row
        /\ op.prev \in Row
    BY TypeParts, OpFields DEF IsTable, OpFit
  <1>n. ASSUME UNCHANGED <<rows, seen>>, ~ Replacing' \/ At("clear")' PROVE SeenKnown'
    BY <1>n DEF SeenKnown, Known
  <1>1. CASE Work
    <2>1. CASE WritesRow
      BY <1>0, <1>1, <2>1, SeenKnownWrites
    <2>2. CASE ~ WritesRow
      <3>0. rows' = rows /\ seen' = seen
        BY <1>0, <1>1, <2>2, WorkForms
      <3>1. CASE GoesOn
        BY <3>0, <3>1 DEF GoesOn, SeenKnown, Known, Replacing, At
      <3>2. CASE Quits \/ Repairs \/ \E s \in Sessions : Takes(s)
        <4>1. ~ Replacing' \/ At("clear")'
          BY <3>2 DEF Quits, Idle, Repairs, Takes, Replacing, Revocable, At
        <4> QED
          BY <1>n, <3>0, <4>1
      <3> QED
        BY <1>0, <1>1, <2>2, <3>1, <3>2, WorkForms
    <2> QED
      BY <2>1, <2>2
  <1>2. ASSUME NEW s \in Sessions, Requests(s) PROVE SeenKnown'
    <2>1. Starts(s) /\ rows' = rows /\ seen' = seen
      BY <1>2, RequestsStart DEF window
    <2> QED
      BY <2>1 DEF Starts, SeenKnown, Known, Replacing, Revocable, At
  <1>3. ASSUME op' = Idle \/ Launches PROVE ~ Replacing'
    BY <1>3 DEF Idle, Launches, Replacing, Revocable, At
  <1>4. CASE Maintain \/ Crash
    BY <1>0, <1>3, <1>4, <1>n, MaintainLaunches DEF Crash, window
  <1>5. CASE Sync
    <2>1. rows' = Repaired /\ seen' = seen /\ ~ Replacing'
      BY <1>0, <1>3, <1>5, SyncLaunches
    <2>2. ASSUME seen # None, seen.sound
          PROVE  seen'.s \in DOMAIN rows' /\ Known(rows[seen.s])'
      <3>1. seen.s \in DOMAIN rows /\ Known(rows[seen.s]) /\ seen.version \in Nat
        BY <1>0, <2>2 DEF SeenKnown, SeenTyped
      <3>2. Known(Cleared(rows[seen.s]))
        BY <1>0, <3>1, ChangesKnown DEF Routes
      <3>3. rows'[seen.s] \in {rows[seen.s], Cleared(rows[seen.s])} /\ DOMAIN rows' = DOMAIN rows
        BY <1>0, <2>1, <3>1, RepairedTable
      <3> QED
        BY <2>1, <3>1, <3>2, <3>3 DEF Known
    <2> QED
      BY <2>1, <2>2 DEF SeenKnown
  <1>6. CASE RowEdits
    <2>1. /\ IsTable(rows') /\ DOMAIN rows' = DOMAIN rows /\ op' = op /\ seen' = seen
          /\ \A s \in DOMAIN rows : Edited(rows[s], rows'[s])
      BY <1>6, RowEditsKeep
    <2>2. ASSUME seen # None, seen.sound
          PROVE  /\ seen'.s \in DOMAIN rows' /\ Known(rows[seen.s])'
                 /\ (Replacing /\ ~ At("clear") /\ op.s = seen.s)' => Known(op.prev)'
      <3>1. /\ seen.s \in DOMAIN rows /\ Known(rows[seen.s]) /\ seen.version \in Nat
            /\ Replacing /\ ~ At("clear") /\ op.s = seen.s => Known(op.prev)
        BY <1>0, <2>2 DEF SeenKnown, SeenTyped
      <3>2. rows'[seen.s] \in Row /\ rows[seen.s] \in Row
        BY <1>0, <2>1, <3>1 DEF IsTable
      <3>3. Known(rows'[seen.s])
        BY <2>1, <3>1, <3>2, KnownFollows DEF Edited
      <3> QED
        BY <2>1, <3>1, <3>3 DEF Known, Replacing, Revocable, At
    <2> QED
      BY <2>1, <2>2 DEF SeenKnown
  <1>7. ASSUME NEW s \in Sessions, Read(s) PROVE SeenKnown'
    <2>1. /\ s \in DOMAIN rows /\ rows' = rows /\ op' = op
          /\ seen' = [s |-> s, version |-> rows[s].version, node |-> rows[s].node,
                      sound |-> op.s # s]
      BY <1>7 DEF Read, window
    <2>2. seen'.s = s /\ seen'.version = rows[s].version /\ seen'.node = rows[s].node
          /\ (seen'.sound => op.s # s)
      BY <2>1
    <2>3. rows[s].version >= rows[s].version
      BY <1>0, <2>1 DEF Row
    <2> QED
      BY <2>1, <2>2, <2>3 DEF SeenKnown, Known
  <1>8. CASE UNCHANGED <<rows, op, seen>>
    BY <1>8 DEF SeenKnown, Known, Replacing, Revocable, At
  <1>9. Others => (\E s \in Sessions : Read(s)) \/ UNCHANGED <<rows, op, seen>>
    BY OthersKeep DEF Others, ListNodes, ListSessions, Save, Lapse, Lose, SetUpstream,
                      ApplyElsewhere, Edit
  <1> QED
    BY <1>1, <1>2, <1>4, <1>5, <1>6, <1>7, <1>8, <1>9, StepSplit DEF vars, window

-----------------------------------------------------------------------------
(* Nodes that are named are there.                                         *)

RowsBacked == \A s \in DOMAIN rows : Backed(rows[s].node)

\* A node is deleted only when no row names it.
LEMMA DeleteNodeBacks ==
    ASSUME NodesTyped, RowsBacked, NEW n, DeleteNode(n), rows' = rows,
           \A s \in DOMAIN rows : rows[s].node \in Nodes \cup {None}
    PROVE  RowsBacked'
  <1>1. ASSUME NEW s \in DOMAIN rows, rows[s].node # None
        PROVE  nodes'[rows[s].node] # "absent"
    <2>1. rows[s].node \in Nodes /\ nodes[rows[s].node] # "absent"
      BY <1>1 DEF RowsBacked, Backed
    <2> QED
      BY <2>1 DEF DeleteNode
  <1> QED
    BY <1>1 DEF RowsBacked, Backed

LEMMA NodesBackedWrites ==
    ASSUME TypeOK, OpFit, RowsFit, NodesBacked, WritesRow, Work
    PROVE  NodesBacked'
  <1>0. /\ IsTable(rows) /\ \A s \in DOMAIN rows : rows[s] \in Row
    BY DEF TypeOK, IsTable
  <1>1. SUFFICES ASSUME ~ raced' PROVE NodesBacked'
    BY DEF NodesBacked
  <1>2. /\ RowsBacked /\ (At("write") => Backed(op.node))
        /\ (Revocable => Backed(op.prev.node)) /\ raced' = raced /\ nodes' = nodes
        /\ op.by \in {"expire", "resize"} =>
               \A s \in DOMAIN op.rest : op.rest[s].node = rows[s].node
    BY <1>1 DEF NodesBacked, RowsBacked, Work, WritesRow, ClearMissing, Write, Delete, Route,
         Restore
  <1>3. op'.s = op.s /\ op'.rest = op.rest /\ op.s \in Sessions /\ op'.pc # "write"
    BY WriteForms
  <1>4. DOMAIN op.rest \subseteq DOMAIN rows /\ op.s \notin DOMAIN op.rest
    BY DEF RowsFit, WritesRow, ClearMissing, Write, Delete, Route, Restore, At
  <1>b. \A n : Backed(n)' <=> Backed(n)
    BY <1>2 DEF Backed
  <1>5. CASE ClearMissing
    <2>1. rows' = Repaired /\ op'.prev = rows'[op.s] /\ op'.by = op.by /\ op.s \in DOMAIN rows
          /\ op.by \notin {"expire", "resize"}
      BY <1>5, ReachedRow DEF ClearMissing, OpFit, IsOp, JobsFit, At
    <2>2. DOMAIN rows' = DOMAIN rows
          /\ \A s \in DOMAIN rows : rows'[s].node # None => rows'[s] = rows[s]
      BY <1>0, <2>1, RepairedTable
    <2>3. \A s \in DOMAIN rows' : Backed(rows'[s].node)
      BY <1>2, <2>2 DEF RowsBacked, Backed
    <2> QED
      BY <1>b, <1>3, <2>1, <2>2, <2>3 DEF NodesBacked, Backed, At
  \* The other writes put or drop the row of one session.
  <1>6. ASSUME ~ ClearMissing,
               \/ rows' = Drop(op.s)
               \/ \E row : rows' = Put(op.s, row) /\ Backed(row.node)
        PROVE  NodesBacked'
    <2>1. \A s \in DOMAIN rows' : Backed(rows'[s].node)
      BY <1>2, <1>6 DEF RowsBacked, Put, Drop, Without
    <2>2. \A s \in DOMAIN op.rest : rows'[s] = rows[s]
      BY <1>4, <1>6 DEF Put, Drop, Without
    <2>3. op'.prev = op.prev /\ (op'.by = op.by \/ op'.by \notin {"expire", "resize"})
      BY <1>6 DEF WritesRow, ClearMissing, Write, Delete, Route, Restore, Written, Go, OpFit, IsOp
    <2>4. Revocable' => Revocable
      BY <1>6, WriteForms DEF Revocable, Write, Delete, Route, Restore, At
    <2> QED
      BY <1>b, <1>2, <1>3, <2>1, <2>2, <2>3, <2>4 DEF NodesBacked, Backed, At
  <1>7. CASE Write
    <2>1. Backed(op.node)
      BY <1>2, <1>7 DEF Write
    <2>2. ~ ClearMissing
      BY <1>7 DEF Write, ClearMissing, At
    <2>3. CASE op.job = "replace"
      <3>1. Moved(rows[op.s], op.node).node = op.node
        <4>1. op.s \in DOMAIN rows
          BY <1>7, <2>3, ReachedRow DEF Write, At
        <4> QED
          BY <1>0, <4>1, RowChanges
      <3> QED
        BY <1>6, <1>7, <2>1, <2>2, <2>3, <3>1 DEF Write
    <2>4. CASE op.job # "replace"
      <3>1. [Lazy EXCEPT !.node = op.node].node = op.node
        BY DEF Lazy
      <3> QED
        BY <1>6, <1>7, <2>1, <2>2, <2>4, <3>1 DEF Write
    <2> QED
      BY <2>3, <2>4
  <1>8. CASE Delete
    BY <1>6, <1>8 DEF Delete, ClearMissing, At
  <1>9. CASE Route
    <2>1. op.s \in DOMAIN rows
      BY <1>9, ReachedRow DEF Route, At, OpFit, JobsFit
    <2>2. Routed(rows[op.s], op.to).node = None
      BY <1>0, <2>1, RowChanges
    <2> QED
      BY <1>6, <1>9, <2>2 DEF Route, ClearMissing, At, Backed
  <1>10. CASE Restore
    <2>1. Backed(op.prev.node)
      BY <1>2, <1>10 DEF Restore, Revocable, At
    <2> QED
      BY <1>6, <1>10, <2>1 DEF Restore, ClearMissing, At
  <1> QED
    BY <1>5, <1>7, <1>8, <1>9, <1>10 DEF WritesRow

LEMMA NodesBackedStep ==
    ASSUME TypeOK, JobsFit, RowsFit, NodesBacked, [Next]_vars
    PROVE  NodesBacked'
  <1>0. /\ OpFit /\ NodesTyped /\ IsTable(rows) /\ \A s \in DOMAIN rows : rows[s] \in Row
    BY TypeParts DEF IsTable
  <1>r. raced => raced'
    <2>1. CASE Work \/ Others \/ Crash \/ UNCHANGED vars
      BY <2>1, OthersKeep DEF Work, Crash, vars
    <2>2. CASE Maintain \/ Sync
      BY <1>0, <2>2, MaintainLaunches, SyncLaunches
    <2>3. ASSUME NEW s \in Sessions, Requests(s) PROVE raced' = raced
      BY <2>3, RequestsStart
    <2>4. CASE RowEdits
      BY <2>4 DEF RowEdits, Expire, Claim, ClaimUnlocked, ReleaseLease, ClearOne
    <2> QED
      BY <2>1, <2>2, <2>3, <2>4, StepSplit
  <1>a. SUFFICES ASSUME ~ raced' PROVE NodesBacked'
    BY DEF NodesBacked
  <1>b. /\ RowsBacked /\ (At("write") => Backed(op.node))
        /\ (Revocable => Backed(op.prev.node))
        /\ op.by \in {"expire", "resize"} =>
               \A s \in DOMAIN op.rest : op.rest[s].node = rows[s].node
    BY <1>r, <1>a DEF NodesBacked, RowsBacked
  <1>c. DOMAIN op.rest \subseteq DOMAIN rows
    BY DEF RowsFit
  <1>z. Lazy.node = None /\ \A n : n = None => Backed(n)'
    BY DEF Lazy, Backed
  <1>1. CASE Work
    <2>1. CASE WritesRow
      BY <1>0, <1>1, <2>1, NodesBackedWrites
    <2>2. CASE ~ WritesRow
      <3>0. rows' = rows
        BY <1>0, <1>1, <2>2, WorkForms
      <3>1. RowsBacked' /\ (Allocate \/ Discard \/ Release \/ nodes' = nodes)
        <4>0. \A s \in DOMAIN rows : rows[s].node \in Nodes \cup {None}
          BY <1>0 DEF Row
        <4>1. CASE Allocate
          BY <1>0, <1>b, <3>0, <4>0, <4>1 DEF Allocate, RowsBacked, Backed, NodesTyped
        <4>2. CASE Discard
          BY <1>0, <1>b, <3>0, <4>0, <4>2, DeleteNodeBacks DEF Discard
        <4>3. CASE Release
          <5>1. CASE nodes' = nodes
            BY <1>b, <3>0, <4>3, <5>1 DEF RowsBacked, Backed
          <5>2. CASE DeleteNode(op.prev.node)
            BY <1>0, <1>b, <3>0, <4>0, <4>3, <5>2, DeleteNodeBacks
          <5> QED
            BY <4>3, <5>1, <5>2 DEF Release
        <4>4. CASE nodes' = nodes
          BY <1>b, <3>0, <4>4 DEF RowsBacked, Backed
        <4> QED
          BY <1>1, <2>2, <4>1, <4>2, <4>3, <4>4
          DEF Work, WritesRow, GroupConflict, Apply, ApplyFails, ProviderFails, Close,
              CloseFails, NextExpired, NextOrdinal, PassEnds, window
      <3>2. CASE Quits
        <4>1. op'.by \in {"expire", "resize"} =>
                 \A s \in DOMAIN op'.rest : op'.rest[s].node = rows'[s].node
          BY <1>b, <3>0, <3>2 DEF Quits, Idle
        <4>2. ~ Revocable' /\ ~ At("write")'
          BY <3>2 DEF Quits, Idle, Revocable, At
        <4> QED
          BY <3>1, <4>1, <4>2 DEF NodesBacked, RowsBacked
      <3>3. CASE GoesOn
        <4>1. op'.by \in {"expire", "resize"} =>
                 \A s \in DOMAIN op'.rest : op'.rest[s].node = rows'[s].node
          BY <1>b, <3>0, <3>3 DEF GoesOn
        <4>2. At("write")' => Backed(op.node)'
          <5>1. CASE Allocate
            BY <1>0, <5>1 DEF Allocate, Backed, NodesTyped, OpFit, IsOp
          <5>2. CASE ~ Allocate
            <6>1. At("write")' => At("allocate")
              BY <3>3 DEF GoesOn, At
            <6>2. At("allocate") => ProviderFails
              BY <1>1, <2>2, <5>2 DEF Work, WritesRow, At, GroupConflict, Apply, ApplyFails,
                 Discard, Release, Close, CloseFails, NextExpired, NextOrdinal, PassEnds
            <6>3. ProviderFails => op' = Idle \/ op'.pc = "next"
              BY DEF ProviderFails, Finish, Idle
            <6> QED
              BY <6>1, <6>2, <6>3 DEF At, Idle
          <5> QED
            BY <5>1, <5>2
        <4>3. Revocable' => Backed(op.prev.node)'
          <5>1. SUFFICES ASSUME Revocable' PROVE Backed(op.prev.node)'
            OBVIOUS
          <5>2. op'.prev = op.prev /\ Backed(op.prev.node)
            BY <1>b, <3>3, <5>1 DEF GoesOn
          <5>3. op.prev.node \in Nodes \cup {None}
            BY <1>0, OpFields DEF OpFit, Row
          <5>4. CASE Allocate
            BY <1>0, <5>2, <5>3, <5>4 DEF Allocate, Backed, NodesTyped
          <5>5. CASE Discard \/ Release
            <6>1. ~ Revocable'
              BY <1>0, <5>5 DEF Discard, Release, Go, Revocable, OpFit, IsOp, JobsFit, At
            <6> QED
              BY <5>1, <6>1
          <5>6. CASE nodes' = nodes
            BY <5>2, <5>6 DEF Backed
          <5> QED
            BY <3>1, <5>4, <5>5, <5>6
        <4> QED
          BY <3>1, <4>1, <4>2, <4>3 DEF NodesBacked, RowsBacked
      <3>4. CASE Repairs
        <4>1. ~ Revocable' /\ ~ At("write")' /\ op'.by \notin {"expire", "resize"}
          BY <3>4 DEF Repairs, Revocable, At
        <4> QED
          BY <3>1, <4>1 DEF NodesBacked, RowsBacked
      <3>5. ASSUME NEW s \in Sessions, Takes(s) PROVE NodesBacked'
        <4>0. nodes' = nodes
          BY <3>1, <3>5 DEF Takes, Allocate, Discard, Release, At
        <4>1. op'.by \in {"expire", "resize"} =>
                 \A i \in DOMAIN op'.rest : op'.rest[i].node = rows'[i].node
          BY <1>b, <3>0, <3>5 DEF Takes, Without
        <4>2. Backed(op.prev.node)'
          <5>1. CASE op'.prev = Lazy
            BY <1>z, <5>1
          <5>2. CASE op'.prev # Lazy
            <6>1. s \in DOMAIN op.rest /\ op'.prev = op.rest[s] /\ op.by \in {"expire", "resize"}
              BY <3>5, <5>2 DEF Takes
            <6>2. op.rest[s].node = rows[s].node /\ s \in DOMAIN rows
              BY <1>b, <1>c, <6>1
            <6> QED
              BY <1>b, <4>0, <6>1, <6>2 DEF RowsBacked, Backed
          <5> QED
            BY <5>1, <5>2
        <4>3. Backed(op.node)'
          BY <1>z, <3>5 DEF Takes
        <4> QED
          BY <3>1, <4>1, <4>2, <4>3 DEF NodesBacked, RowsBacked
      <3> QED
        BY <1>0, <1>1, <2>2, <3>2, <3>3, <3>4, <3>5, WorkForms
    <2> QED
      BY <2>1, <2>2
  <1>2. ASSUME NEW s \in Sessions, Requests(s) PROVE NodesBacked'
    <2>1. Starts(s) /\ rows' = rows /\ nodes' = nodes
      BY <1>2, RequestsStart DEF window
    <2>2. RowsBacked'
      BY <1>b, <2>1 DEF RowsBacked, Backed
    <2>3. ~ At("write")' /\ op'.by \notin {"expire", "resize"}
      BY <2>1 DEF Starts, At
    <2>4. op'.prev = Lazy \/ (s \in DOMAIN rows /\ op'.prev = rows[s])
      BY <2>1 DEF Starts
    <2>5. Backed(op.prev.node)'
      BY <1>b, <1>z, <2>1, <2>4 DEF RowsBacked, Backed
    <2> QED
      BY <2>2, <2>3, <2>5 DEF NodesBacked, RowsBacked
  <1>3. CASE Maintain \/ Sync
    <2>1. /\ Launches /\ nodes' = nodes /\ RowsBacked'
          /\ \A s \in DOMAIN op'.rest : op'.rest[s] = rows'[s]
      <3>1. CASE Maintain
        BY <1>0, <1>b, <3>1, MaintainLaunches DEF window, RowsBacked, Backed
      <3>2. CASE Sync
        <4>1. Launches /\ nodes' = nodes /\ rows' = Repaired
              /\ \A s \in DOMAIN op'.rest : op'.rest[s] = rows'[s]
          BY <1>0, <3>2, SyncLaunches
        <4>2. DOMAIN rows' = DOMAIN rows
              /\ \A s \in DOMAIN rows : rows'[s].node # None => rows'[s] = rows[s]
          BY <1>0, <4>1, RepairedTable
        <4> QED
          BY <1>b, <4>1, <4>2 DEF RowsBacked, Backed
      <3> QED
        BY <1>3, <3>1, <3>2
    <2>2. ~ At("write")' /\ ~ Revocable'
      BY <2>1 DEF Launches, Revocable, At
    <2> QED
      BY <2>1, <2>2 DEF NodesBacked, RowsBacked
  <1>4. ASSUME RowsBacked', op' = Idle PROVE NodesBacked'
    BY <1>4, NoRowsTable DEF NodesBacked, RowsBacked, Idle, Revocable, At
  <1>5. CASE RowEdits
    <2>1. /\ op' = op /\ nodes' = nodes /\ DOMAIN rows' = DOMAIN rows
          /\ \A s \in DOMAIN rows : rows'[s].node \in {rows[s].node, None}
      BY <1>5, RowEditsKeep DEF Edited
    <2>2. RowsBacked'
      BY <1>b, <2>1 DEF RowsBacked, Backed
    <2>3. CASE op = Idle
      BY <1>4, <2>1, <2>2, <2>3
    <2>4. CASE op # Idle
      <3>1. \A s \in DOMAIN rows : rows'[s].node = rows[s].node
        BY <1>5, <1>a, <2>4, RowEditsRaced
      <3>2. op'.by \in {"expire", "resize"} =>
                \A s \in DOMAIN op'.rest : op'.rest[s].node = rows'[s].node
        BY <1>b, <1>c, <2>1, <3>1
      <3>3. (At("write")' => Backed(op.node)') /\ (Revocable' => Backed(op.prev.node)')
        BY <1>b, <2>1 DEF At, Revocable, Backed
      <3> QED
        BY <2>2, <3>2, <3>3 DEF NodesBacked, RowsBacked
    <2> QED
      BY <2>3, <2>4
  <1>6. ASSUME rows' = rows, op' = op,
               nodes' = nodes \/ \E n \in Nodes : nodes' = [nodes EXCEPT ![n] = "lost"]
        PROVE  NodesBacked'
    <2>1. op.node \in Nodes \cup {None} /\ op.prev.node \in Nodes \cup {None}
          /\ \A s \in DOMAIN rows : rows[s].node \in Nodes \cup {None}
      BY <1>0, OpFields DEF OpFit, Row
    <2>2. \A n \in Nodes \cup {None} : Backed(n) => Backed(n)'
      BY <1>0, <1>6 DEF Backed, NodesTyped
    <2>3. (At("write")' <=> At("write")) /\ (Revocable' <=> Revocable)
      BY <1>6 DEF At, Revocable
    <2>4. \A s \in DOMAIN rows' : Backed(rows[s].node)'
      BY <1>b, <1>6, <2>1, <2>2 DEF RowsBacked
    <2>5. (At("write")' => Backed(op.node)') /\ (Revocable' => Backed(op.prev.node)')
      BY <1>b, <1>6, <2>1, <2>2, <2>3
    <2>6. op'.by \in {"expire", "resize"} =>
              \A s \in DOMAIN op'.rest : op'.rest[s].node = rows'[s].node
      BY <1>b, <1>6
    <2> QED
      BY <2>4, <2>5, <2>6 DEF NodesBacked
  <1>7. CASE Others
    <2>1. nodes' = nodes \/ \E n \in Nodes : nodes' = [nodes EXCEPT ![n] = "lost"]
      BY <1>7 DEF Others, Read, ListNodes, ListSessions, Save, Lapse, Lose, SetUpstream,
                  ApplyElsewhere, Edit, window
    <2> QED
      BY <1>6, <1>7, <2>1, OthersKeep
  <1>8. CASE Crash
    <2>1. RowsBacked' /\ op' = Idle
      BY <1>b, <1>8 DEF Crash, window, RowsBacked, Backed
    <2> QED
      BY <1>4, <2>1
  <1>9. CASE UNCHANGED vars
    BY <1>6, <1>9 DEF vars, window
  <1> QED
    BY <1>1, <1>2, <1>3, <1>5, <1>7, <1>8, <1>9, StepSplit

-----------------------------------------------------------------------------
(* The data plane serves the rows.                                         *)

LEMMA CompiledServes ==
    ASSUME served' = Compiled, UNCHANGED window PROVE Serves'
  BY DEF Compiled, Serves, window, Residential, Usable

\* Rows keep their routes, and a node that is lost or taken away needs not be
\* served any more.
LEMMA ServesKept ==
    ASSUME Serves, served' = served, DOMAIN rows' = DOMAIN rows,
           Usable' \subseteq Usable,
           \A s \in DOMAIN rows : /\ rows'[s].route = rows[s].route
                                 /\ rows'[s].node \in {rows[s].node, None}
    PROVE  Serves'
  <1>1. None \notin Usable'
    BY SessionsAssumption DEF Usable
  <1> QED
    BY <1>1 DEF Serves, Residential

LEMMA DeleteNodeShrinks == ASSUME NEW n, DeleteNode(n) PROVE Usable' \subseteq Usable
  BY DEF DeleteNode, Usable

LEMMA RepairedServes ==
    ASSUME IsTable(rows), Serves, rows' = Repaired, UNCHANGED <<nodes, served>>
    PROVE  Serves'
  <1>1. \A s \in DOMAIN rows : rows[s] \in Row
    BY DEF IsTable
  <1>2. \A s \in DOMAIN rows : /\ Cleared(rows[s]).route = rows[s].route
                              /\ Cleared(rows[s]).node = None
    BY <1>1, RowChanges
  <1>3. DOMAIN rows' = DOMAIN rows
        /\ \A s \in DOMAIN rows : rows'[s] \in {rows[s], Cleared(rows[s])}
    BY RepairedTable
  <1>4. Usable' = Usable
    BY DEF Usable
  <1> QED
    BY <1>2, <1>3, <1>4, ServesKept

LEMMA ServesWork ==
    ASSUME TypeOK, OpFit, ServesSettled, Work
    PROVE  ServesSettled'
  <1>0. IsTable(rows)
    BY DEF TypeOK
  <1>n. ASSUME ~ published' \/ Unsettled' PROVE ServesSettled'
    BY <1>n DEF ServesSettled
  <1>k. ASSUME UNCHANGED plane, UNCHANGED rows, Usable' \subseteq Usable, ~ Unsettled
        PROVE  ServesSettled'
    BY <1>k, ServesKept DEF ServesSettled, plane
  <1>u. UNCHANGED window => Usable' = Usable
    BY DEF window, Usable
  <1>1. CASE GroupConflict \/ ApplyFails
    BY <1>1, <1>n DEF GroupConflict, ApplyFails
  <1>2. CASE Apply
    <2>1. served' = Compiled /\ UNCHANGED window
      BY <1>2 DEF Apply
    <2> QED
      BY <2>1, CompiledServes DEF ServesSettled
  <1>3. CASE ClearMissing
    <2>1. UNCHANGED <<nodes, served, published>> /\ rows' = Repaired /\ ~ Unsettled
      BY <1>3 DEF ClearMissing, plane, Unsettled, At
    <2> QED
      BY <1>0, <2>1, RepairedServes DEF ServesSettled
  <1>4. CASE Allocate \/ Write \/ Delete \/ Route \/ Restore \/ Discard
    <2>1. ~ ClearMissing
      BY <1>4 DEF Allocate, Write, Delete, Route, Restore, Discard, ClearMissing, At
    <2>2. CASE Allocate \/ Discard
      <3>1. op'.pc \in {"write", "publish"}
        BY <2>2 DEF Allocate, Discard, Go, OpFit, IsOp
      <3> QED
        BY <1>n, <3>1 DEF Unsettled
    <2>3. CASE WritesRow
      <3>1. op'.pc \in {"publish", "commit", "discard"}
        BY <2>1, <2>3, WriteForms
      <3> QED
        BY <1>n, <3>1 DEF Unsettled
    <2> QED
      BY <1>4, <2>2, <2>3 DEF WritesRow
  <1>5. CASE Release
    <2>1. UNCHANGED rows /\ UNCHANGED plane /\ ~ Unsettled
      BY <1>5 DEF Release, Unsettled, At
    <2>2. Usable' \subseteq Usable
      BY <1>5, DeleteNodeShrinks DEF Release, Usable
    <2> QED
      BY <1>k, <2>1, <2>2
  <1>6. CASE ProviderFails \/ Close \/ CloseFails \/ NextExpired \/ NextOrdinal \/ PassEnds
    <2>1. UNCHANGED window /\ UNCHANGED plane /\ ~ Unsettled
      BY <1>6 DEF ProviderFails, Close, CloseFails, NextExpired, NextOrdinal, PassEnds,
                  Unsettled, At
    <2> QED
      BY <1>k, <1>u, <2>1 DEF window
  <1> QED
    BY <1>1, <1>2, <1>3, <1>4, <1>5, <1>6 DEF Work

LEMMA ServesSettledStep ==
    ASSUME TypeOK, JobsFit, ServesSettled, [Next]_vars
    PROVE  ServesSettled'
  <1>0. OpFit /\ IsTable(rows)
    BY TypeParts
  <1>k. ASSUME UNCHANGED plane, DOMAIN rows' = DOMAIN rows, Usable' \subseteq Usable,
               \A s \in DOMAIN rows : /\ rows'[s].route = rows[s].route
                                     /\ rows'[s].node \in {rows[s].node, None},
               ~ Unsettled \/ op' = op
        PROVE  ServesSettled'
    <2>1. SUFFICES ASSUME published', ~ Unsettled' PROVE Serves'
      BY DEF ServesSettled
    <2>2. published /\ ~ Unsettled
      BY <1>k, <2>1 DEF plane, Unsettled
    <2> QED
      BY <1>k, <2>2, ServesKept DEF ServesSettled, plane
  <1>w. UNCHANGED window => /\ UNCHANGED rows /\ Usable' = Usable
    BY DEF window, Usable
  <1>1. CASE Work
    BY <1>0, <1>1, ServesWork
  <1>2. ASSUME NEW s \in Sessions, Requests(s) PROVE ServesSettled'
    <2>1. op = Idle /\ UNCHANGED window /\ UNCHANGED plane
      BY <1>2, RequestsStart DEF Starts
    <2> QED
      BY <1>k, <1>w, <2>1 DEF Unsettled, Idle
  <1>3. CASE Maintain
    <2>1. op = Idle /\ UNCHANGED window /\ UNCHANGED plane
      BY <1>0, <1>3, MaintainLaunches DEF Launches
    <2> QED
      BY <1>k, <1>w, <2>1 DEF Unsettled, Idle
  <1>4. CASE Sync
    <2>1. op = Idle /\ rows' = Repaired /\ UNCHANGED <<nodes, served, published>>
      BY <1>0, <1>4, SyncLaunches DEF Launches, plane
    <2>2. ~ Unsettled
      BY <2>1 DEF Unsettled, Idle
    <2> QED
      BY <1>0, <2>1, <2>2, RepairedServes DEF ServesSettled
  <1>5. CASE RowEdits
    <2>1. /\ UNCHANGED plane /\ nodes' = nodes /\ op' = op /\ DOMAIN rows' = DOMAIN rows
          /\ \A s \in DOMAIN rows : Edited(rows[s], rows'[s])
      BY <1>5, RowEditsKeep
    <2>2. Usable' = Usable
      BY <2>1 DEF Usable
    <2> QED
      BY <1>k, <2>1, <2>2 DEF Edited
  <1>6. CASE Others
    <2>1. rows' = rows /\ op' = op
      BY <1>6, OthersKeep
    <2>2. CASE ApplyElsewhere
      BY <2>2, CompiledServes DEF ApplyElsewhere, ServesSettled
    <2>3. CASE ~ ApplyElsewhere
      <3>1. UNCHANGED plane
        BY <1>6, <2>3 DEF Others, Read, ListNodes, ListSessions, Save, Lapse, Lose,
                          SetUpstream, Edit
      <3>2. Usable' \subseteq Usable
        <4>1. CASE \E n \in Nodes : Lose(n)
          BY <4>1 DEF Lose, Usable, TypeOK
        <4>2. CASE nodes' = nodes
          BY <4>2 DEF Usable
        <4> QED
          BY <1>6, <2>3, <4>1, <4>2 DEF Others, Read, ListNodes, ListSessions, Save, Lapse,
                                        SetUpstream, Edit, window
      <3> QED
        BY <1>k, <2>1, <3>1, <3>2
    <2> QED
      BY <2>2, <2>3
  <1>7. CASE Crash
    BY <1>7, CompiledServes DEF Crash, ServesSettled
  <1>8. CASE UNCHANGED vars
    <2>1. UNCHANGED window /\ UNCHANGED plane /\ op' = op
      BY <1>8 DEF vars
    <2> QED
      BY <1>k, <1>w, <2>1
  <1> QED
    BY <1>1, <1>2, <1>3, <1>4, <1>5, <1>6, <1>7, <1>8, StepSplit

-----------------------------------------------------------------------------
(* The theorems.                                                           *)

LEMMA InitHolds == Init => SessionsInv
  <1> SUFFICES ASSUME Init PROVE SessionsInv
    OBVIOUS
  <1>1. PICK f \in [{s \in Sessions : s <= count} ->
                        {[Lazy EXCEPT !.node = n] : n \in Nodes \cup {None}}] : rows = f
    BY DEF Init
  <1>2. ASSUME NEW s \in DOMAIN rows
        PROVE  /\ rows[s] \in Row /\ rows[s].lease = None /\ rows[s].route = "residential"
               /\ rows[s].node \in Nodes \cup {None}
    <2>1. PICK n \in Nodes \cup {None} : rows[s] = [Lazy EXCEPT !.node = n]
      BY <1>1, <1>2
    <2>2. rows[s] \in Row
      <3>1. [Lazy EXCEPT !.node = n] \in Row
        BY DEF Row, Lazy, Routes
      <3> QED
        BY <2>1, <3>1
    <2> QED
      BY <2>1, <2>2 DEF Lazy
  <1>3. IsTable(rows)
    BY <1>1, <1>2 DEF IsTable
  <1>4. op = Idle /\ op.pc = "idle" /\ IsOp(op) /\ op.by = "other" /\ op.saw = "any"
        /\ op.rest = NoRows /\ op.todo = {} /\ op.prev = Lazy
    BY IdleTyped DEF Init, Idle
  <1>5. JobsFit
    BY <1>4 DEF JobsFit, At
  <1>6. TypeOK
    <2>1. NodesTyped /\ PlaneTyped /\ SeenTyped /\ EditTyped
      <3>1. served \in [Sessions -> Nodes \cup {"group", "direct", "upstream"}]
        BY <1>2 DEF Init
      <3>2. NodesTyped
        BY DEF Init, NodesTyped
      <3> QED
        BY <3>1, <3>2 DEF Init, PlaneTyped, SeenTyped, EditTyped, NoEdit
    <2>2. BoundsTyped /\ LeasesTyped /\ ChannelTyped
      <3>1. 0 \in 0 .. MaxEvents /\ 0 \in 0 .. MaxFaults
        BY SessionsAssumption
      <3> QED
        BY <3>1 DEF Init, BoundsTyped, LeasesTyped, ChannelTyped
    <2>3. Leased
      BY <1>2 DEF Leased
    <2>4. OpFit
      BY <1>4, <1>5 DEF OpFit
    <2> QED
      BY <1>3, <2>1, <2>2, <2>3, <2>4, TypeParts
  <1>7. ~ Replacing /\ ~ Revocable /\ ~ Unsettled
    BY <1>4 DEF Replacing, Revocable, Unsettled, At
  <1>8. RowsFit /\ LeaseKept /\ GuardHolds /\ SeenKnown
    BY <1>4, <1>7, NoRowsTable DEF RowsFit, LeaseKept, GuardHolds, SeenKnown, Revocable, At, Init
  <1>9. LeasesIssued
    BY <1>4, NoRowsTable DEF LeasesIssued, Lazy
  <1>10. LeasesCounted
    <2>1. \A h \in Holders : Of(h) = {}
      BY DEF Init, Of
    <2> QED
      BY <2>1, FS_EmptySet DEF LeasesCounted
  <1>11. NodesBacked
    <2>1. \A s \in DOMAIN rows : Backed(rows[s].node)
      BY <1>2 DEF Init, Backed
    <2> QED
      BY <1>4, <1>7, <2>1, NoRowsTable DEF NodesBacked, At
  <1>12. ServesSettled
    <2>1. ASSUME NEW s \in DOMAIN rows PROVE Residential(s)
      BY <1>2, <2>1 DEF Residential
    <2>2. ASSUME NEW s \in DOMAIN rows, rows[s].node \in Usable PROVE served[s] = rows[s].node
      <3>1. rows[s].node # None /\ s \in Sessions
        BY <1>3, <2>2, SessionsAssumption DEF Usable, IsTable
      <3> QED
        BY <2>2, <3>1 DEF Init
    <2>3. ASSUME NEW s \in Sessions, s \notin DOMAIN rows PROVE served[s] = "group"
      BY <2>3 DEF Init
    <2> QED
      BY <2>1, <2>2, <2>3 DEF ServesSettled, Serves
  <1> QED
    BY <1>5, <1>6, <1>8, <1>9, <1>10, <1>11, <1>12 DEF SessionsInv

\* The inductive invariant holds throughout.
THEOREM SessionsInvariance == Spec => []SessionsInv
  <1>1. SessionsInv /\ [Next]_vars => SessionsInv'
    <2> SUFFICES ASSUME SessionsInv, [Next]_vars PROVE SessionsInv'
      OBVIOUS
    <2>0. /\ TypeOK /\ JobsFit /\ RowsFit /\ LeasesIssued /\ LeaseKept /\ LeasesCounted
          /\ GuardHolds /\ SeenKnown /\ NodesBacked /\ ServesSettled
      BY DEF SessionsInv
    <2>1. TypeOK' /\ JobsFit'
      BY <2>0, TypeStep
    <2>2. RowsFit'
      BY <2>0, RowsFitStep
    <2>3. LeasesIssued' /\ LeaseKept' /\ LeasesCounted'
      BY <2>0, LeasesIssuedStep, LeaseKeptStep, LeasesCountedStep
    <2>4. GuardHolds' /\ SeenKnown'
      BY <2>0, GuardHoldsStep, SeenKnownStep
    <2>5. NodesBacked' /\ ServesSettled'
      BY <2>0, NodesBackedStep, ServesSettledStep
    <2> QED
      BY <2>1, <2>2, <2>3, <2>4, <2>5 DEF SessionsInv
  <1> QED
    BY InitHolds, <1>1, PTL DEF Spec

\* Rows, nodes, the request inside the mutex, the edit outside it and every
\* lease have their types, and a row has only leases that were issued.
THEOREM SessionsTyped == Spec => []TypeOK
  BY SessionsInvariance, PTL DEF SessionsInv

\* No session points at a node that was deleted, whatever requests failed, were
\* taken back or lost their process, unless an edit cleared rows meanwhile.
THEOREM AllocationsBackedHolds == Spec => []AllocationsBacked
  <1>1. SessionsInv => AllocationsBacked
    BY DEF SessionsInv, NodesBacked, Backed, AllocationsBacked
  <1> QED
    BY <1>1, SessionsInvariance, PTL

\* Between requests and after a successful publication the data plane serves
\* what the rows say, also after requests that failed and were taken back.
THEOREM ServedAsRecordedHolds == Spec => []ServedAsRecorded
  <1>1. op = Idle => ~ Unsettled
    BY DEF Unsettled, Idle
  <1>2. SessionsInv => ServedAsRecorded
    BY <1>1 DEF SessionsInv, ServesSettled, Serves, ServedAsRecorded
  <1> QED
    BY <1>2, SessionsInvariance, PTL

\* A step replaces the lease of a row only by none or by one never issued.
LEMMA LeasesOnlyNew ==
    ASSUME SessionsInv, [Next]_vars, ~ raced, NEW s \in DOMAIN rows \cap DOMAIN rows'
    PROVE  rows'[s].lease \in {rows[s].lease, None} \/ rows'[s].lease \notin issued
  <1>0. /\ TypeOK /\ OpFit /\ RowsFit /\ LeaseKept /\ LeasesCounted
        /\ IsTable(rows) /\ (\A i \in DOMAIN rows : rows[i] \in Row)
    BY TypeParts DEF SessionsInv, IsTable
  <1>r. ASSUME rows' = Repaired PROVE rows'[s].lease \in {rows[s].lease, None}
    <2>1. Cleared(rows[s]).lease = None
      BY <1>0, RowChanges
    <2> QED
      BY <1>0, <1>r, <2>1, RepairedTable
  <1>1. CASE WritesRow
    <2>1. CASE ClearMissing
      BY <1>r, <2>1 DEF ClearMissing
    <2>2. CASE Write /\ op.job = "replace"
      <3>1. op.s \in DOMAIN rows
        BY <1>0, <2>2, ReachedRow DEF Write, At
      <3>2. Moved(rows[op.s], op.node).lease = rows[op.s].lease
        BY <1>0, <3>1, RowChanges
      <3> QED
        BY <2>2, <3>2 DEF Write, Put
    <2>3. CASE Write /\ op.job # "replace"
      <3>1. op.s \notin DOMAIN rows
        BY <1>0, <2>3 DEF Write, OpFit, JobsFit, RowsFit, At
      <3> QED
        BY <2>3, <3>1 DEF Write, Put
    <2>4. CASE Delete
      BY <2>4 DEF Delete, Drop, Without
    <2>5. CASE Route
      <3>1. op.s \in DOMAIN rows
        BY <1>0, <2>5, ReachedRow DEF Route, At, OpFit, JobsFit
      <3>2. Routed(rows[op.s], op.to).lease = rows[op.s].lease
        BY <1>0, <3>1, RowChanges
      <3> QED
        BY <2>5, <3>2 DEF Route, Put
    <2>6. CASE Restore /\ op.job = "create"
      BY <2>6 DEF Restore, Drop, Without
    <2>7. CASE Restore /\ op.job = "remove"
      <3>1. op.s \notin DOMAIN rows
        BY <1>0, <2>7 DEF Restore, RowsFit, Revocable, At
      <3> QED
        BY <2>7, <3>1 DEF Restore, Put
    <2>8. CASE Restore /\ op.job \in {"replace", "route"}
      <3>1. Replacing /\ ~ At("clear")
        BY <2>8 DEF Restore, Replacing, Revocable, At
      <3>2. rows[op.s].lease = op.prev.lease
        BY <1>0, <3>1 DEF LeaseKept
      <3> QED
        BY <2>8, <3>2 DEF Restore, Put
    <2>9. Restore => op.job \in {"replace", "create", "remove", "route"}
      BY <1>0 DEF Restore, OpFit, JobsFit, At
    <2> QED
      BY <1>1, <2>1, <2>2, <2>3, <2>4, <2>5, <2>6, <2>7, <2>8, <2>9 DEF WritesRow
  <1>2. CASE rows' = rows
    BY <1>2
  <1>3. CASE Work /\ ~ WritesRow
    BY <1>0, <1>2, <1>3, WorkForms
  <1>4. ASSUME NEW i \in Sessions, Requests(i) PROVE rows' = rows
    BY <1>0, <1>4, RequestsStart DEF window
  <1>5. CASE Maintain
    BY <1>0, <1>2, <1>5, MaintainLaunches DEF window
  <1>6. CASE Sync
    BY <1>0, <1>6, <1>r, SyncLaunches
  <1>7. ASSUME NEW i \in Sessions, Expire(i) PROVE rows'[s].lease = rows[s].lease
    BY <1>0, <1>7 DEF Expire, Row, IsTable
  <1>8. ASSUME NEW i \in Sessions, NEW h \in Holders, Claim(i, h)
        PROVE  rows'[s].lease = rows[s].lease \/ rows'[s].lease \notin issued
    <2>1. PICK n \in 1 .. MaxLeases :
              /\ <<h, n>> \in Leases \ issued
              /\ rows' = Put(i, [rows[i] EXCEPT !.lease = <<h, n>>])
      BY <1>0, <1>8, ClaimIssues
    <2>2. i \in DOMAIN rows
      BY <1>8 DEF Claim, ClaimUnlocked
    <2>3. [rows[i] EXCEPT !.lease = <<h, n>>].lease = <<h, n>>
      BY <1>0, <2>2 DEF Row
    <2>4. CASE s = i
      BY <2>1, <2>3, <2>4 DEF Put
    <2>5. CASE s # i
      BY <2>1, <2>5 DEF Put
    <2> QED
      BY <2>4, <2>5
  <1>9. ASSUME NEW i \in Sessions, NEW lease \in issued, ReleaseLease(i, lease)
        PROVE  rows'[s].lease \in {rows[s].lease, None}
    <2>1. i \in DOMAIN rows /\ rows' = Put(i, [rows[i] EXCEPT !.lease = None])
      BY <1>9 DEF ReleaseLease
    <2>2. [rows[i] EXCEPT !.lease = None].lease = None
      BY <1>0, <2>1 DEF Row
    <2> QED
      BY <2>1, <2>2 DEF Put
  <1>10. ASSUME ClearOne PROVE rows'[s].lease \in {rows[s].lease, None}
    <2>1. ASSUME NEW i \in DOMAIN rows, rows' = Put(i, Cleared(rows[i]))
          PROVE  rows'[s].lease \in {rows[s].lease, None}
      <3>1. Cleared(rows[i]).lease = None
        BY <1>0, RowChanges
      <3> QED
        BY <2>1, <3>1 DEF Put
    <2> QED
      BY <1>10, <2>1 DEF ClearOne
  <1>11. CASE RowEdits
    BY <1>7, <1>8, <1>9, <1>10, <1>11 DEF RowEdits
  <1> QED
    BY <1>1, <1>2, <1>3, <1>4, <1>5, <1>6, <1>11, StepSplit, OthersKeep
    DEF vars, window, Crash

\* A guarded request that writes finds the window free or leased to who asked,
\* and a lease is replaced only by none or by a new one.
THEOREM LeaseRespectedHolds == Spec => LeaseRespected
  <1>1. ASSUME SessionsInv, [Next]_vars
        PROVE  /\ Moves /\ op.by = "guarded" /\ op' # op /\ op'.pc # "idle" =>
                      (LeaseActive(op.s) => rows[op.s].lease = op.lease)
               /\ \A s \in DOMAIN rows \cap DOMAIN rows' :
                      \/ rows'[s].lease \in {rows[s].lease, None}
                      \/ rows'[s].lease \notin issued
                      \/ raced
    <2>1. op.by = "guarded" => (LeaseActive(op.s) => rows[op.s].lease = op.lease)
      BY <1>1 DEF SessionsInv, GuardHolds
    <2>2. ASSUME NEW s \in DOMAIN rows \cap DOMAIN rows', ~ raced
          PROVE  \/ rows'[s].lease \in {rows[s].lease, None}
                 \/ rows'[s].lease \notin issued
      BY <1>1, <2>2, LeasesOnlyNew
    <2> QED
      BY <2>1, <2>2
  <1> QED
    BY <1>1, SessionsInvariance, PTL DEF Spec, LeaseRespected

\* A request whose version was accepted replaces the node the consumer read,
\* or none: every change of the node since then has raised the version.
THEOREM VersionDetectsMovesHolds == Spec => VersionDetectsMoves
  <1>1. ASSUME SessionsInv, [Next]_vars
        PROVE  Moves /\ op' # op /\ op'.pc # "idle" /\ op.saw # "any"
                   => rows[op.s].node \in {op.saw, None}
    BY <1>1 DEF SessionsInv, GuardHolds
  <1> QED
    BY <1>1, SessionsInvariance, PTL DEF Spec, VersionDetectsMoves

=============================================================================
