------------------------ MODULE SourceLifecycleProofs ------------------------
(***************************************************************************)
(* The life of a source, for any number of requests, tasks and documents   *)
(* and either back end: what an undisturbed synchronisation does to the    *)
(* documents, who can disturb it while leases hold, and what a deletion    *)
(* can leave behind.                                                       *)
(***************************************************************************)
EXTENDS SourceLifecycle, FiniteSetTheorems, TLAPS

RequestPCs == {"idle", "create_check", "create_write", "create_read",
               "dispatch", "sync_lock", "update_lock", "sync_get",
               "meta_check", "meta_write", "meta_read", "delete_lock",
               "delete_scan", "delete_drop", "delete_meta", "delete_row"}
                 \cup Answers

MetaPCs == {"meta_check", "meta_write", "meta_read"}

TaskPCs == {"unsent", "queued", "returned", "raised", "ended", "killed"}
             \cup SyncPCs

Metas == [whole : BOOLEAN, num : Nat, last : Tasks \cup {NoTask}]

Types ==
    /\ meta \in Metas \cup {NoMeta}
    /\ docs \subseteq Docs
    /\ owner \in Tasks \cup {NoTask}
    /\ rpc \in [Requests -> RequestPCs]
    /\ rtask \in [Requests -> Tasks \cup {NoTask}]
    /\ rkeys \in [Requests -> SUBSET Docs]
    /\ tpc \in [Tasks -> TaskPCs]
    /\ ret \in [Tasks -> {"none", "extract", "stale", "final", "synced"}]
    /\ existing \in [Tasks -> SUBSET Docs]
    /\ cur \in [Tasks -> SUBSET Docs]
    /\ batch \in [Tasks -> SUBSET Docs]
    /\ loaded \in [Tasks -> Nat]
    /\ interfered \subseteq Tasks
    /\ strays \subseteq Tasks
    /\ strayed \subseteq Docs

\* What the locals of a task are at each place of sync_documents.
Locals(t) ==
    /\ ~Syncing(t) \/ tpc[t] \in {"acquired", "snapshot"} => ret[t] = "none"
    /\ ret[t] = "none" =>
         /\ existing[t] = {} /\ cur[t] = {} /\ batch[t] = {}
         /\ tpc[t] \notin {"extract", "add", "remove", "synced"} \cup MetaPCs
    /\ tpc[t] = "extract" => ret[t] = "extract"
    /\ tpc[t] \in {"add", "remove"} => ret[t] \in {"extract", "stale"}
    /\ tpc[t] \in {"remove"} \cup MetaPCs => batch[t] = {}
    /\ tpc[t] = "synced" => ret[t] = "synced"
    /\ batch[t] \subseteq cur[t]

\* Before the removal the store holds what it held and what was added; after
\* it, what was extracted. On PostgreSQL the row still has the count that was
\* loaded when it is written, and the count is written before it is read back.
Exact(t) ==
    Working(t) /\ t \notin interfered /\ tpc[t] \notin {"failing", "failed"} =>
        /\ ret[t] \in {"extract", "stale"} =>
             docs = existing[t] \cup (cur[t] \ batch[t])
        /\ ret[t] \in {"final", "synced"} => docs = cur[t]
        /\ tpc[t] = "meta_write" /\ MetaBackend = "postgres" =>
             MetaExists /\ meta.num = loaded[t]
        /\ tpc[t] \in {"meta_read", "synced"} =>
             MetaExists /\ meta.num = Cardinality(cur[t])

\* The body of SyncKeepsDocuments, failed synchronisations included.
Keeps(t) ==
    Working(t) /\ t \notin interfered =>
        /\ existing[t] \cap cur[t] \subseteq docs
        /\ ret[t] \notin {"final", "synced"} => existing[t] \subseteq docs
        /\ docs \subseteq existing[t] \cup cur[t]

TaskInv(t) == Locals(t) /\ Exact(t) /\ Keeps(t)

IInv == Types /\ \A t \in Tasks : TaskInv(t)

\* While leases hold, a running task has the lock, and who has it has run.
Holds ==
    /\ \A t \in Tasks : Syncing(t) => owner = t
    /\ owner # NoTask => tpc[owner] \notin {"unsent", "queued"}

TaskStep(t) ==
    \/ SyncStep(t) \/ Extract(t) \/ Fails(t) \/ ReleaseFails(t)
    \/ Terminate(t) \/ WorkerDies(t)

-----------------------------------------------------------------------------
(* Types. *)

LEMMA Counts ==
    ASSUME NEW S \in SUBSET Docs
    PROVE  Cardinality(S) \in Nat
BY LifecycleAssumption, FS_Subset, FS_CardinalityType

LEMMA InitTypes == Init => Types
<1> SUFFICES ASSUME Init PROVE Types
  OBVIOUS
<1>1. Cardinality(docs) \in Nat
  <2>1. docs \in SUBSET Docs
    BY DEF Init
  <2> QED
    BY <2>1, Counts
<1>2. meta \in Metas \cup {NoMeta}
  BY <1>1 DEF Init, Metas, NewMeta
<1> QED
  BY <1>2 DEF Init, Types, RequestPCs, TaskPCs

LEMMA RequestTypes ==
    ASSUME Types, NEW r \in Requests, RequestStep(r)
    PROVE  Types'
<1> USE LifecycleAssumption
<1> USE DEF Types, RequestPCs, TaskPCs, Answers, Goto, reqElse, taskVars
<1>1. NewMeta \in Metas /\ HalfMeta \in Metas
  BY DEF NewMeta, HalfMeta, Metas
<1>2. CASE CreateBegins(r)
  BY <1>2 DEF CreateBegins
<1>3. CASE CreateChecks(r)
  BY <1>3 DEF CreateChecks
<1>4. CASE CreateWrites(r)
  BY <1>1, <1>4 DEF CreateWrites, InterferedBut
<1>5. CASE CreateReads(r)
  BY <1>5 DEF CreateReads
<1>6. CASE UpdateBegins(r)
  BY <1>6 DEF UpdateBegins
<1>7. CASE UpdateLooksAtLock(r)
  BY <1>7 DEF UpdateLooksAtLock
<1>8. CASE UpdateGets(r)
  BY <1>8 DEF UpdateGets
<1>9. CASE Dispatch(r)
  BY <1>9 DEF Dispatch, auxVars
<1>10. CASE MetaChecks(r)
  BY <1>10 DEF MetaChecks
<1>11. CASE MetaWrites(r)
  <2>1. Upserted \in Metas
    BY <1>1 DEF Upserted, MetaExists
  <2>2. [Upserted EXCEPT !.last = rtask[r]] \in Metas
    BY <2>1 DEF Metas
  <2> QED
    BY <1>11, <2>1, <2>2 DEF MetaWrites
<1>12. CASE MetaReads(r)
  BY <1>12 DEF MetaReads
<1>13. CASE DeleteBegins(r)
  BY <1>13 DEF DeleteBegins
<1>14. CASE DeleteLooksAtLock(r)
  BY <1>14 DEF DeleteLooksAtLock
<1>15. CASE DeleteScans(r)
  BY <1>15 DEF DeleteScans
<1>16. CASE DeleteDrops(r)
  BY <1>16 DEF DeleteDrops, Removes, InterferedBut
<1>17. CASE DeleteReads(r)
  BY <1>17 DEF DeleteReads
<1>18. CASE DeleteEnds(r)
  BY <1>18 DEF DeleteEnds, InterferedBut
<1> QED
  BY <1>2, <1>3, <1>4, <1>5, <1>6, <1>7, <1>8, <1>9, <1>10, <1>11, <1>12,
     <1>13, <1>14, <1>15, <1>16, <1>17, <1>18 DEF RequestStep

LEMMA TaskTypes ==
    ASSUME Types, NEW t \in Tasks, Locals(t), TaskStep(t)
    PROVE  Types'
<1> USE LifecycleAssumption
<1> USE DEF Types, TaskPCs, SyncPCs, Move, taskElse, Forget, auxVars
<1>1. CASE Acquire(t) \/ Announces(t) \/ Refuse(t) \/ Snapshot(t)
  BY <1>1 DEF Acquire, Announces, Refuse, Snapshot
<1>2. CASE Extract(t)
  BY <1>2 DEF Extract
<1>3. CASE ExtractionEnds(t)
  BY <1>3 DEF ExtractionEnds, AfterAdding
<1>4. CASE AddBatch(t)
  BY <1>4 DEF AddBatch, Adds, InterferedBut
<1>5. CASE RemoveStale(t)
  BY <1>5 DEF RemoveStale, Removes, InterferedBut
<1>6. CASE CountChecks(t)
  <2>1. MetaExists => meta.num \in Nat
    BY DEF MetaExists, Metas
  <2> QED
    BY <1>6, <2>1 DEF CountChecks
<1>7. CASE CountWrites(t)
  <2>1. Upserted \in Metas
    BY DEF Upserted, MetaExists, HalfMeta, Metas
  <2>2. Cardinality(cur[t]) \in Nat
    BY Counts
  <2>3. [Upserted EXCEPT !.num = Cardinality(cur[t])] \in Metas
    BY <2>1, <2>2 DEF Metas
  <2> QED
    BY <1>7, <2>3 DEF CountWrites, InterferedBut
<1>8. CASE CountReads(t)
  <2>1. ret[t] \in {"extract", "stale", "final", "synced"}
    BY <1>8 DEF CountReads, Locals, MetaPCs
  <2> QED
    BY <1>8, <2>1 DEF CountReads, AfterAdding
<1>9. CASE Fails(t)
  BY <1>9 DEF Fails, Adds, InterferedBut
<1>10. CASE RecordFailure(t) \/ Release(t) \/ ReleaseFails(t) \/ RecordResult(t)
  BY <1>10 DEF RecordFailure, Release, ReleaseFails, RecordResult
<1>11. CASE Terminate(t) \/ WorkerDies(t)
  BY <1>11 DEF Terminate, WorkerDies
<1> QED
  BY <1>1, <1>2, <1>3, <1>4, <1>5, <1>6, <1>7, <1>8, <1>9, <1>10, <1>11
     DEF TaskStep, SyncStep

-----------------------------------------------------------------------------
(* The invariant of each task. *)

\* A task that does not move keeps its invariant unless somebody writes to
\* the documents or the count, and then it is marked.
LEMMA Undisturbed ==
    ASSUME IInv, NEW u \in Tasks,
           UNCHANGED <<tpc[u], ret[u], existing[u], cur[u], batch[u], loaded[u]>>,
           u \in interfered => u \in interfered',
           Working(u) /\ u \notin interfered' =>
               /\ docs' = docs
               /\ MetaExists => MetaExists' /\ meta'.num = meta.num
    PROVE  TaskInv(u)'
<1> USE DEF IInv, TaskInv
<1>1. Locals(u)'
  BY DEF Locals, Syncing
<1>2. Exact(u)'
  BY DEF Exact, Working, Syncing
<1>3. Keeps(u)'
  BY DEF Keeps, Working, Syncing
<1> QED
  BY <1>1, <1>2, <1>3

LEMMA RequestInv ==
    ASSUME IInv, NEW r \in Requests, RequestStep(r), NEW u \in Tasks
    PROVE  TaskInv(u)'
<1> USE DEF reqElse, taskVars
<1>1. CASE \/ CreateBegins(r) \/ CreateChecks(r) \/ CreateReads(r)
           \/ UpdateBegins(r) \/ UpdateLooksAtLock(r) \/ UpdateGets(r)
           \/ MetaChecks(r) \/ MetaReads(r)
           \/ DeleteBegins(r) \/ DeleteLooksAtLock(r) \/ DeleteScans(r)
           \/ DeleteReads(r)
  <2>1. UNCHANGED <<meta, docs, taskVars, interfered>>
    BY <1>1 DEF CreateBegins, CreateChecks, CreateReads, UpdateBegins,
                UpdateLooksAtLock, UpdateGets, MetaChecks, MetaReads,
                DeleteBegins, DeleteLooksAtLock, DeleteScans, DeleteReads
  <2> QED
    BY <2>1, Undisturbed DEF MetaExists
<1>2. CASE CreateWrites(r) \/ DeleteDrops(r) \/ DeleteEnds(r)
  <2>1. UNCHANGED taskVars
    BY <1>2 DEF CreateWrites, DeleteDrops, DeleteEnds
  <2>2. \/ interfered' = InterferedBut({})
        \/ /\ UNCHANGED <<docs, interfered>>
           /\ MetaExists => UNCHANGED meta
    BY <1>2 DEF CreateWrites, DeleteDrops, DeleteEnds, Removes
  <2> QED
    BY <2>1, <2>2, Undisturbed DEF InterferedBut, MetaExists
<1>3. CASE MetaWrites(r)
  <2>1. UNCHANGED <<docs, taskVars, interfered>>
    BY <1>3 DEF MetaWrites
  <2>2. MetaExists => MetaExists' /\ meta'.num = meta.num
    <3> SUFFICES ASSUME MetaExists PROVE MetaExists' /\ meta'.num = meta.num
      OBVIOUS
    <3>1. meta \in Metas
      BY DEF IInv, Types, MetaExists
    <3>2. meta' = meta \/ meta' = [meta EXCEPT !.last = rtask[r]]
      BY <1>3 DEF MetaWrites, Upserted
    <3>3. meta' \in Metas /\ meta'.num = meta.num
      BY <3>1, <3>2 DEF IInv, Types, Metas
    <3> QED
      BY <3>3, LifecycleAssumption DEF MetaExists, Metas
  <2> QED
    BY <2>1, <2>2, Undisturbed
<1>4. CASE Dispatch(r)
  <2>1. PICK t \in Tasks : tpc[t] = "unsent" /\ tpc' = [tpc EXCEPT ![t] = "queued"]
    BY <1>4 DEF Dispatch
  <2>2. UNCHANGED <<meta, docs, ret, existing, cur, batch, loaded, interfered>>
    BY <1>4 DEF Dispatch, auxVars
  <2>3. CASE u = t
    <3>1. tpc[u] = "unsent" /\ tpc'[u] = "queued"
      BY <2>1, <2>3 DEF IInv, Types
    <3>2. Locals(u)'
      BY <2>2, <3>1 DEF IInv, TaskInv, Locals, Syncing, SyncPCs, MetaPCs
    <3>3. ~Working(u)'
      BY <3>1 DEF Working, Syncing, SyncPCs
    <3> QED
      BY <3>2, <3>3 DEF TaskInv, Exact, Keeps
  <2>4. CASE u # t
    BY <2>1, <2>2, <2>4, Undisturbed DEF IInv, Types, MetaExists
  <2> QED
    BY <2>3, <2>4
<1> QED
  BY <1>1, <1>2, <1>3, <1>4 DEF RequestStep

\* A step of one task as the others see it.
LEMMA OtherInv ==
    ASSUME IInv, NEW t \in Tasks, TaskStep(t), NEW u \in Tasks \ {t}
    PROVE  TaskInv(u)'
<1> USE DEF taskElse, Move, Forget, IInv, Types, auxVars
<1>1. UNCHANGED <<tpc[u], ret[u], existing[u], cur[u], batch[u], loaded[u]>>
  <2>1. CASE \/ Acquire(t) \/ Announces(t) \/ Refuse(t) \/ Snapshot(t)
             \/ Extract(t)
    BY <2>1 DEF Acquire, Announces, Refuse, Snapshot, Extract
  <2>2. CASE ExtractionEnds(t) \/ CountReads(t)
    BY <2>2 DEF ExtractionEnds, CountReads, AfterAdding
  <2>3. CASE \/ AddBatch(t) \/ RemoveStale(t) \/ CountChecks(t)
             \/ CountWrites(t) \/ Fails(t)
    BY <2>3 DEF AddBatch, RemoveStale, CountChecks, CountWrites, Fails
  <2>4. CASE RecordFailure(t) \/ Release(t) \/ ReleaseFails(t) \/ RecordResult(t)
    BY <2>4 DEF RecordFailure, Release, ReleaseFails, RecordResult
  <2>5. CASE Terminate(t) \/ WorkerDies(t)
    BY <2>5 DEF Terminate, WorkerDies
  <2> QED
    BY <2>1, <2>2, <2>3, <2>4, <2>5 DEF TaskStep, SyncStep
<1>2. \/ interfered' = InterferedBut({t})
      \/ /\ UNCHANGED <<meta, docs>>
         /\ interfered \ {t} \subseteq interfered'
  <2>1. CASE AddBatch(t) \/ RemoveStale(t) \/ CountWrites(t) \/ Fails(t)
    BY <2>1 DEF AddBatch, RemoveStale, CountWrites, Fails, Adds, Removes
  <2>2. CASE \/ Acquire(t) \/ Announces(t) \/ Refuse(t) \/ Snapshot(t)
             \/ Extract(t) \/ ExtractionEnds(t) \/ CountReads(t)
             \/ CountChecks(t) \/ RecordFailure(t) \/ RecordResult(t)
    BY <2>2 DEF Acquire, Announces, Refuse, Snapshot, Extract, ExtractionEnds,
                CountReads, CountChecks, RecordFailure, RecordResult
  <2>3. CASE Release(t) \/ ReleaseFails(t) \/ Terminate(t) \/ WorkerDies(t)
    BY <2>3 DEF Release, ReleaseFails, Terminate, WorkerDies
  <2> QED
    BY <2>1, <2>2, <2>3 DEF TaskStep, SyncStep
<1>3. u \in interfered => u \in interfered'
  BY <1>2 DEF InterferedBut
<1>4. Working(u) /\ u \notin interfered' => UNCHANGED <<meta, docs>>
  BY <1>2 DEF InterferedBut
<1> QED
  BY <1>1, <1>3, <1>4, Undisturbed DEF MetaExists

\* A step of a task as it sees it itself.
LEMMA OwnInv ==
    ASSUME IInv, NEW t \in Tasks, TaskStep(t)
    PROVE  TaskInv(t)'
<1> USE LifecycleAssumption
<1> USE DEF IInv, Types, taskElse, Move, Working, Syncing, SyncPCs, MetaPCs,
            auxVars
<1>1. CASE \/ Refuse(t) \/ RecordResult(t) \/ Release(t) \/ ReleaseFails(t)
           \/ Terminate(t) \/ WorkerDies(t)
  <2>1. tpc'[t] \in {"ended", "returned", "raised", "killed"}
    BY <1>1 DEF Refuse, RecordResult, Release, ReleaseFails, Terminate, WorkerDies
  <2>2. /\ ret'[t] = "none" /\ existing'[t] = {}
        /\ cur'[t] = {} /\ batch'[t] = {}
    <3>1. CASE Refuse(t) \/ RecordResult(t)
      <4>1. ret[t] = "none"
        BY <3>1 DEF Refuse, RecordResult, TaskInv, Locals
      <4> QED
        BY <3>1, <4>1 DEF Refuse, RecordResult, TaskInv, Locals
    <3>2. CASE Release(t) \/ ReleaseFails(t) \/ Terminate(t) \/ WorkerDies(t)
      BY <3>2 DEF Release, ReleaseFails, Terminate, WorkerDies, Forget
    <3> QED
      BY <1>1, <3>1, <3>2
  <2> QED
    BY <2>1, <2>2 DEF TaskInv, Locals, Exact, Keeps
<1>2. CASE Acquire(t) \/ Announces(t)
  <2>1. ret[t] = "none"
    BY <1>2 DEF Acquire, Announces, TaskInv, Locals
  <2> QED
    BY <1>2, <2>1 DEF Acquire, Announces, TaskInv, Locals, Exact, Keeps
<1>3. CASE Snapshot(t)
  <2>1. ret[t] = "none" /\ cur[t] = {} /\ batch[t] = {}
    BY <1>3 DEF Snapshot, TaskInv, Locals
  <2> QED
    BY <1>3, <2>1 DEF Snapshot, TaskInv, Locals, Exact, Keeps
<1>4. CASE Extract(t)
  <2>0. tpc[t] = "extract" /\ ret[t] = "extract"
    BY <1>4 DEF Extract, TaskInv, Locals
  <2>1. PICK d \in Docs \ cur[t] :
          /\ cur' = [cur EXCEPT ![t] = @ \cup {d}]
          /\ batch'[t] = IF d \in existing[t] THEN batch[t]
                         ELSE batch[t] \cup {d}
          /\ tpc'[t] \in {"extract", "add"}
          /\ ret'[t] = "extract"
    <3>1. PICK d \in Docs \ cur[t] :
            /\ cur' = [cur EXCEPT ![t] = @ \cup {d}]
            /\ batch' = [batch EXCEPT ![t] = IF d \in existing[t] THEN batch[t]
                                             ELSE batch[t] \cup {d}]
            /\ \/ /\ tpc' = [tpc EXCEPT ![t] = "add"]
                  /\ ret' = [ret EXCEPT ![t] = "extract"]
               \/ UNCHANGED <<tpc, ret>>
      BY <1>4, Zenon DEF Extract
    <3>2. /\ batch'[t] = IF d \in existing[t] THEN batch[t]
                         ELSE batch[t] \cup {d}
          /\ tpc'[t] \in {"extract", "add"}
          /\ ret'[t] = "extract"
      BY <2>0, <3>1
    <3> QED
      BY <3>1, <3>2
  <2>2. UNCHANGED <<docs, existing, interfered>>
    BY <1>4 DEF Extract
  <2>3. ret[t] = "extract" /\ batch[t] \subseteq cur[t] /\ tpc[t] = "extract"
    BY <1>4 DEF Extract, TaskInv, Locals
  <2>4. Locals(t)'
    BY <2>1, <2>3 DEF Locals
  <2>5. ASSUME t \notin interfered PROVE docs = existing[t] \cup (cur[t] \ batch[t])
    BY <2>3, <2>5 DEF TaskInv, Exact
  <2>6. Exact(t)'
    BY <2>1, <2>2, <2>3, <2>5 DEF Exact
  <2>7. Keeps(t)'
    BY <2>1, <2>2, <2>3, <2>5 DEF Keeps
  <2> QED
    BY <2>4, <2>6, <2>7 DEF TaskInv
<1>5. ASSUME AfterAdding(t), batch[t] = {}, ret[t] \in {"extract", "stale"},
             tpc[t] \in {"extract", "meta_read"},
             UNCHANGED <<meta, docs, existing, cur, batch, interfered>>
      PROVE  TaskInv(t)'
  <2>1. CASE Stale(t) # {}
    BY <1>5, <2>1 DEF AfterAdding, TaskInv, Locals, Exact, Keeps
  <2>2. CASE Stale(t) = {}
    <3>1. existing[t] \subseteq cur[t]
      BY <2>2 DEF Stale
    <3>2. tpc'[t] = "meta_check" /\ ret'[t] = "synced"
      BY <1>5, <2>2 DEF AfterAdding
    <3>3. ASSUME t \notin interfered PROVE docs = cur[t]
      <4>1. Exact(t)
        BY DEF TaskInv
      <4>2. docs = existing[t] \cup (cur[t] \ batch[t])
        BY <1>5, <3>3, <4>1 DEF Exact
      <4> QED
        BY <1>5, <3>1, <4>2
    <3> QED
      BY <1>5, <3>1, <3>2, <3>3 DEF TaskInv, Locals, Exact, Keeps
  <2> QED
    BY <2>1, <2>2
<1>6. CASE ExtractionEnds(t)
  <2>1. tpc[t] = "extract" /\ ret[t] = "extract"
    BY <1>6 DEF ExtractionEnds, TaskInv, Locals
  <2>2. CASE batch[t] # {}
    BY <1>6, <2>1, <2>2 DEF ExtractionEnds, TaskInv, Locals, Exact, Keeps
  <2>3. CASE batch[t] = {}
    BY <1>5, <1>6, <2>1, <2>3 DEF ExtractionEnds
  <2> QED
    BY <2>2, <2>3
<1>7. CASE AddBatch(t)
  <2>1. tpc[t] = "add" /\ ret[t] \in {"extract", "stale"}
    BY <1>7 DEF AddBatch, TaskInv, Locals
  <2>2. UNCHANGED <<ret, existing, cur>>
    BY <1>7 DEF AddBatch
  <2>3. CASE tpc'[t] = "failing" /\ UNCHANGED <<docs, batch, interfered>>
    BY <2>1, <2>2, <2>3 DEF TaskInv, Locals, Exact, Keeps
  <2>4. CASE /\ docs' = docs \cup batch[t]
             /\ batch' = [batch EXCEPT ![t] = {}]
             /\ interfered' = InterferedBut({t})
             /\ tpc'[t] = "meta_check"
    <3>1. t \in interfered => t \in interfered'
      BY <2>4 DEF InterferedBut
    <3>2. ASSUME t \notin interfered PROVE docs' = existing[t] \cup cur[t]
      BY <2>1, <2>4, <3>2 DEF TaskInv, Locals, Exact
    <3> QED
      BY <2>1, <2>2, <2>4, <3>1, <3>2 DEF TaskInv, Locals, Exact, Keeps
  <2> QED
    BY <1>7, <2>3, <2>4 DEF AddBatch, Adds
<1>8. CASE RemoveStale(t)
  <2>1. tpc[t] = "remove" /\ ret[t] \in {"extract", "stale"} /\ batch[t] = {}
    BY <1>8 DEF RemoveStale, TaskInv, Locals
  <2>2. /\ UNCHANGED <<existing, cur, batch>>
        /\ docs' = docs \ Stale(t)
        /\ interfered' = InterferedBut({t})
        /\ tpc'[t] = "meta_check"
        /\ ret'[t] = "final"
    BY <1>8 DEF RemoveStale, Removes
  <2>3. t \in interfered => t \in interfered'
    BY <2>2 DEF InterferedBut
  <2>4. ASSUME t \notin interfered PROVE docs' = cur[t]
    BY <2>1, <2>2, <2>4 DEF TaskInv, Exact, Stale
  <2> QED
    BY <2>1, <2>2, <2>3, <2>4 DEF TaskInv, Locals, Exact, Keeps
<1>9. CASE CountChecks(t)
  <2>1. /\ UNCHANGED <<meta, docs, ret, existing, cur, batch, interfered>>
        /\ tpc[t] = "meta_check"
        /\ tpc'[t] = "failing" \/ (tpc'[t] = "meta_write" /\ MetaExists)
        /\ MetaExists /\ MetaBackend = "postgres" => loaded'[t] = meta.num
    <3>1. tpc'[t] = IF MetaExists THEN "meta_write" ELSE "failing"
      BY <1>9 DEF CountChecks
    <3> QED
      BY <1>9, <3>1 DEF CountChecks
  <2> QED
    BY <2>1 DEF TaskInv, Locals, Exact, Keeps, MetaExists
<1>10. CASE CountWrites(t)
  <2>1. tpc[t] = "meta_write" /\ ret[t] # "none" /\ batch[t] = {}
    BY <1>10 DEF CountWrites, TaskInv, Locals
  <2>2. UNCHANGED <<docs, ret, existing, cur, batch>>
    BY <1>10 DEF CountWrites
  <2>3. CASE tpc'[t] = "failing" /\ UNCHANGED interfered
    BY <2>1, <2>2, <2>3 DEF TaskInv, Locals, Exact, Keeps
  <2>4. CASE /\ tpc'[t] = "meta_read"
             /\ meta' = [Upserted EXCEPT !.num = Cardinality(cur[t])]
             /\ interfered' = InterferedBut({t})
    <3>1. t \in interfered => t \in interfered'
      BY <2>4 DEF InterferedBut
    <3>2. Upserted \in Metas
      BY DEF Upserted, MetaExists, HalfMeta, Metas
    <3>3. Cardinality(cur[t]) \in Nat
      BY Counts
    <3>4. meta' \in Metas /\ meta'.num = Cardinality(cur[t])
      BY <2>4, <3>2, <3>3 DEF Metas
    <3>5. MetaExists'
      BY <3>4 DEF MetaExists, Metas
    <3> QED
      BY <2>1, <2>2, <2>4, <3>1, <3>4, <3>5
         DEF TaskInv, Locals, Exact, Keeps
  <2>5. CASE /\ tpc'[t] = "meta_read" /\ UNCHANGED meta
             /\ MetaBackend = "postgres" /\ loaded[t] = Cardinality(cur[t])
             /\ interfered' = InterferedBut({t})
    <3>1. t \in interfered => t \in interfered'
      BY <2>5 DEF InterferedBut
    <3>2. t \notin interfered => MetaExists /\ meta.num = Cardinality(cur[t])
      BY <2>1, <2>5 DEF TaskInv, Exact
    <3> QED
      BY <2>1, <2>2, <2>5, <3>1, <3>2
         DEF TaskInv, Locals, Exact, Keeps, MetaExists
  <2> QED
    BY <1>10, <2>3, <2>4, <2>5 DEF CountWrites
<1>11. CASE CountReads(t)
  <2>1. tpc[t] = "meta_read" /\ ret[t] # "none" /\ batch[t] = {}
    BY <1>11 DEF CountReads, TaskInv, Locals
  <2>2. UNCHANGED <<meta, docs, existing, cur, batch, interfered>>
    BY <1>11 DEF CountReads
  <2>3. CASE tpc'[t] = "failing" /\ UNCHANGED ret
    BY <2>1, <2>2, <2>3 DEF TaskInv, Locals, Exact, Keeps
  <2>4. CASE ret[t] = "stale" /\ AfterAdding(t)
    BY <1>5, <2>1, <2>2, <2>4
  <2>5. CASE /\ ret[t] = "final" /\ ret'[t] = "synced"
             /\ tpc'[t] = "meta_check"
    BY <2>1, <2>2, <2>5 DEF TaskInv, Locals, Exact, Keeps
  <2>6. CASE /\ ret[t] \in {"extract", "synced"} /\ UNCHANGED ret
             /\ tpc'[t] = ret[t]
    BY <2>1, <2>2, <2>6 DEF TaskInv, Locals, Exact, Keeps, MetaExists
  <2> QED
    BY <1>11, <2>1, <2>3, <2>4, <2>5, <2>6 DEF CountReads
<1>12. CASE Fails(t)
  <2>1. /\ UNCHANGED <<ret, existing, cur, batch>>
        /\ tpc'[t] = "failing"
        /\ t \in interfered => t \in interfered'
    BY <1>12 DEF Fails, Adds, InterferedBut
  <2>2. \/ docs' = docs
        \/ tpc[t] = "add" /\ \E some \in SUBSET batch[t] : docs' = docs \cup some
    <3>1. CASE tpc[t] = "add" /\ DocBackend = "redis"
      <4>1. \E some \in SUBSET batch[t] : docs' = docs \cup some
        BY <1>12, <3>1 DEF Fails, Adds
      <4> QED
        BY <3>1, <4>1
    <3>2. CASE ~(tpc[t] = "add" /\ DocBackend = "redis")
      <4>1. docs' = docs
        BY <1>12, <3>2 DEF Fails
      <4> QED
        BY <4>1
    <3> QED
      BY <3>1, <3>2
  <2>3. Locals(t)'
    BY <2>1 DEF TaskInv, Locals
  <2>4. Exact(t)'
    BY <2>1 DEF Exact
  <2>5. Keeps(t)'
    <3>1. tpc[t] \in SyncPCs
      BY <1>12 DEF Fails
    <3> QED
      BY <2>1, <2>2, <3>1 DEF TaskInv, Locals, Keeps
  <2> QED
    BY <2>3, <2>4, <2>5 DEF TaskInv
<1>13. CASE RecordFailure(t)
  BY <1>13 DEF RecordFailure, TaskInv, Locals, Exact, Keeps
<1> QED
  BY <1>1, <1>2, <1>3, <1>4, <1>6, <1>7, <1>8, <1>9, <1>10, <1>11, <1>12,
     <1>13 DEF TaskStep, SyncStep

-----------------------------------------------------------------------------
(* Every synchronisation. *)

LEMMA InitIInv == Init => IInv
<1> SUFFICES ASSUME Init, NEW t \in Tasks PROVE TaskInv(t)
  BY InitTypes DEF IInv
<1>1. tpc[t] = "unsent" /\ ret[t] = "none" /\ existing[t] = {}
        /\ cur[t] = {} /\ batch[t] = {}
  BY DEF Init
<1> QED
  BY <1>1 DEF TaskInv, Locals, Exact, Keeps, Working, Syncing, SyncPCs, MetaPCs

LEMMA StepIInv == IInv /\ [Next]_vars => IInv'
<1> SUFFICES ASSUME IInv, [Next]_vars PROVE IInv'
  OBVIOUS
<1>1. ASSUME NEW r \in Requests, RequestStep(r) PROVE IInv'
  BY <1>1, RequestTypes, RequestInv DEF IInv
<1>2. ASSUME NEW t \in Tasks, TaskStep(t) PROVE IInv'
  <2>1. Types'
    BY <1>2, TaskTypes DEF IInv, TaskInv
  <2>2. ASSUME NEW u \in Tasks PROVE TaskInv(u)'
    BY <1>2, OwnInv, OtherInv
  <2> QED
    BY <2>1, <2>2 DEF IInv
<1>3. CASE LockExpires
  <2>1. Types'
    BY <1>3 DEF LockExpires, IInv, Types, reqVars, taskVars, auxVars
  <2>2. ASSUME NEW u \in Tasks PROVE TaskInv(u)'
    BY <1>3, Undisturbed DEF LockExpires, taskVars, auxVars, MetaExists
  <2> QED
    BY <2>1, <2>2 DEF IInv
<1>4. CASE UNCHANGED vars
  <2>1. Types'
    BY <1>4 DEF vars, IInv, Types, reqVars, taskVars, auxVars
  <2>2. ASSUME NEW u \in Tasks PROVE TaskInv(u)'
    BY <1>4, Undisturbed DEF vars, taskVars, auxVars, MetaExists
  <2> QED
    BY <2>1, <2>2 DEF IInv
<1> QED
  BY <1>1, <1>2, <1>3, <1>4 DEF Next, TaskStep, Settled

LEMMA AlwaysIInv == Spec => []IInv
BY InitIInv, StepIInv, PTL DEF Spec

\* Whatever the back ends, however many requests and tasks, whether leases
\* hold or not: sync_documents leaves exactly the connector's documents and
\* their number, unless somebody else wrote to the source while it ran.
THEOREM SyncsAreExact == Spec => []SyncIsExact
<1>1. IInv => SyncIsExact
  <2> SUFFICES ASSUME IInv, NEW t \in Tasks, tpc[t] = "synced",
                      t \notin interfered
               PROVE  docs = cur[t] /\ MetaExists /\ meta.num = Cardinality(docs)
    BY DEF SyncIsExact
  <2>1. ret[t] = "synced"
    BY DEF IInv, TaskInv, Locals
  <2> QED
    BY <2>1 DEF IInv, TaskInv, Exact, Working, Syncing, SyncPCs
<1> QED
  BY <1>1, AlwaysIInv, PTL

\* Under the same conditions sync_documents hides nothing that is to stay,
\* drops nothing before the extraction is complete, and adds nothing else,
\* also if it fails.
THEOREM DocumentsKept == Spec => []SyncKeepsDocuments
<1>1. IInv => SyncKeepsDocuments
  BY DEF IInv, TaskInv, Keeps, SyncKeepsDocuments
<1> QED
  BY <1>1, AlwaysIInv, PTL

-----------------------------------------------------------------------------
(* While leases hold. *)

\* A task that runs has the lock, so no two run.
LEMMA InitHolds == Init => Holds
BY DEF Init, Holds, Syncing, SyncPCs

LEMMA StepHolds ==
    ASSUME LeaseCanLapse = FALSE, Types, Holds, [Next]_vars
    PROVE  Holds'
<1> USE LifecycleAssumption
<1> USE DEF Types, Holds, Syncing, SyncPCs
<1>1. ASSUME NEW r \in Requests, RequestStep(r) PROVE Holds'
  <2>1. CASE Dispatch(r)
    BY <2>1 DEF Dispatch
  <2>2. CASE ~Dispatch(r)
    <3>1. UNCHANGED <<owner, tpc>>
      BY <1>1, <2>2 DEF RequestStep, CreateBegins, CreateChecks, CreateWrites,
         CreateReads, UpdateBegins, UpdateLooksAtLock, UpdateGets, MetaChecks,
         MetaWrites, MetaReads, DeleteBegins, DeleteLooksAtLock, DeleteScans,
         DeleteDrops, DeleteReads, DeleteEnds, reqElse, taskVars
    <3> QED
      BY <3>1
  <2> QED
    BY <2>1, <2>2
<1>2. ASSUME NEW t \in Tasks, TaskStep(t) PROVE Holds'
  <2> USE DEF Move, taskElse
  <2>1. CASE Acquire(t)
    BY <2>1 DEF Acquire
  <2>2. CASE Refuse(t) \/ RecordResult(t)
    BY <2>2 DEF Refuse, RecordResult
  <2>3. CASE Release(t) \/ ReleaseFails(t)
    BY <2>3 DEF Release, ReleaseFails
  <2>4. CASE Terminate(t) \/ WorkerDies(t)
    BY <2>4 DEF Terminate, WorkerDies
  <2>5. CASE \/ Announces(t) \/ Snapshot(t) \/ ExtractionEnds(t)
             \/ AddBatch(t) \/ RemoveStale(t) \/ CountChecks(t)
             \/ CountWrites(t) \/ CountReads(t) \/ RecordFailure(t)
             \/ Extract(t) \/ Fails(t)
    <3>1. Syncing(t) /\ UNCHANGED owner
      BY <2>5 DEF Announces, Snapshot, ExtractionEnds, AddBatch, RemoveStale,
                  CountChecks, CountWrites, CountReads, RecordFailure, Extract,
                  Fails
    <3>2. \/ UNCHANGED tpc
          \/ \E to : /\ tpc' = [tpc EXCEPT ![t] = to]
                   /\ to \notin {"unsent", "queued"}
      <4>0. CASE Extract(t)
        <5>1. UNCHANGED tpc \/ tpc' = [tpc EXCEPT ![t] = "add"]
          BY <4>0, Zenon DEF Extract, Move
        <5> QED
          BY <5>1
      <4>1. CASE Announces(t) \/ Snapshot(t)
        BY <4>1 DEF Announces, Snapshot
      <4>2. CASE ExtractionEnds(t) \/ CountReads(t)
        BY <4>2 DEF ExtractionEnds, CountReads, AfterAdding
      <4>3. CASE \/ AddBatch(t) \/ RemoveStale(t) \/ CountChecks(t)
                 \/ CountWrites(t) \/ Fails(t) \/ RecordFailure(t)
        BY <4>3 DEF AddBatch, RemoveStale, CountChecks, CountWrites, Fails,
                    RecordFailure
      <4> QED
        BY <2>5, <4>0, <4>1, <4>2, <4>3
    <3> QED
      BY <3>1, <3>2
  <2> QED
    BY <1>2, <2>1, <2>2, <2>3, <2>4, <2>5 DEF TaskStep, SyncStep
<1>3. CASE LockExpires
  BY <1>3 DEF LockExpires, taskVars
<1>4. CASE UNCHANGED vars
  BY <1>4 DEF vars, taskVars
<1> QED
  BY <1>1, <1>2, <1>3, <1>4 DEF Next, TaskStep, Settled

LEMMA AlwaysHolds ==
    ASSUME LeaseCanLapse = FALSE
    PROVE  Spec => []Holds
<1>1. Types /\ Holds /\ [Next]_vars => Holds'
  BY StepHolds
<1>2. IInv => Types
  BY DEF IInv
<1> QED
  BY <1>1, <1>2, InitHolds, AlwaysIInv, PTL DEF Spec

\* While leases hold, a step that disturbs a synchronisation is one of a
\* deletion or a creation, in every interleaving: syncs and updates never do.
THEOREM OnlyRequestsInterfere ==
    ASSUME LeaseCanLapse = FALSE
    PROVE  Spec => NoInterference
<1> DEFINE Quiet ==
      \/ interfered' \subseteq interfered
      \/ \E r \in Requests :
           /\ \/ rpc[r] \in {"delete_drop", "delete_row"}
              \/ rpc[r] = "create_write"
                   /\ MetaBackend = "postgres" => ~MetaExists
           /\ rpc'[r] # rpc[r]
<1>1. Types /\ Holds /\ [Next]_vars => [Quiet]_vars
  <2> SUFFICES ASSUME Types, Holds, Next PROVE Quiet
    OBVIOUS
  <2>1. ASSUME NEW r \in Requests, RequestStep(r) PROVE Quiet
    <3>1. CASE CreateWrites(r) \/ DeleteDrops(r) \/ DeleteEnds(r)
      <4>1. rpc'[r] # rpc[r]
        BY <3>1 DEF CreateWrites, DeleteDrops, DeleteEnds, Goto, Types
      <4>2. CASE DeleteDrops(r) \/ DeleteEnds(r)
        BY <4>1, <4>2 DEF DeleteDrops, DeleteEnds
      <4>3. CASE CreateWrites(r)
        BY <4>1, <4>3 DEF CreateWrites
      <4> QED
        BY <3>1, <4>2, <4>3
    <3>2. CASE ~(CreateWrites(r) \/ DeleteDrops(r) \/ DeleteEnds(r))
      <4>1. UNCHANGED interfered
        BY <2>1, <3>2 DEF RequestStep, CreateBegins, CreateChecks, CreateReads,
           UpdateBegins, UpdateLooksAtLock, UpdateGets, Dispatch, MetaChecks,
           MetaWrites, MetaReads, DeleteBegins, DeleteLooksAtLock,
           DeleteScans, DeleteReads, auxVars
      <4> QED
        BY <4>1
    <3> QED
      BY <3>1, <3>2
  <2>2. ASSUME NEW t \in Tasks, TaskStep(t) PROVE Quiet
    <3>1. CASE AddBatch(t) \/ RemoveStale(t) \/ CountWrites(t) \/ Fails(t)
      <4>1. Syncing(t)
        BY <3>1 DEF AddBatch, RemoveStale, CountWrites, Fails, Syncing, SyncPCs
      <4>2. \A u \in Tasks \ {t} : ~Working(u)
        BY <4>1 DEF Holds, Working
      <4>3. InterferedBut({t}) = interfered
        BY <4>2 DEF InterferedBut
      <4>4. interfered' = InterferedBut({t}) \/ interfered' = interfered
        BY <3>1 DEF AddBatch, RemoveStale, CountWrites, Fails, Adds, Removes
      <4> QED
        BY <4>3, <4>4
    <3>2. CASE Release(t) \/ ReleaseFails(t) \/ Terminate(t) \/ WorkerDies(t)
      BY <3>2 DEF Release, ReleaseFails, Terminate, WorkerDies, Forget
    <3>3. CASE \/ Acquire(t) \/ Announces(t) \/ Refuse(t) \/ Snapshot(t)
               \/ Extract(t) \/ ExtractionEnds(t) \/ CountReads(t)
               \/ CountChecks(t) \/ RecordFailure(t) \/ RecordResult(t)
      BY <3>3 DEF Acquire, Announces, Refuse, Snapshot, Extract,
                  ExtractionEnds, CountReads, CountChecks, RecordFailure,
                  RecordResult, auxVars
    <3> QED
      BY <2>2, <3>1, <3>2, <3>3 DEF TaskStep, SyncStep
  <2>3. CASE LockExpires \/ UNCHANGED vars
    BY <2>3 DEF LockExpires, vars, auxVars
  <2> QED
    BY <2>1, <2>2, <2>3 DEF Next, TaskStep, Settled
<1>2. IInv => Types
  BY DEF IInv
<1> QED
  BY <1>1, <1>2, AlwaysIInv, AlwaysHolds, PTL DEF Spec, NoInterference

-----------------------------------------------------------------------------
(* What a deletion leaves behind. *)

\* Whoever synchronises while a deletion is past its test of the lock, or the
\* source is gone, is a stray; what the deletion does not drop is theirs.
Late == TooLateToSee => \A t \in Tasks : Syncing(t) => t \in strays

Dropped(r) ==
    /\ rpc[r] = "delete_drop" /\ DocBackend = "redis" =>
         docs \subseteq rkeys[r] \cup strayed
    /\ rpc[r] \in {"delete_meta", "delete_row"} => docs \subseteq strayed

OrphanInv == Late /\ (\A r \in Requests : Dropped(r)) /\ NoOrphans

LEMMA InitOrphans == Init => OrphanInv
<1> SUFFICES ASSUME Init PROVE OrphanInv
  OBVIOUS
<1>1. \A t \in Tasks : tpc[t] = "unsent"
  BY DEF Init
<1>2. \A r \in Requests : rpc[r] = "idle"
  BY DEF Init
<1>3. MetaExists \/ docs = {}
  <2>1. CASE /\ docs \in SUBSET Docs
             /\ meta = [NewMeta EXCEPT !.num = Cardinality(docs)]
    <3>1. Cardinality(docs) \in Nat
      BY <2>1, Counts
    <3>2. meta \in Metas
      BY <2>1, <3>1 DEF NewMeta, Metas
    <3> QED
      BY <3>2, LifecycleAssumption DEF MetaExists, Metas
  <2> QED
    BY <2>1 DEF Init
<1> QED
  BY <1>1, <1>2, <1>3
     DEF OrphanInv, Late, Dropped, NoOrphans, Syncing, SyncPCs

\* How a request changes what the invariant is about.
LEMMA RequestOrphans ==
    ASSUME Types, Types', Holds, OrphanInv, NEW r \in Requests, RequestStep(r)
    PROVE  OrphanInv'
<1> USE LifecycleAssumption
<1> USE DEF Types, Goto, reqElse, DeletePCs
<1>1. \A t \in Tasks : Syncing(t)' => Syncing(t)
  <2>1. CASE Dispatch(r)
    BY <2>1 DEF Dispatch, Syncing, SyncPCs
  <2>2. CASE ~Dispatch(r)
    <3>1. UNCHANGED tpc
      BY <2>2 DEF RequestStep, CreateBegins, CreateChecks, CreateWrites,
         CreateReads, UpdateBegins, UpdateLooksAtLock, UpdateGets, MetaChecks,
         MetaWrites, MetaReads, DeleteBegins, DeleteLooksAtLock, DeleteScans,
         DeleteDrops, DeleteReads, DeleteEnds, taskVars
    <3> QED
      BY <3>1 DEF Syncing
  <2> QED
    BY <2>1, <2>2
<1>2. CASE DeleteLooksAtLock(r)
  <2>1. UNCHANGED <<meta, docs, rkeys, strays, strayed>>
    BY <1>2 DEF DeleteLooksAtLock
  <2>2. CASE owner = NoTask
    <3>1. \A t \in Tasks : ~Syncing(t)
      BY <2>2 DEF Holds
    <3> QED
      BY <1>1, <1>2, <2>1, <3>1
         DEF DeleteLooksAtLock, OrphanInv, Late, Dropped, NoOrphans, MetaExists
  <2>3. CASE owner # NoTask
    BY <1>1, <1>2, <2>1, <2>3
       DEF DeleteLooksAtLock, OrphanInv, Late, TooLateToSee, Dropped,
           NoOrphans, MetaExists
  <2> QED
    BY <2>2, <2>3
<1>3. CASE DeleteScans(r)
  BY <1>1, <1>3 DEF DeleteScans, OrphanInv, Late, TooLateToSee, Dropped,
                    NoOrphans, MetaExists
<1>4. CASE DeleteDrops(r)
  <2>1. PICK gone \in SUBSET Docs :
          /\ docs' = docs \ gone /\ strayed' = strayed \ gone
          /\ gone = IF DocBackend = "postgres" THEN docs ELSE rkeys[r]
    BY <1>4 DEF DeleteDrops, Removes
  <2>2. /\ rpc[r] = "delete_drop" /\ rpc' = [rpc EXCEPT ![r] = "delete_meta"]
        /\ rkeys' = [rkeys EXCEPT ![r] = {}]
        /\ UNCHANGED <<meta, strays>>
    BY <1>4 DEF DeleteDrops
  <2>3. Late'
    BY <1>1, <2>2 DEF OrphanInv, Late, TooLateToSee, MetaExists
  <2>4. docs' \subseteq strayed'
    BY <2>1, <2>2 DEF OrphanInv, Dropped
  <2> QED
    BY <2>2, <2>3, <2>4 DEF OrphanInv, Dropped, NoOrphans
<1>5. CASE DeleteReads(r)
  BY <1>1, <1>5 DEF DeleteReads, OrphanInv, Late, TooLateToSee, Dropped,
                    NoOrphans, MetaExists
<1>6. CASE DeleteEnds(r)
  BY <1>1, <1>6 DEF DeleteEnds, OrphanInv, Late, TooLateToSee, Dropped,
                    NoOrphans
<1>7. CASE \/ CreateBegins(r) \/ CreateChecks(r) \/ CreateWrites(r)
           \/ CreateReads(r) \/ UpdateBegins(r) \/ UpdateLooksAtLock(r)
           \/ UpdateGets(r) \/ Dispatch(r) \/ MetaChecks(r) \/ MetaWrites(r)
           \/ MetaReads(r) \/ DeleteBegins(r)
  <2> USE DEF CreateBegins, CreateChecks, CreateWrites, CreateReads,
         UpdateBegins, UpdateLooksAtLock, UpdateGets, Dispatch, MetaChecks,
         MetaWrites, MetaReads, DeleteBegins
  <2>1. UNCHANGED <<docs, rkeys, strays, strayed>>
    BY <1>7 DEF auxVars
  <2>2. \A q \in Requests : rpc'[q] = rpc[q] \/ rpc'[q] \notin DeletePCs
    BY <1>7
  <2>3. MetaExists => MetaExists'
    <3>1. NewMeta \in Metas /\ HalfMeta \in Metas
      BY DEF NewMeta, HalfMeta, Metas
    <3>2. MetaExists => Upserted \in Metas
      BY DEF Upserted, MetaExists
    <3>3. MetaExists /\ MetaWrites(r) => meta' \in Metas
      BY <3>2 DEF MetaExists, Metas
    <3> QED
      BY <1>7, <3>1, <3>3 DEF MetaExists, Metas
  <2> QED
    BY <1>1, <2>1, <2>2, <2>3
       DEF OrphanInv, Late, TooLateToSee, Dropped, NoOrphans
<1> QED
  BY <1>2, <1>3, <1>4, <1>5, <1>6, <1>7 DEF RequestStep

\* How a task does.
LEMMA TaskOrphans ==
    ASSUME Types, Types', OrphanInv, NEW t \in Tasks, TaskStep(t)
    PROVE  OrphanInv'
<1> USE LifecycleAssumption
<1> USE DEF Types, taskElse, Move, Forget, auxVars
<1>1. UNCHANGED <<rpc, rkeys>> /\ (MetaExists => MetaExists')
  <2>1. CASE CountWrites(t)
    <3>1. Cardinality(cur[t]) \in Nat
      BY Counts
    <3>2. MetaExists => meta' \in Metas
      BY <2>1, <3>1 DEF CountWrites, Upserted, MetaExists, Metas
    <3> QED
      BY <2>1, <3>2 DEF CountWrites, MetaExists, Metas
  <2>2. CASE ~CountWrites(t)
    <3>1. UNCHANGED <<meta, rpc, rkeys>>
      BY <2>2 DEF TaskStep, SyncStep, Acquire, Announces, Refuse, Snapshot,
         Extract, ExtractionEnds, AddBatch, RemoveStale, CountChecks,
         CountReads, Fails, RecordFailure, Release, ReleaseFails,
         RecordResult, Terminate, WorkerDies
    <3> QED
      BY <3>1 DEF MetaExists
  <2> QED
    BY <2>1, <2>2
<1>2. ASSUME NEW u \in Tasks, Syncing(u)'
      PROVE  \/ Syncing(u) /\ (u \in strays => u \in strays')
             \/ TooLateToSee => u \in strays'
  <2>1. CASE Acquire(t)
    BY <1>2, <2>1 DEF Acquire, Syncing
  <2>2. CASE \/ Refuse(t) \/ RecordResult(t) \/ Release(t) \/ ReleaseFails(t)
             \/ Terminate(t) \/ WorkerDies(t)
    BY <1>2, <2>2 DEF Refuse, RecordResult, Release, ReleaseFails, Terminate,
                      WorkerDies, Syncing, SyncPCs
  <2>3. CASE \/ Announces(t) \/ Snapshot(t) \/ Extract(t) \/ ExtractionEnds(t)
             \/ AddBatch(t) \/ RemoveStale(t) \/ CountChecks(t)
             \/ CountWrites(t) \/ CountReads(t) \/ Fails(t) \/ RecordFailure(t)
    <3>1. tpc[t] \in SyncPCs /\ UNCHANGED strays
      BY <2>3 DEF SyncPCs, Announces, Snapshot, Extract, ExtractionEnds,
         AddBatch, RemoveStale, CountChecks, CountWrites, CountReads, Fails,
         RecordFailure
    <3>2. u # t => tpc'[u] = tpc[u]
      <4>1. CASE Announces(t) \/ Snapshot(t) \/ Extract(t)
        <5>1. tpc' = tpc \/ \E to : tpc' = [tpc EXCEPT ![t] = to]
          BY <4>1 DEF Announces, Snapshot, Extract
        <5> QED
          BY <5>1
      <4>2. CASE ExtractionEnds(t) \/ CountReads(t)
        BY <4>2 DEF ExtractionEnds, CountReads, AfterAdding
      <4>3. CASE \/ AddBatch(t) \/ RemoveStale(t) \/ CountChecks(t)
                 \/ CountWrites(t) \/ Fails(t) \/ RecordFailure(t)
        BY <4>3 DEF AddBatch, RemoveStale, CountChecks, CountWrites, Fails,
                    RecordFailure
      <4> QED
        BY <2>3, <4>1, <4>2, <4>3
    <3> QED
      BY <1>2, <3>1, <3>2 DEF Syncing
  <2> QED
    BY <2>1, <2>2, <2>3 DEF TaskStep, SyncStep
<1>3. \/ UNCHANGED <<docs, strayed>>
      \/ \E gone \in SUBSET Docs :
           docs' = docs \ gone /\ strayed' = strayed \ gone
      \/ \E added \in SUBSET Docs :
           /\ Syncing(t) /\ docs' = docs \cup added
           /\ t \in strays => strayed' = strayed \cup added
  <2>1. CASE AddBatch(t)
    BY <2>1 DEF AddBatch, Adds, Syncing, SyncPCs
  <2>2. CASE Fails(t)
    <3>1. CASE tpc[t] = "add" /\ DocBackend = "redis"
      <4>1. PICK some \in SUBSET batch[t] : Adds(t, some)
        BY <2>2, <3>1 DEF Fails
      <4>2. some \in SUBSET Docs
        OBVIOUS
      <4> QED
        BY <3>1, <4>1, <4>2 DEF Adds, Syncing, SyncPCs
    <3>2. CASE ~(tpc[t] = "add" /\ DocBackend = "redis")
      BY <2>2, <3>2 DEF Fails
    <3> QED
      BY <3>1, <3>2
  <2>3. CASE RemoveStale(t)
    <3>1. Stale(t) \in SUBSET Docs
      BY DEF Stale
    <3> QED
      BY <2>3, <3>1 DEF RemoveStale, Removes
  <2>4. CASE ~(AddBatch(t) \/ Fails(t) \/ RemoveStale(t))
    <3>1. UNCHANGED <<docs, strayed>>
      BY <2>4 DEF TaskStep, SyncStep, Acquire, Announces, Refuse, Snapshot,
         Extract, ExtractionEnds, CountChecks, CountWrites, CountReads,
         RecordFailure, Release, ReleaseFails, RecordResult, Terminate,
         WorkerDies
    <3> QED
      BY <3>1
  <2> QED
    BY <2>1, <2>2, <2>3, <2>4
<1>4. TooLateToSee' => TooLateToSee
  BY <1>1 DEF TooLateToSee
<1>5. Late'
  BY <1>2, <1>4 DEF OrphanInv, Late
<1>6. ASSUME NEW K, docs \subseteq K \cup strayed, TooLateToSee
      PROVE  docs' \subseteq K \cup strayed'
  <2>1. Syncing(t) => t \in strays
    BY <1>6 DEF OrphanInv, Late
  <2> QED
    BY <1>3, <1>6, <2>1
<1>7. ASSUME NEW r \in Requests PROVE Dropped(r)'
  <2>1. CASE rpc[r] \in DeletePCs
    <3>1. TooLateToSee
      BY <2>1 DEF TooLateToSee
    <3>2. docs \subseteq rkeys[r] \cup strayed =>
            docs' \subseteq rkeys[r] \cup strayed'
      BY <1>6, <3>1
    <3>3. docs \subseteq strayed => docs' \subseteq strayed'
      <4>1. docs \subseteq {} \cup strayed => docs' \subseteq {} \cup strayed'
        BY <1>6, <3>1
      <4> QED
        BY <4>1
    <3>4. Dropped(r)
      BY DEF OrphanInv
    <3> QED
      BY <1>1, <3>2, <3>3, <3>4 DEF Dropped
  <2>2. CASE rpc[r] \notin DeletePCs
    BY <1>1, <2>2 DEF Dropped, DeletePCs
  <2> QED
    BY <2>1, <2>2
<1>8. NoOrphans'
  <2>1. SUFFICES ASSUME ~MetaExists' PROVE docs' \subseteq strayed'
    BY DEF NoOrphans
  <2>2. ~MetaExists /\ TooLateToSee
    BY <1>1, <2>1 DEF TooLateToSee
  <2>3. docs \subseteq {} \cup strayed
    BY <2>2 DEF OrphanInv, NoOrphans
  <2>4. docs' \subseteq {} \cup strayed'
    BY <1>6, <2>2, <2>3
  <2> QED
    BY <2>4
<1> QED
  BY <1>5, <1>7, <1>8 DEF OrphanInv

\* While leases hold, whatever requests and tasks race: a document that is in
\* the store when its source is gone was put there by a synchronisation that no
\* deletion could have seen. The proof rests on who has the lock (Holds) and on
\* the order in which delete_source looks, drops and deletes.
THEOREM OnlyStraysLeaveOrphans ==
    ASSUME LeaseCanLapse = FALSE
    PROVE  Spec => []NoOrphans
<1>1. IInv /\ IInv' /\ Holds /\ OrphanInv /\ [Next]_vars => OrphanInv'
  <2> SUFFICES ASSUME IInv, IInv', Holds, OrphanInv, [Next]_vars
               PROVE  OrphanInv'
    OBVIOUS
  <2>1. Types /\ Types'
    BY DEF IInv
  <2>2. ASSUME NEW r \in Requests, RequestStep(r) PROVE OrphanInv'
    BY <2>1, <2>2, RequestOrphans
  <2>3. ASSUME NEW t \in Tasks, TaskStep(t) PROVE OrphanInv'
    BY <2>1, <2>3, TaskOrphans
  <2>4. CASE LockExpires \/ UNCHANGED vars
    <3>1. UNCHANGED <<meta, docs, rpc, rkeys, tpc, strays, strayed>>
      BY <2>4 DEF LockExpires, vars, reqVars, taskVars, auxVars
    <3> QED
      BY <3>1 DEF OrphanInv, Late, TooLateToSee, Dropped, NoOrphans,
                  MetaExists, Syncing
  <2> QED
    BY <2>2, <2>3, <2>4 DEF Next, TaskStep, Settled
<1>2. OrphanInv => NoOrphans
  BY DEF OrphanInv
<1> QED
  BY <1>1, <1>2, InitOrphans, AlwaysIInv, AlwaysHolds, PTL DEF Spec

-----------------------------------------------------------------------------
(* The task keeps the lease contract. *)

\* While leases hold, the Celery task implements SyncLease: it enters only a
\* free source, is turned away from a held one, gives back only what it has,
\* and its lock goes to nobody else before it is dead.
THEOREM TaskKeepsLease ==
    ASSUME LeaseCanLapse = FALSE
    PROVE  Spec => KeepsLease
<1> USE LifecycleAssumption
<1> DEFINE Hold == [s \in {"source"} |-> owner]
<1> DEFINE Phases == [t \in Tasks |-> PhaseOf(t)]
<1>1. Init => Lease!Init
  BY DEF Init, Lease!Init, PhaseOf
<1>2. IInv /\ Holds /\ [Next]_vars => [Lease!Next]_(Lease!vars)
  <2> SUFFICES ASSUME IInv, Holds, [Next]_vars
               PROVE  Lease!Next \/ UNCHANGED <<Hold, Phases>>
    BY DEF Lease!vars
  <2>0. Types
    BY DEF IInv
  <2> USE <2>0 DEF PhaseOf, Syncing, SyncPCs
  <2>1. ASSUME UNCHANGED owner, \A u \in Tasks : PhaseOf(u)' = PhaseOf(u)
        PROVE  UNCHANGED <<Hold, Phases>>
    BY <2>1, Zenon
  <2>2. ASSUME NEW r \in Requests, RequestStep(r)
        PROVE  UNCHANGED <<Hold, Phases>>
    <3>1. UNCHANGED owner
      BY <2>2 DEF RequestStep, CreateBegins, CreateChecks, CreateWrites,
         CreateReads, UpdateBegins, UpdateLooksAtLock, UpdateGets, Dispatch,
         MetaChecks, MetaWrites, MetaReads, DeleteBegins, DeleteLooksAtLock,
         DeleteScans, DeleteDrops, DeleteReads, DeleteEnds, reqElse
    <3>2. \/ UNCHANGED tpc
          \/ \E t \in Tasks : tpc[t] = "unsent"
                                /\ tpc' = [tpc EXCEPT ![t] = "queued"]
      BY <2>2 DEF RequestStep, CreateBegins, CreateChecks, CreateWrites,
         CreateReads, UpdateBegins, UpdateLooksAtLock, UpdateGets, Dispatch,
         MetaChecks, MetaWrites, MetaReads, DeleteBegins, DeleteLooksAtLock,
         DeleteScans, DeleteDrops, DeleteReads, DeleteEnds, reqElse, taskVars
    <3>3. \A u \in Tasks : PhaseOf(u)' = PhaseOf(u)
      BY <3>2 DEF Types
    <3> QED
      BY <2>1, <3>1, <3>3
  <2>3. ASSUME NEW t \in Tasks, TaskStep(t)
        PROVE  Lease!Next \/ UNCHANGED <<Hold, Phases>>
    <3> DEFINE To(p) == Phases' = [Phases EXCEPT ![t] = p]
    <3>0. ASSUME NEW p, PhaseOf(t)' = p, \A u \in Tasks \ {t} : tpc'[u] = tpc[u]
          PROVE  To(p)
      BY <3>0
    <3>1. CASE Acquire(t)
      <4>1. To("running")
        BY <3>0, <3>1 DEF Acquire, Move, Types
      <4>2. Lease!Enter(t)
        BY <3>1, <4>1 DEF Acquire, Lease!Enter
      <4> QED
        BY <4>2 DEF Lease!Next
    <3>2. CASE Refuse(t)
      <4>1. To("ended")
        BY <3>0, <3>2 DEF Refuse, Move, Types
      <4>2. Lease!TurnAway(t)
        BY <3>2, <4>1 DEF Refuse, Lease!TurnAway
      <4> QED
        BY <4>2 DEF Lease!Next
    <3>3. CASE Release(t)
      <4>1. To("ended")
        BY <3>0, <3>3 DEF Release, Move, Types
      <4>2. owner = t
        BY <3>3 DEF Release, Holds
      <4>3. Lease!Leave(t)
        BY <3>3, <4>1, <4>2 DEF Release, Lease!Leave
      <4> QED
        BY <4>3 DEF Lease!Next
    <3>4. CASE (Terminate(t) \/ WorkerDies(t)) /\ Syncing(t)
      <4>1. To("ended") /\ UNCHANGED owner
        BY <3>0, <3>4 DEF Terminate, WorkerDies, Move, Types
      <4>2. Lease!Crash(t)
        BY <3>4, <4>1 DEF Lease!Crash
      <4> QED
        BY <4>2 DEF Lease!Next
    <3>5. CASE /\ Terminate(t) \/ WorkerDies(t)
               /\ tpc[t] \in {"returned", "raised"}
      <4>1. owner' = owner /\ \A u \in Tasks : PhaseOf(u)' = PhaseOf(u)
        BY <3>5 DEF Terminate, WorkerDies, Move, Types
      <4> QED
        BY <2>1, <4>1
    <3>6. CASE RecordResult(t)
      <4>1. owner' = owner /\ \A u \in Tasks : PhaseOf(u)' = PhaseOf(u)
        BY <3>6 DEF RecordResult, Move, Types
      <4> QED
        BY <2>1, <4>1
    <3>7. CASE \/ Announces(t) \/ Snapshot(t) \/ ExtractionEnds(t)
               \/ AddBatch(t) \/ RemoveStale(t) \/ CountChecks(t) \/ CountWrites(t)
               \/ CountReads(t) \/ RecordFailure(t) \/ Extract(t) \/ Fails(t)
      <4> USE DEF Announces, Snapshot, ExtractionEnds, AddBatch, RemoveStale,
             CountChecks, CountWrites, CountReads, RecordFailure, Extract,
             Fails, AfterAdding, Move
      <4>1. Syncing(t) /\ UNCHANGED owner
        BY <3>7
      <4>2. \A u \in Tasks \ {t} : tpc'[u] = tpc[u]
        <5>1. CASE Announces(t) \/ Snapshot(t) \/ Extract(t) \/ ExtractionEnds(t)
          BY <5>1 DEF Types
        <5>2. CASE AddBatch(t) \/ RemoveStale(t) \/ CountChecks(t)
          BY <5>2 DEF Types
        <5>3. CASE CountWrites(t) \/ Fails(t) \/ RecordFailure(t)
          BY <5>3 DEF Types
        <5>4. CASE CountReads(t)
          BY <5>4 DEF Types
        <5> QED
          BY <3>7, <5>1, <5>2, <5>3, <5>4
      <4>3. Syncing(t)'
        <5>1. CASE CountReads(t)
          <6>1. ret[t] \in {"extract", "stale", "final", "synced"}
            BY <5>1 DEF CountReads, IInv, TaskInv, Locals, MetaPCs, Types
          <6> QED
            BY <5>1, <6>1 DEF Types
        <5>2. CASE Announces(t) \/ Snapshot(t) \/ Extract(t) \/ ExtractionEnds(t)
          BY <5>2 DEF Types
        <5>3. CASE \/ AddBatch(t) \/ RemoveStale(t) \/ CountChecks(t)
                   \/ CountWrites(t) \/ Fails(t) \/ RecordFailure(t)
          BY <5>3 DEF Types
        <5> QED
          BY <3>7, <5>1, <5>2, <5>3
      <4>4. \A u \in Tasks : PhaseOf(u)' = PhaseOf(u)
        BY <4>1, <4>2, <4>3
      <4> QED
        BY <2>1, <4>1, <4>4
    <3>8. CASE ReleaseFails(t)
      <4>1. To("ended")
        BY <3>0, <3>8 DEF ReleaseFails, Move, Types
      <4>2. owner = t /\ owner' \in {owner, NoTask}
        BY <3>8 DEF ReleaseFails, Holds
      <4>3. CASE owner' = owner
        <5>1. Lease!Crash(t)
          BY <3>8, <4>1, <4>3 DEF ReleaseFails, Lease!Crash
        <5> QED
          BY <5>1 DEF Lease!Next
      <4>4. CASE owner' = NoTask
        <5>1. Lease!Leave(t)
          BY <3>8, <4>1, <4>2, <4>4 DEF ReleaseFails, Lease!Leave
        <5> QED
          BY <5>1 DEF Lease!Next
      <4> QED
        BY <4>2, <4>3, <4>4
    <3>9. Terminate(t) \/ WorkerDies(t) =>
            Syncing(t) \/ tpc[t] \in {"returned", "raised"}
      BY DEF Terminate, WorkerDies, Alive
    <3> QED
      BY <2>3, <3>1, <3>2, <3>3, <3>4, <3>5, <3>6, <3>7, <3>8, <3>9
         DEF TaskStep, SyncStep
  <2>4. CASE LockExpires
    <3>1. /\ owner \in Tasks /\ PhaseOf(owner) = "ended"
          /\ owner' = NoTask /\ UNCHANGED tpc
      BY <2>4 DEF LockExpires, Types, taskVars, Holds
    <3>2. Lease!Lapse({"source"})
      BY <3>1 DEF Lease!Lapse
    <3> QED
      BY <3>2 DEF Lease!Next
  <2>5. CASE UNCHANGED vars
    BY <2>1, <2>5 DEF vars, taskVars
  <2> QED
    BY <2>2, <2>3, <2>4, <2>5 DEF Next, TaskStep, Settled
<1> QED
  BY <1>1, <1>2, AlwaysIInv, AlwaysHolds, PTL
     DEF Spec, KeepsLease, Lease!Spec

=============================================================================
