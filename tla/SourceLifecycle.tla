--------------------------- MODULE SourceLifecycle ---------------------------
(***************************************************************************)
(* The life of one source: the handlers of src/sources/service.py in the   *)
(* API processes, the Celery task of src/tasks/sync_source.py with         *)
(* src/sources/sync/service.py in the workers, and the four stores they    *)
(* share: lock, metadata, documents, task results.  Every call to a store  *)
(* is one step, so handlers and tasks interleave between any two of them.  *)
(*                                                                         *)
(* Names are independent of each other (keys, rows and locks carry the     *)
(* source name), so one name is modelled.  A document is its stable id.    *)
(* Connector and description are left out: no guard reads them.            *)
(***************************************************************************)
EXTENDS Integers, FiniteSets

CONSTANTS
    Requests,      \* API requests, each handled once
    Ops,           \* the operations requests may ask for
    Tasks,         \* Celery task ids
    NoTask,        \* no token in the lock, no last_task_id
    Docs,          \* stable document ids the connector may yield
    BatchSize,     \* DOCUMENT_SYNC_BATCH_SIZE
    MetaBackend,   \* "postgres" or "redis"
    DocBackend,    \* "postgres" or "redis"
    NoMeta,        \* no row, no hash
    LeaseCanLapse, \* may the lock of a running task expire? (see SourceLock)
    HostsDie       \* may a worker host die with nobody left to record it?

ASSUME LifecycleAssumption ==
    /\ Ops \subseteq {"create", "update", "sync", "delete"}
    /\ NoTask \notin Tasks
    /\ BatchSize \in Nat \ {0}
    /\ MetaBackend \in {"postgres", "redis"}
    /\ DocBackend \in {"postgres", "redis"}
    /\ LeaseCanLapse \in BOOLEAN
    /\ HostsDie \in BOOLEAN
    /\ IsFiniteSet(Docs)
    /\ NoMeta \notin [whole : BOOLEAN, num : Nat, last : Tasks \cup {NoTask}]

VARIABLES
    meta,       \* the source's metadata, or NoMeta
    docs,       \* ids of its documents in the document store
    owner,      \* token in "lock:<source>", or NoTask
    status,     \* status[t]: what celery-task-meta-<t> says, "none" if no key
    rpc,        \* rpc[r]: where request r is in its handler, or its response
    rtask,      \* rtask[r]: the task it dispatched, or NoTask
    rkeys,      \* rkeys[r]: keys delete_all_documents has scanned
    tpc,        \* tpc[t]: where task t is
    ret,        \* ret[t]: where it goes on after update_metadata, "none"
                \* before its snapshot
    existing,   \* existing_doc_ids of t
    cur,        \* current_doc_ids of t
    batch,      \* docs_to_add of t
    loaded,     \* num_docs in the row t has read to update, 0 without one
    outdated,   \* requests and tasks that have read a row of PostgreSQL to
                \* change it, which was deleted since
    interfered, \* auxiliary: syncs whose documents or count another actor
                \* changed while they ran
    strays,     \* auxiliary: syncs that began too late for a deletion to see
    strayed     \* auxiliary: the documents they have added

reqVars == <<rpc, rtask, rkeys>>
taskVars == <<tpc, ret, existing, cur, batch, loaded>>
auxVars == <<interfered, strays, strayed>>
vars == <<meta, docs, owner, status, reqVars, taskVars, outdated, auxVars>>

\* "whole" is false for a Redis hash that lacks the fields create_metadata
\* writes; every read of such a hash raises KeyError.
NewMeta == [whole |-> TRUE, num |-> 0, last |-> NoTask]
HalfMeta == [whole |-> FALSE, num |-> 0, last |-> NoTask]

MetaExists == meta # NoMeta

Answers == {"ok", "conflict", "not_found", "locked", "error"}

\* Where a task is between acquire_lock and release_lock, in code order.
SyncPCs == {"acquired", "snapshot", "extract", "add", "remove", "meta_check",
            "meta_write", "meta_read", "synced", "failing", "failed"}

Syncing(t) == tpc[t] \in SyncPCs

\* The part of it that has read its snapshot of the document ids.
Working(t) == Syncing(t) /\ ret[t] # "none"

\* Mutant: against the documents added instead of the documents met.
MutantStale(t) == existing[t] \ (cur[t] \ existing[t])

\* doc_ids_to_remove.
Stale(t) == existing[t] \ cur[t]

\* A store write by the actors A counts as interference for every other sync.
InterferedBut(A) == interfered \cup {u \in Tasks \ A : Working(u)}

\* Requests past the test of the lock in delete_source, before their answer.
DeletePCs == {"delete_scan", "delete_drop", "delete_meta", "delete_row"}

\* No deletion sees a synchronisation that takes the lock now.
TooLateToSee == ~MetaExists \/ \E r \in Requests : rpc[r] \in DeletePCs

\* Task t adds documents to the store, or some are removed from it.
Adds(t, added) ==
    /\ docs' = docs \cup added
    /\ interfered' = InterferedBut({t})
    /\ strayed' = IF t \in strays THEN strayed \cup added ELSE strayed \ added

Removes(removed, A) ==
    /\ docs' = docs \ removed
    /\ interfered' = InterferedBut(A)
    /\ strayed' = strayed \ removed

\* The source does not exist, or rests after complete synchronisations.
Init ==
    /\ \/ meta = NoMeta /\ docs = {}
       \/ /\ docs \in SUBSET Docs
          /\ meta = [NewMeta EXCEPT !.num = Cardinality(docs)]
    /\ owner = NoTask
    /\ status = [t \in Tasks |-> "none"]
    /\ rpc = [r \in Requests |-> "idle"]
    /\ rtask = [r \in Requests |-> NoTask]
    /\ rkeys = [r \in Requests |-> {}]
    /\ tpc = [t \in Tasks |-> "unsent"]
    /\ ret = [t \in Tasks |-> "none"]
    /\ existing = [t \in Tasks |-> {}]
    /\ cur = [t \in Tasks |-> {}]
    /\ batch = [t \in Tasks |-> {}]
    /\ loaded = [t \in Tasks |-> 0]
    /\ outdated = {}
    /\ interfered = {} /\ strays = {} /\ strayed = {}

-----------------------------------------------------------------------------
(* Request handlers. *)

\* Request r moves on to, or is answered with, `to`.
Goto(r, to) == rpc' = [rpc EXCEPT ![r] = to]

reqElse == <<docs, owner, status, taskVars, strays, strayed>>

\* create_source: metadata_exists in the service.
CreateBegins(r) ==
    /\ rpc[r] = "idle" /\ "create" \in Ops
    /\ Goto(r, IF MetaExists THEN "conflict" ELSE "create_check")
    /\ UNCHANGED <<meta, reqElse, rtask, rkeys, outdated, interfered>>

\* create_metadata: the store's own test for existence.
CreateChecks(r) ==
    /\ rpc[r] = "create_check"
    /\ Goto(r, IF MetaExists THEN "conflict" ELSE "create_write")
    /\ UNCHANGED <<meta, reqElse, rtask, rkeys, outdated, interfered>>

\* Mutant: the name is not unique in the table, the row is one of two.
MutantCreateWrites(r) ==
    /\ rpc[r] = "create_write"
    /\ Goto(r, "create_read")
    /\ meta' = NewMeta
    /\ interfered' = InterferedBut({})
    /\ UNCHANGED <<reqElse, rtask, rkeys, outdated>>

\* create_metadata: INSERT, which the unique name makes fail on a row that
\* came in meanwhile, or HSET, which writes over it.
CreateWrites(r) ==
    /\ rpc[r] = "create_write"
    /\ IF MetaExists /\ MetaBackend = "postgres"
         THEN /\ Goto(r, "conflict")
              /\ UNCHANGED <<meta, interfered>>
         ELSE /\ Goto(r, "create_read")
              /\ meta' = NewMeta
              /\ interfered' = InterferedBut({})
    /\ UNCHANGED <<reqElse, rtask, rkeys, outdated>>

\* create_metadata returns get_metadata.
CreateReads(r) ==
    /\ rpc[r] = "create_read"
    /\ Goto(r, IF ~MetaExists THEN "not_found"
               ELSE IF meta.whole THEN "dispatch" ELSE "error")
    /\ UNCHANGED <<meta, reqElse, rtask, rkeys, outdated, interfered>>

\* sync_source_documents_task.delay: create_source and update_source.
Dispatch(r) ==
    /\ rpc[r] = "dispatch"
    /\ \E t \in Tasks :
         /\ tpc[t] = "unsent"
         /\ tpc' = [tpc EXCEPT ![t] = "queued"]
         /\ rtask' = [rtask EXCEPT ![r] = t]
    /\ Goto(r, "meta_check")
    /\ UNCHANGED <<meta, docs, owner, status, rkeys, ret, existing, cur, batch,
                   loaded, outdated, auxVars>>

\* update_source, with sync or without, and delete_source: metadata_exists.
UpdateBegins(r) ==
    /\ rpc[r] = "idle" /\ {"update", "sync"} \cap Ops # {}
    /\ \E op \in {"update", "sync"} \cap Ops :
         Goto(r, IF ~MetaExists THEN "not_found"
                 ELSE IF op = "sync" THEN "sync_lock" ELSE "update_lock")
    /\ UNCHANGED <<meta, reqElse, rtask, rkeys, outdated, interfered>>

\* update_source: lock_exists. Nothing is locked: the answer is already old
\* when the next line runs.
UpdateLooksAtLock(r) ==
    /\ rpc[r] \in {"sync_lock", "update_lock"}
    /\ Goto(r, IF owner # NoTask THEN "locked"
               ELSE IF rpc[r] = "sync_lock" THEN "sync_get" ELSE "meta_check")
    /\ UNCHANGED <<meta, reqElse, rtask, rkeys, outdated, interfered>>

\* update_source: get_metadata for the connector to sync with.
UpdateGets(r) ==
    /\ rpc[r] = "sync_get"
    /\ Goto(r, IF ~MetaExists THEN "not_found"
               ELSE IF meta.whole THEN "dispatch" ELSE "error")
    /\ UNCHANGED <<meta, reqElse, rtask, rkeys, outdated, interfered>>

\* update_metadata: EXISTS on Redis, SELECT on PostgreSQL.
MetaChecks(r) ==
    /\ rpc[r] = "meta_check"
    /\ Goto(r, IF MetaExists THEN "meta_write" ELSE "not_found")
    /\ outdated' = outdated \ {r}
    /\ UNCHANGED <<meta, reqElse, rtask, rkeys, interfered>>

\* The hash HSET works on when the key was deleted after EXISTS.
Upserted == IF MetaExists THEN meta ELSE HalfMeta

\* update_metadata: HSET on the key, whatever became of it, or UPDATE of the
\* row that was read, by its id. When that row is gone SQLAlchemy raises
\* StaleDataError, also if another row bears the name now.
MetaWrites(r) ==
    /\ rpc[r] = "meta_write"
    /\ IF r \in outdated
         THEN Goto(r, "error") /\ UNCHANGED meta
         ELSE /\ Goto(r, "meta_read")
              /\ meta' = IF rtask[r] = NoTask THEN Upserted
                         ELSE [Upserted EXCEPT !.last = rtask[r]]
    /\ UNCHANGED <<reqElse, rtask, rkeys, outdated, interfered>>

\* update_metadata returns get_metadata, and the handler answers with it.
MetaReads(r) ==
    /\ rpc[r] = "meta_read"
    /\ Goto(r, IF ~MetaExists THEN "not_found"
               ELSE IF meta.whole THEN "ok" ELSE "error")
    /\ UNCHANGED <<meta, reqElse, rtask, rkeys, outdated, interfered>>

DeleteBegins(r) ==
    /\ rpc[r] = "idle" /\ "delete" \in Ops
    /\ Goto(r, IF MetaExists THEN "delete_lock" ELSE "not_found")
    /\ UNCHANGED <<meta, reqElse, rtask, rkeys, outdated, interfered>>

\* Mutant: the lock is not looked at.
MutantDeleteLooksAtLock(r) ==
    /\ rpc[r] = "delete_lock"
    /\ Goto(r, "delete_scan")
    /\ UNCHANGED <<meta, reqElse, rtask, rkeys, outdated, interfered>>

\* delete_source: lock_exists, again without taking the lock.
DeleteLooksAtLock(r) ==
    /\ rpc[r] = "delete_lock"
    /\ Goto(r, IF owner # NoTask THEN "locked" ELSE "delete_scan")
    /\ UNCHANGED <<meta, reqElse, rtask, rkeys, outdated, interfered>>

\* delete_all_documents: Redis scans the keys first and drops them after.
DeleteScans(r) ==
    /\ rpc[r] = "delete_scan"
    /\ rkeys' = [rkeys EXCEPT ![r] = docs]
    /\ Goto(r, "delete_drop")
    /\ UNCHANGED <<meta, reqElse, rtask, outdated, interfered>>

\* PostgreSQL deletes what is there when the statement runs.
DeleteDrops(r) ==
    /\ rpc[r] = "delete_drop"
    /\ Removes(IF DocBackend = "postgres" THEN docs ELSE rkeys[r], {})
    /\ rkeys' = [rkeys EXCEPT ![r] = {}]
    /\ Goto(r, "delete_meta")
    /\ UNCHANGED <<meta, owner, status, rtask, taskVars, outdated, strays>>

\* delete_metadata: EXISTS on Redis, SELECT on PostgreSQL.
DeleteReads(r) ==
    /\ rpc[r] = "delete_meta"
    /\ Goto(r, IF MetaExists THEN "delete_row" ELSE "not_found")
    /\ outdated' = outdated \ {r}
    /\ UNCHANGED <<meta, reqElse, rtask, rkeys, interfered>>

\* Who has read the row in order to change it.
Readers ==
    {r \in Requests : rpc[r] \in {"meta_write", "delete_row"}}
      \cup {t \in Tasks : tpc[t] = "meta_write"}

\* delete_metadata: DEL of the key, or DELETE of the row that was read, by its
\* id, which does not mind that the row is gone.
DeleteEnds(r) ==
    /\ rpc[r] = "delete_row"
    /\ Goto(r, "ok")
    /\ IF r \in outdated \/ ~MetaExists
         THEN UNCHANGED <<meta, outdated, interfered>>
         ELSE /\ meta' = NoMeta
              /\ outdated' = IF MetaBackend = "postgres"
                              THEN outdated \cup (Readers \ {r}) ELSE outdated
              /\ interfered' = InterferedBut({})
    /\ UNCHANGED <<reqElse, rtask, rkeys>>

RequestStep(r) ==
    \/ CreateBegins(r) \/ CreateChecks(r) \/ CreateWrites(r) \/ CreateReads(r)
    \/ UpdateBegins(r) \/ UpdateLooksAtLock(r) \/ UpdateGets(r)
    \/ Dispatch(r) \/ MetaChecks(r) \/ MetaWrites(r) \/ MetaReads(r)
    \/ DeleteBegins(r) \/ DeleteLooksAtLock(r) \/ DeleteScans(r)
    \/ DeleteDrops(r) \/ DeleteReads(r) \/ DeleteEnds(r)

-----------------------------------------------------------------------------
(* The synchronisation task. *)

Move(t, to) == tpc' = [tpc EXCEPT ![t] = to]

\* The locals of a task go away with its process.
Forget(t) ==
    /\ ret' = [ret EXCEPT ![t] = "none"]
    /\ existing' = [existing EXCEPT ![t] = {}]
    /\ cur' = [cur EXCEPT ![t] = {}]
    /\ batch' = [batch EXCEPT ![t] = {}]
    /\ loaded' = [loaded EXCEPT ![t] = 0]
    /\ interfered' = interfered \ {t}
    /\ strays' = strays \ {t}
    /\ UNCHANGED strayed

taskElse == <<rpc, rtask, rkeys, outdated>>

\* Mutant: the lock is not tested.
MutantAcquire(t) ==
    /\ tpc[t] = "queued"
    /\ owner' = t
    /\ Move(t, "acquired")
    /\ strays' = IF TooLateToSee THEN strays \cup {t} ELSE strays
    /\ UNCHANGED <<meta, docs, status, taskElse, ret, existing, cur, batch,
                   loaded, interfered, strayed>>

\* acquire_lock.
Acquire(t) ==
    /\ tpc[t] = "queued"
    /\ owner = NoTask
    /\ owner' = t
    /\ Move(t, "acquired")
    /\ strays' = IF TooLateToSee THEN strays \cup {t} ELSE strays
    /\ UNCHANGED <<meta, docs, status, taskElse, ret, existing, cur, batch,
                   loaded, interfered, strayed>>

\* update_state SYNCING.
Announces(t) ==
    /\ tpc[t] = "acquired"
    /\ status' = [status EXCEPT ![t] = "SYNCING"]
    /\ Move(t, "snapshot")
    /\ UNCHANGED <<meta, docs, owner, taskElse, ret, existing, cur, batch,
                   loaded, auxVars>>

\* Mutant: Ignore without update_state.
MutantRefuseSilently(t) ==
    /\ tpc[t] = "queued"
    /\ owner # NoTask
    /\ Move(t, "ended")
    /\ UNCHANGED <<meta, docs, owner, status, taskElse, ret, existing, cur, batch,
                   loaded, auxVars>>

\* acquire_lock raises: FAILURE, Ignore, and no lock to release.
Refuse(t) ==
    /\ tpc[t] = "queued"
    /\ owner # NoTask
    /\ status' = [status EXCEPT ![t] = "FAILURE"]
    /\ Move(t, "ended")
    /\ UNCHANGED <<meta, docs, owner, taskElse, ret, existing, cur, batch,
                   loaded, auxVars>>

\* sync_documents: get_document_ids, read once for the whole run.
Snapshot(t) ==
    /\ tpc[t] = "snapshot"
    /\ existing' = [existing EXCEPT ![t] = docs]
    /\ Move(t, "extract")
    /\ ret' = [ret EXCEPT ![t] = "extract"]
    /\ UNCHANGED <<meta, docs, owner, status, taskElse, cur, batch,
                   loaded, auxVars>>

\* One turn of the extraction loop. A document met before changes nothing.
\* One the store did not have joins the batch, and a full batch is flushed.
Extract(t) ==
    /\ tpc[t] = "extract"
    /\ \E d \in Docs \ cur[t] :
         LET queued == IF d \in existing[t] THEN batch[t] ELSE batch[t] \cup {d}
             full == d \notin existing[t] /\ Cardinality(queued) >= BatchSize
         IN  /\ cur' = [cur EXCEPT ![t] = @ \cup {d}]
             /\ batch' = [batch EXCEPT ![t] = queued]
             /\ IF full
                  THEN Move(t, "add") /\ ret' = [ret EXCEPT ![t] = "extract"]
                  ELSE UNCHANGED <<tpc, ret>>
    /\ UNCHANGED <<meta, docs, owner, status, taskElse, existing, loaded,
                   auxVars>>

\* Mutant: nothing is ever removed.
MutantAfterAdding(t) ==
    Move(t, "meta_check") /\ ret' = [ret EXCEPT ![t] = "synced"]

\* What follows the last batch: removal of stale documents if there are any,
\* then the final update of num_docs.
AfterAdding(t) ==
    IF Stale(t) # {} THEN Move(t, "remove") /\ UNCHANGED ret
    ELSE Move(t, "meta_check") /\ ret' = [ret EXCEPT ![t] = "synced"]

\* Mutant: the last, partial batch is forgotten.
MutantExtractionEnds(t) ==
    /\ tpc[t] = "extract"
    /\ AfterAdding(t)
    /\ UNCHANGED <<meta, docs, owner, status, taskElse, existing, cur, batch,
                   loaded, auxVars>>

\* The generator is exhausted: flush what is left, or go on.
ExtractionEnds(t) ==
    /\ tpc[t] = "extract"
    /\ IF batch[t] # {}
         THEN Move(t, "add") /\ ret' = [ret EXCEPT ![t] = "stale"]
         ELSE AfterAdding(t)
    /\ UNCHANGED <<meta, docs, owner, status, taskElse, existing, cur, batch,
                   loaded, auxVars>>

\* add_documents. A primary key that is there already makes PostgreSQL roll
\* the whole batch back; Redis writes over it.
AddBatch(t) ==
    /\ tpc[t] = "add"
    /\ IF DocBackend = "postgres" /\ batch[t] \cap docs # {}
         THEN Move(t, "failing") /\ UNCHANGED <<docs, batch, interfered, strayed>>
         ELSE /\ Adds(t, batch[t])
              /\ batch' = [batch EXCEPT ![t] = {}]
              /\ Move(t, "meta_check")
    /\ UNCHANGED <<meta, owner, status, taskElse, ret, existing, cur, loaded,
                   strays>>

\* delete_documents with existing_doc_ids - current_doc_ids.
RemoveStale(t) ==
    /\ tpc[t] = "remove"
    /\ Removes(Stale(t), {t})
    /\ Move(t, "meta_check")
    /\ ret' = [ret EXCEPT ![t] = "final"]
    /\ UNCHANGED <<meta, owner, status, taskElse, existing, cur, batch, loaded,
                   strays>>

\* update_metadata(num_docs=len(current_doc_ids)), as for the requests.
CountChecks(t) ==
    /\ tpc[t] = "meta_check"
    /\ Move(t, IF MetaExists THEN "meta_write" ELSE "failing")
    /\ loaded' = IF MetaExists /\ MetaBackend = "postgres"
                  THEN [loaded EXCEPT ![t] = meta.num] ELSE loaded
    /\ outdated' = outdated \ {t}
    /\ UNCHANGED <<meta, docs, owner, status, rpc, rtask, rkeys, ret, existing,
                   cur, batch, auxVars>>

\* update_metadata of the task. The UPDATE names the columns that differ from
\* the row as it was read: a count that seemed right then is not written.
CountWrites(t) ==
    /\ tpc[t] = "meta_write"
    /\ IF t \in outdated
         THEN Move(t, "failing") /\ UNCHANGED <<meta, interfered>>
         ELSE /\ Move(t, "meta_read")
              /\ meta' = IF MetaBackend = "postgres"
                            /\ loaded[t] = Cardinality(cur[t]) THEN meta
                         ELSE [Upserted EXCEPT !.num = Cardinality(cur[t])]
              /\ interfered' = InterferedBut({t})
    /\ loaded' = [loaded EXCEPT ![t] = 0]
    /\ UNCHANGED <<docs, owner, status, taskElse, ret, existing, cur, batch,
                   strays, strayed>>

\* update_metadata's get_metadata; then on to where the call was made.
CountReads(t) ==
    /\ tpc[t] = "meta_read"
    /\ IF ~MetaExists \/ ~meta.whole
         THEN Move(t, "failing") /\ UNCHANGED ret
         ELSE CASE ret[t] = "stale" -> AfterAdding(t)
                [] ret[t] = "final" ->
                     Move(t, "meta_check") /\ ret' = [ret EXCEPT ![t] = "synced"]
                [] OTHER -> Move(t, ret[t]) /\ UNCHANGED ret
    /\ UNCHANGED <<meta, docs, owner, status, taskElse, existing, cur, batch,
                   loaded, auxVars>>

\* update_state, an invalid connector, an extraction, embedding or store error.
\* A Redis pipeline that fails half way leaves some of its batch behind.
Fails(t) ==
    /\ tpc[t] \in {"acquired", "snapshot", "extract", "add", "remove",
                   "meta_check", "meta_write", "meta_read"}
    /\ IF tpc[t] = "add" /\ DocBackend = "redis"
         THEN \E some \in SUBSET batch[t] : Adds(t, some)
         ELSE UNCHANGED <<docs, interfered, strayed>>
    /\ Move(t, "failing")
    /\ UNCHANGED <<meta, owner, status, taskElse, ret, existing, cur, batch,
                   loaded, strays>>

\* The except branch: update_state FAILURE, raise Ignore.
RecordFailure(t) ==
    /\ tpc[t] = "failing"
    /\ status' = [status EXCEPT ![t] = "FAILURE"]
    /\ Move(t, "failed")
    /\ UNCHANGED <<meta, docs, owner, taskElse, ret, existing, cur, batch,
                   loaded, auxVars>>

\* The finally branch: release_lock, if the token is still there.
Release(t) ==
    /\ tpc[t] \in {"synced", "failed"}
    /\ owner' = IF owner = t THEN NoTask ELSE owner
    /\ Move(t, IF tpc[t] = "synced" THEN "returned" ELSE "ended")
    /\ Forget(t)
    /\ UNCHANGED <<meta, docs, status, taskElse>>

\* A Redis error in release_lock, which catches LockError alone, before the
\* key is deleted or after. It leaves the finally block in place of the result
\* or of Ignore, and the lock, if it is still there, to its expiry.
ReleaseFails(t) ==
    /\ tpc[t] \in {"synced", "failed"}
    /\ owner' \in {owner, IF owner = t THEN NoTask ELSE owner}
    /\ Move(t, "raised")
    /\ Forget(t)
    /\ UNCHANGED <<meta, docs, status, taskElse>>

\* Celery stores the result of a task that returned, or its exception.
RecordResult(t) ==
    /\ tpc[t] \in {"returned", "raised"}
    /\ status' = [status EXCEPT ![t] =
                     IF tpc[t] = "returned" THEN "SUCCESS" ELSE "FAILURE"]
    /\ Move(t, "ended")
    /\ UNCHANGED <<meta, docs, owner, taskElse, ret, existing, cur, batch,
                   loaded, auxVars>>

Alive(t) == Syncing(t) \/ tpc[t] \in {"returned", "raised"}

\* terminate_task finds a result key, the worker kills its child, which runs
\* no finally block, and handle_task_revoked stores TERMINATED.
Terminate(t) ==
    /\ Alive(t)
    /\ status[t] # "none"
    /\ status' = [status EXCEPT ![t] = "TERMINATED"]
    /\ Move(t, "killed")
    /\ Forget(t)
    /\ UNCHANGED <<meta, docs, owner, taskElse>>

\* The child dies and its parent records WorkerLostError; or the host dies.
WorkerDies(t) ==
    /\ Alive(t)
    /\ \/ status' = [status EXCEPT ![t] = "FAILURE"]
       \/ HostsDie /\ UNCHANGED status
    /\ Move(t, "killed")
    /\ Forget(t)
    /\ UNCHANGED <<meta, docs, owner, taskElse>>

\* Mutant: acquire_lock without a timeout, so that only a renewed key expires.
MutantLockExpires ==
    /\ owner # NoTask
    /\ Syncing(owner) /\ LeaseCanLapse
    /\ owner' = NoTask
    /\ UNCHANGED <<meta, docs, status, reqVars, taskVars, outdated, auxVars>>

\* The lock of a task that died or could not release it expires; that of one
\* at work only when a renewal was too late (SourceLock says when).
LockExpires ==
    /\ owner # NoTask
    /\ ~Syncing(owner) \/ LeaseCanLapse
    /\ owner' = NoTask
    /\ UNCHANGED <<meta, docs, status, reqVars, taskVars, outdated, auxVars>>

SyncStep(t) ==
    \/ Acquire(t) \/ Announces(t) \/ Refuse(t) \/ Snapshot(t) \/ ExtractionEnds(t) \/ AddBatch(t)
    \/ RemoveStale(t) \/ CountChecks(t) \/ CountWrites(t)
    \/ CountReads(t) \/ RecordFailure(t) \/ Release(t) \/ RecordResult(t)

\* Every request is answered and every task over.
Settled ==
    /\ \A r \in Requests : rpc[r] \in Answers
    /\ \A t \in Tasks : tpc[t] \in {"unsent", "ended", "killed"}
    /\ UNCHANGED vars

Next ==
    \/ \E r \in Requests : RequestStep(r)
    \/ \E t \in Tasks :
         \/ SyncStep(t) \/ Extract(t) \/ Fails(t) \/ ReleaseFails(t)
         \/ Terminate(t) \/ WorkerDies(t)
    \/ LockExpires
    \/ Settled

Spec == Init /\ [][Next]_vars

(***************************************************************************)
(* Fairness: workers run what is queued and finish what they run, and      *)
(* Redis expires keys.  A connector yields finitely many documents; that   *)
(* requests are carried through is not assumed.                            *)
(***************************************************************************)
FairSpec ==
    /\ Spec
    /\ \A t \in Tasks : WF_vars(SyncStep(t))
    /\ WF_vars(LockExpires /\ ~Syncing(owner))

-----------------------------------------------------------------------------
(* Properties. *)

\* A synchronisation that nobody interfered with ends with the store holding
\* exactly the documents the connector yielded, and with num_docs counting
\* them, whatever failed or crashed before it.
SyncIsExact ==
    \A t \in Tasks : tpc[t] = "synced" /\ t \notin interfered =>
        /\ docs = cur[t]
        /\ MetaExists
        /\ meta.num = Cardinality(docs)

\* While it runs, and if it fails, such a synchronisation hides no document
\* from searches that is in the old and the new content, drops nothing before
\* the extraction is complete, and adds nothing the connector did not yield.
SyncKeepsDocuments ==
    \A t \in Tasks : Working(t) /\ t \notin interfered =>
        /\ existing[t] \cap cur[t] \subseteq docs
        /\ ret[t] \notin {"final", "synced"} => existing[t] \subseteq docs
        /\ docs \subseteq existing[t] \cup cur[t]

\* While leases hold, other syncs and updates keep their hands off the
\* documents and the count of a source that is being synchronised; only a
\* deletion that looked at the lock too early does not, and a creation: on
\* PostgreSQL that of a source which is gone, never one that lost a race.
NoInterference ==
    [][interfered' \subseteq interfered
       \/ \E r \in Requests :
            /\ \/ rpc[r] \in {"delete_drop", "delete_row"}
               \/ rpc[r] = "create_write"
                    /\ MetaBackend = "postgres" => ~MetaExists
            /\ rpc'[r] # rpc[r]]_vars

\* The task takes, keeps and returns its lock as SyncLease promises.
PhaseOf(t) ==
    IF tpc[t] \in {"unsent", "queued"} THEN "queued"
    ELSE IF Syncing(t) THEN "running" ELSE "ended"

Lease == INSTANCE SyncLease
           WITH Sources <- {"source"},
                SourceOf <- [t \in Tasks |-> "source"],
                holder <- [s \in {"source"} |-> owner],
                phase <- [t \in Tasks |-> PhaseOf(t)]

\* sync_source_documents_task takes, keeps and returns the lock of its source
\* as SyncLease promises.
KeepsLease == Lease!Spec

\* While leases hold, what a deleted source leaves behind in the document store
\* was put there by a synchronisation that took the lock after the deletion had
\* looked at it, or when the source was gone: never by one that was running
\* when the deletion began, had crashed before it, or came before the deletion
\* of another request.
NoOrphans == MetaExists \/ docs \subseteq strayed

\* Metadata that exists has every field that get_source and list_sources
\* read: an update never brings a deleted source half back.
NoHalfSource == MetaExists => meta.whole

\* Every task a worker can pick up comes to a final status that the tasks
\* endpoint shows.
EveryTaskSettles ==
    \A t \in Tasks :
        tpc[t] = "queued" ~> status[t] \in {"SUCCESS", "FAILURE", "TERMINATED"}

\* A source never stays locked: whoever holds it leaves, or dies and expires.
LockIsFreed == owner # NoTask ~> owner = NoTask

=============================================================================
