# Formal models of ragpi

TLA+ specifications of ragpi, the TLC configurations that check them on small
instances and the theorems TLAPS proves about them for every instance. All
paths below are relative to the repository; `src/` is its Python package.

To check a run: `tlc -config <cfg> <module>.tla`. To check the proofs:
`tlapm <module>.tla` for each of the eight modules whose name ends in `Proofs`.
`PROJECT.json` lists the runs with their properties, a mutant for each
property (a plausible bug in one definition that the property detects), the
lines of source every definition stands for, the hazards and the theorems.

## 1. The system

ragpi is a retrieval service: *sources* (a sitemap, the issues of a GitHub
repository, ...) are read by *connectors*, cut into documents, embedded and
stored; searches and chats are answered from the store. Several API processes
and several Celery workers run at once and share nothing but Redis and,
depending on the settings, PostgreSQL.

| Component | State | Operations | Talks to |
|---|---|---|---|
| Source lock, `lock/service.py` | Redis key `lock:<source>`: token, time to live; a renewal coroutine in the worker | `acquire_lock`, `renew_lock`, `release_lock`, `lock_exists` | Redis |
| Source service, `sources/service.py` | none of its own | create, update, delete a source; list, get, search | metadata store, document store, lock, Celery |
| Synchronisation, `tasks/sync_source.py`, `sources/sync/service.py` | locals of the task: `existing_doc_ids`, `current_doc_ids`, `docs_to_add` | the Celery task around `sync_documents` | lock, connector, both stores, task results |
| Metadata stores, `sources/metadata/` | a row or a Redis hash per source: `num_docs`, `last_task_id`, ... | create, get, update, delete, list | PostgreSQL or Redis |
| Document stores, `document_store/{postgres,redis}/` | rows or hashes with vectors; an index | add, delete, delete all, ids, searches | PostgreSQL or Redis |
| Task results, `celery.py`, `tasks/service.py` | `celery-task-meta-<id>` | status updates, `terminate_task`, `handle_task_revoked` | Redis, workers |
| Start-up validation, `document_store/preflight.py`, `manifest.py` | manifest, initialisation marker, start-up locks | `run_preflight` in every API process and worker parent | document store |
| GitHub client and issues connector | rate-limit event, semaphore, one task per issue | `request`, `fetch_issues`, `fetch_comments` | GitHub |
| Chat, `chat/service.py` | the conversation of one request | the tool loop, over two model APIs | source service, model |
| Sitemap connector, `connectors/sitemap/` | list of URLs, semaphore, one task per page | `parse_sitemap`, `fetch_robots_txt`, `fetch_page` | HTTP |
| REST, README and PDF connectors | locals of a generator | one request after the other | HTTP, GitHub client |
| Retrieval, `document_store/ranking.py` and the searches of both stores | none | search, list documents | document store, embedding model |
| Chunkers | none | split text | |
| PostgreSQL engine, `common/postgres.py` | one global engine | get, dispose | PostgreSQL |
| Configuration, API wiring, LLM clients, health check | none | | |

What is hard in it:

- **Concurrency without transactions.** Handlers and tasks interleave between
  any two store calls. `update_source` and `delete_source` only *look* at the
  lock; just the task takes it. On Redis most store operations are several
  commands.
- **A lease renewed on the loop that does the work.** The renewal coroutine
  shares its event loop with synchronous store and embedding calls.
- **Death.** `terminate_task` kills a worker child, which runs no `finally`;
  a start-up may die between marker, index and manifest.
- **Mixing embedding spaces.** Vectors of two models can be the same size, so
  no index tells them apart; only the start-up protocol does.
- **Retries and rate limits** shared between coroutines, with error paths that
  leave a generator silently short.
- **A generator whose silence deletes.** The sync removes every document the
  connector did not yield. A connector that ends early without raising makes
  it delete what it merely failed to read.
- **Sources that vanish** while a chat is using them, and documents that come
  and go between the queries of one search.

What makes each component correct:

- *Lock*: a running sync always holds its source; an overtaken task harms
  nobody; abandoned keys go away.
- *Sources and sync*: an undisturbed sync leaves exactly what the connector
  yielded, whatever failed before it; nothing that stays is missing on the way;
  nobody else writes meanwhile; only a sync that began too late for a deletion to
  see leaves documents behind; every task ends with a status and no source stays
  locked.
- *Start-up*: a process that is up serves the one embedding space its store
  holds; an interrupted start is resumed; a start ends.
- *Connectors*: what a run leaves out without an error was withheld by the
  other side, and nothing is yielded twice or after an error; every wanted page
  or issue is asked for until its attempts are used up; parked callers are
  woken; a run ends.
- *Retrieval*: an answer consists of documents the queries found; the fused
  order contradicts no order both queries agree on.
- *Chat*: every tool call is answered before the model is asked again; the
  newest messages are sent; a source that vanishes does not end the chat; the
  loop ends.

## 2. The modules

| Module | Models | Composition |
|---|---|---|
| `SyncLease` | abstract contract of the source lock, no clock | implemented by `SourceLock` and kept by `SourceLifecycle` (theorems) |
| `SourceLock` | lease, renewal coroutine, event loop, clock | |
| `SourceLifecycle` | request handlers, the Celery task, the four stores | a lease abstraction of `SourceLock`; a connector is an arbitrary stream |
| `StoreConfigs` | constants and assumptions about embedding configurations | extended by the next three |
| `StorePreflight` | abstract contract of start-up validation | implemented by the next two (checked and theorems) |
| `RedisPreflight` | `_redis_preflight` command by command | refines `StorePreflight` |
| `PgPreflight` | `_pg_preflight` statement by statement | refines `StorePreflight`, once per namespace |
| `DocumentStream` | what `sync_documents` may expect of a connector | implemented by the next three (checked and theorems) |
| `GithubIssuesFetch` | GitHub client with the issues connector | refines `DocumentStream` |
| `SitemapCrawl` | sitemap connector | refines `DocumentStream` |
| `SequentialFetch` | REST, README and PDF connectors | refines `DocumentStream` |
| `Retrieval` | search, listing, rank fusion, against a changing store | |
| `ChatLoop` | one chat request against changing sources | |
| `SourceLockProofs`, `SourceLifecycleProofs`, `StorePreflightProofs`, `RedisPreflightProofs`, `PgPreflightProofs`, `GithubFetchProofs`, `ConnectorProofs`, `AnswerProofs` | the theorems | each extends the module of its component. The two about the preflights also instantiate `StorePreflightProofs`; `ConnectorProofs` extends `SitemapCrawl` and `SequentialFetch`; `AnswerProofs` extends `Retrieval` and `ChatLoop` |
| `MC*` | instances: sets of model values, symmetry | |

### SourceLock

One task is one call of `sync_source_documents_task`. `pc[t]` tells whether its
event loop is executing the sync (`busy`), is free while the sync awaits
(`waiting`), or what became of it; `renewal[t]` is where `renew_lock` is:
`unborn` (created, not run yet), asleep, or due and in the ready queue behind or
before a step of the sync. `Tick` lets a unit of time pass for keys, sleeps and
the current synchronous stretch. `Lock.extend` of redis-py *adds* to the time
that is left. `LockError` and any other Redis error both end the renewal while
the sync goes on. `Kill` is a death without the `finally` block.

`MaxStretch` is the longest time the sync keeps the loop to itself. The lock
covers the sync only if `Timely` holds: no Redis error and

    RenewalInterval + 3 * MaxStretch < LockTimeout
    RenewalInterval + 2 * MaxStretch <= ExtendTime

With the defaults (30, 120, 120) a stretch has to stay below 30 seconds: a
batch of embeddings or inserts is one. The three stretches are the one before
the loop first turns, the one under way when the timer fires, and the one
already queued ahead of the renewal. A stretch is everything the sync does in
one turn of the loop, however many callbacks that is. `RenewFails` is a Redis
error in `extend`, whether the key was extended before the reply was lost or not.

### SourceLifecycle

One source name (keys, rows and locks carry the name, so sources are
independent), any number of requests and tasks. Every call of a store is one
step: `rpc[r]` and `tpc[t]` say which call is next. Answers are `ok`,
`conflict`, `not_found`, `locked`, `error`. Constants select the back ends,
which differ in atomicity:

| | PostgreSQL | Redis |
|---|---|---|
| create metadata | test, then INSERT under a unique constraint | test, then HSET |
| update metadata | SELECT, then UPDATE of the row that was read; an error if it went | EXISTS, then HSET |
| delete metadata | SELECT, then DELETE of the row that was read | EXISTS, then DEL |
| add documents | all or nothing, a known id is an error | pipeline, may stop half way, overwrites |
| delete all documents | what is there at that moment | scan, then drop what was found |

PostgreSQL's UPDATE finds its row by primary key. When another transaction has
deleted the row since the SELECT, SQLAlchemy raises `StaleDataError`, also if a new
row has the name by then: `outdated` has those who hold such a row. SQLAlchemy
leaves columns out of the UPDATE that are as they were read, hence `loaded`.

`Acquire` and `Announces` are the lock and the status SYNCING, two calls with a
gap in which the task may die. `ReleaseFails` is an error of `release_lock` other
than the `LockError` it catches: it leaves the `finally` block in place of the
result or of `Ignore`, Celery records a failure, and the key stays until it expires.

Taken as one step although the code makes two calls: EXISTS with HGETALL in
Redis's `get_metadata`; a deletion in between is seen as one before. Not modelled
are failures of `acquire_lock` other than being refused, and of the `update_state`
that records a failure: Celery stores the exception then.

Three variables are auxiliary, no guard reads them. `interfered` has the running
syncs whose documents or count somebody else wrote; `strays` the syncs that took
the lock when a deletion had already looked at it, or the source was gone;
`strayed` the documents these have added and nobody has removed or written again.

Which free task id a request gets makes no difference, and there are as many ids
as requests: the run `lifecycle` gives each request its own (the action constraint
`MCOwnTask`), the others use symmetry.

### StorePreflight, RedisPreflight, PgPreflight

A *configuration* stands for what `build_configured_manifest` computes; its
*shape* is what can be read off an index. Two configurations can share a shape
(two models of one size), and that is the point. `Adoptable` holds at most one
configuration: the legacy default of `_is_legacy_default`, or the one the
operator vouches for with `EMBEDDING_ADOPT_EXISTING`; that the operator is
right is an assumption (`AdoptableAssumption` and `Init`). The operator's reset
(`README.md:131-150`) may forget a step, except that on PostgreSQL dropping the
table drops its rows; the index rebuild (`README.md:152-168`) is `Rebuild`.

`RedisPreflight` has one step per Redis command, a crash anywhere, restarts
under another configuration and the lock key with its expiry; the release at the end is
best effort, and one that fails leaves the key to expire. `PgPreflight`
keeps a transaction's writes in `own[p]` until it commits; the extension and
the manifest table are shared by all namespaces of the database, a manifest row
and a table belong to one. Its `lacking` is auxiliary: the parts of a store that an
operator removed, or that a store older than manifests never had, until a start
commits them. Start-up order (validation before serving) is the
order of `Start`, the validation and `Embed`.

### GithubIssuesFetch

Coroutines of one loop: a step goes from one `await` to the next. `Main` is the
page loop, each issue a comment task. An answer is a page, a rate limit, a
rate limit with an unreadable `Retry-After`, a rejection or a client error.
Durations are left out; sleeps end in any order. What `process_item` skips is
the constant `Wanted`.

Every request either returns data, raises, or returns `(None, None)` after its
last attempt; `exhausted` remembers the callers of the third kind. The pages
are the list as it is when the run starts (`PageAssumption`: no issue is on two
pages, only the last may be empty). The code asks for a list sorted by last
update, newest first. An issue of a page still to come that is edited, commented on,
opened or closed meanwhile moves to the first page: the run misses it, and the sync
deletes its documents; those it passed shift by one, and one of them may be met
twice. With a filter on the state, one that leaves the list lets another slip to
a page already read. None of this is modelled: what the module shows holds of
runs during which the list stays as it is.

### DocumentStream, SitemapCrawl, SequentialFetch

`DocumentStream` is the contract between a connector's generator and the sync:
`items` is what the source turned out to have, `out` what was yielded,
`excused` what the other side refused. It may end only with
`items` within `out` and `excused`, or raise. `sync_documents` removes from the
store whatever is not in `out` when the generator ends, and nothing when it
raises.

`SitemapCrawl` has the stack of `parse_sitemap` calls as `pending`, depth first,
and one task per URL: `waiting` for the semaphore, `sent`, `sleeping` after a
failure, `again` after an odd answer, and what became of it. `Sites` are the
contents the server may serve. `SitemapFails` covers an answer that raises as
well as the recursion limit, which is how sitemaps that name each other end.
`tries` is the code's `retry_count`; the auxiliary `failures` counts the answers
that really failed, so that `GivenUpForCause` can tell a page that is given up
too early. Back-off times are left out: sleeps end in any order.

`SequentialFetch` is one module for three connectors, chosen by the initial
state; items are numbered in the order of their list. `GetsRepo`, `GetsHead`,
`GetsNamed`, `GetsCommit` and `GetsTree` are the requests of the PDF connector,
`GetsResponse` is the one request of the REST connector, and the README
connector starts in the loop. A file a truncated tree does not name is
`unlisted`; what is passed over with a warning is `skipped`. Its specification is
`FetchSpec`, and that of `ChatLoop` `ChatSpec`, with names of their own for state
and steps, so that one module of proofs can extend two components.

### Retrieval

A request of `search_source` or `get_source_documents` between any additions
and removals by others. A query answers with any ranking of at most `TopK`
documents that are in the store at that moment: how PostgreSQL or RediSearch
ranks, and what an approximate index misses, is theirs. `Fusion` is
`reciprocal_rank_fusion` with scores multiplied by a common denominator, which
makes them integers. The code adds floats. Two hits at the same pair of places,
the other way round, tie in both. Different pairs whose fractions are equal (1/60 + 1/84 =
1/70 + 1/70) need not tie after rounding, so which of them comes first may differ;
no property is about that. The dict's insertion order and the stable sort
are `MetFirst` and `Before`. On Redis a listing is keys first, hashes later.

### ChatLoop

One request: `_get_sources`, the window of messages, the loop over either API.
`input` is what the next call to the model carries, entry by entry (said, call,
output). The model may answer, say nothing, fail, or call tools with known,
unknown or malformed arguments. Sources come and go at any step. `settings`
holds the choice of API and metadata back end.

## 3. The runs

| Run | Shows | Bounds | Distinct states |
|---|---|---|---|
| `lock_timely` | `LockCoversSync`, `OneSyncPerSource`, `LeaseInv`, refinement of `SyncLease` | 2 sources, 3 tasks (two on one source); 120/30 s scaled to timeout 6, extension 4, interval 2, stretch 1 | 363 thousand |
| `lock_late` | `NoForeignRelease`, `LostLeaseStaysLost`, `AbandonedLockExpires` with leases that lapse and Redis errors | 3 tasks on one source; timeout 2, interval 1, stretch 2 | 216 thousand |
| `lifecycle` | `SyncIsExact`, `NoOrphans`, `NoInterference`, `EveryTaskSettles`, `LockIsFreed`, refinement of `SyncLease`; PostgreSQL metadata, Redis documents | 2 requests of every kind, 2 tasks, 2 documents, batches of 2, `MCOwnTask` | 282 thousand |
| `lifecycle_lapse` | `SyncIsExact`, `SyncKeepsDocuments` with lapsing leases; Redis metadata, PostgreSQL documents | 2 requests, 2 tasks, 2 documents, batches of 1 | 2.0 million (up to symmetry) |
| `lifecycle_half` | **violation** of `NoHalfSource` on Redis (section 6) | 2 requests | found after about a thousand |
| `preflight_redis` | `FailsForACause`, `EveryStartEnds`, refinement of `StorePreflight` | 2 processes, 3 configurations, incomplete resets | 45 thousand |
| `preflight_pg` | `OneWriter`, `LargeNeedsNew`, `NothingHalfDone`, refinement of `StorePreflight` | 3 processes of 2 namespaces, 3 configurations, extension missing, old or new | 753 thousand |
| `github_fetch` | `LossesExplained`, `SomebodyWakesThem`, `EveryFetchEnds`, refinement of `DocumentStream` | 4 issues and a pull request on 3 pages, the last one empty, 2 slots, 2 attempts | 73 thousand |
| `chat` | `CallsAnswered`, `RecentMessages`, `NotFoundEarly`, `EveryChatEnds` | 2 sources, 3 messages, window of 2, 3 turns, 2 calls a message, 4 settings | 81 thousand |
| `sitemap_crawl` | `LossesExplained`, `EveryCrawlEnds`, the semaphore's limit (`CrawlTypeOK`), refinement of `DocumentStream` | 4 sites of 3 sitemaps and 5 URLs, 2 slots, 2 attempts, depth 5 | 93 thousand |
| `connectors_sequential` | the loop's bookkeeping, refinement of `DocumentStream` | 3 connectors, up to 5 items | 912 |
| `retrieval` | `ResultsWereFound`, `AgreedOrder`, `FirstHitKept` | 5 documents, the best 3 asked for, every pair of rankings | 6.8 thousand (up to symmetry) |

Why the bounds are enough to be interesting: two tasks are needed for a lock to
be contended and a third to be overtaken by; two documents make a batch
partial, a removal partial and an overlap; two requests put any operation
between the calls of any other; three configurations give one equal in
shape and one different; two slots with three comment tasks leave one queued
while both slots sleep, and four pages over two slots one that has to wait; an index, a
list and a circle are all a tree of sitemaps can do; five documents of which
three are asked for let two full lists overlap in one, so that the fusion has to
cut off documents of both; a window of two with three messages drops one; two calls
in a message leave one open if the loop forgets.

Bounds that only exist for checking: `MaxTtl` (time to live saturates),
`MaxMessages`, `MaxCalls`, `MaxItems`, and `MaxTasks` (the tasks fairness is
stated for). `MaxDepth` stands for the interpreter's recursion limit of about a
thousand. `CHECK_DEADLOCK FALSE` is set for the connectors, `Retrieval` and
`ChatLoop`, where one run or one request ends. In `SourceLifecycle` the end
is the explicit stutter `Settled`, so a deadlock before it is an error.

## 4. Fairness

- `SourceLock`: the clock runs, a free loop serves its ready queue, a
  synchronous stretch ends. An extraction may go on for ever.
- `SourceLifecycle`: workers run what is queued and finish the step they are
  at; Redis expires the key of a dead owner. Requests are not fair: an API
  process may stop anywhere. A host lost with nobody to record it is excluded
  from the liveness run (`HostsDie`), because the code has no mechanism for it.
- `RedisPreflight`: a started process issues its commands; one that polls for
  a lock that is free again and again gets it (strong fairness, the code polls
  every half second); abandoned keys expire.
- `GithubIssuesFetch`: asyncio runs what is ready, requests are answered or
  time out, sleeps end.
- `SitemapCrawl`: the same. `EveryCrawlEnds` has a premise besides: that the
  server does not for ever answer a page with a status below 400 other than 200.
  Without it the property fails, because the loop neither counts nor sleeps then
  (`connectors/sitemap/crawler.py:159`).
- `ChatLoop`: the handler runs on and the model's client returns or raises.

## 5. What is proved

For every set of sources and tasks and every timing (`SourceLockProofs`):

- `TypeCorrect`, `KeysWellFormed` (a key exists as long as its time to live is
  positive, and belongs to a task of that source that was started).
- `LeaseHolds`: `Timely => (Spec => []LeaseInv)`. `LockCoversSync` alone is not
  inductive: that the key is still there says nothing of how long it will be.
  `LeaseInv` adds that the renewal is alive and that what is left on the key is
  at least `LeaseFloor`, a bound that falls by one stretch for each way the
  renewal can be late. Each action raises or keeps the floor; `Tick` lowers key
  and floor together. Tasks of other sources touch other keys, and tasks of
  this one are turned away, which is the second half of the argument.
- From it `LockCoversEverySync`, `MutualExclusion` and `Refinement`: under
  `Timely`, `Spec => Lease!Spec`. Each step is an `Enter`, `TurnAway`, `Leave`,
  `Crash`, `Lapse` of the contract or a stutter; that a tick never expires the
  key of a running task is the lease invariant.
- Without `Timely`: `ReleaseIsOwn`, from which steps write a key at all
  (`KeyWriters`), and `LostForGood`; both need only the types.

For every set of requests and tasks, every finite set of documents, every batch
size and each choice of back ends (`SourceLifecycleProofs`):

- `SyncsAreExact` and `DocumentsKept`: `SyncIsExact` and `SyncKeepsDocuments`,
  whether leases hold or not. Both speak of the end or of the whole of a run, so
  the invariant says what lies between: `Locals`, what the variables of a task
  are at each program counter; `Exact`, that until the removal the store holds
  `existing \cup (cur \ batch)`, after it `cur`, and that the count was written
  when it is read back; `Keeps`, the weaker relation that failures and Redis's
  half-written batches leave. `Undisturbed` is the frame argument: a task that
  does not move keeps all three unless somebody writes, and a writer marks it in
  `interfered`. `OtherInv` and `RequestInv` discharge every step of others with
  it; `OwnInv` has one case for each step of the task itself.
- `OnlyRequestsInterfere` and `TaskKeepsLease`, assuming `LeaseCanLapse = FALSE`,
  which `LockCoversEverySync` justifies under `Timely`: by `Holds`, a
  running task owns the lock, so a writing task finds no other at work
  (`NoInterference`), and each step is one of `SyncLease` or a stutter
  (`KeepsLease`).
- `OnlyStraysLeaveOrphans`: `NoOrphans`, under the same assumption. The property
  speaks of a source that is gone, the invariant of the way there: `Late`, that
  from the moment a deletion has looked at the lock, or the source is gone,
  whoever synchronises is a stray; `Dropped`, that what the deletion leaves behind
  when it has dropped the documents is `strayed`, and what it has not scanned before. The lock
  is free when it looks, so by `Holds` nobody is at work then.

For every set of processes, configurations and shapes (`StorePreflightProofs`):
`StoreTypes`, `CertificateHolds`, `NoMixing`, `ServedFromItsSpace`. `StoreInv`
is the inductive invariant: a manifest certifies the index and all vectors, an
index without manifest holds only vectors of the adoptable space, and whoever
is up has the manifest's configuration. Assumptions: `ShapeOfAssumption`,
`AdoptableAssumption` (one space to adopt), `NoneAssumption`. The runs check this
contract through the two modules that implement it, not on its own.

For the same sets and every interleaving of commands, crashes and operators,
while the start-up lock does not expire under a live owner
(`LockCanLapse = FALSE`; section 6 says what happens if it does)
(`RedisPreflightProofs`):

- `KeysAgree`: `Spec => []IInv`. `Keys` says what the five keys tell of each
  other without anybody looking: the marker stands only over an empty store
  (`MarkerOnEmpty`); a manifest fits the index and is the marker's if there is one
  (`Certificate`); an index without manifest is the marker's or the adoptable
  one (`Uncertified`); hashes without an index are what a reset forgot
  (`Forgotten`). `Path(p)` says what the process that holds the lock has read and
  still relies on. `OthersKeep` is the frame argument: the others are stopped,
  waiting, or up on a certified store, which the owner never changes.
- `FailuresHaveACause`: `FailsForACause`, from it: each of the seven places where a
  start can fail is either impossible on the start's own traces or names the
  other configuration. A reset that forgot keys counts as having met every
  configuration, so the theorem asks for a second one to exist.
- `RefinesStore`: `Spec => Store!Spec`. SET of the manifest is the moment a store is
  created or adopted, releasing the lock the moment a process comes up; every
  other command is a stutter. A `Rebuild` after a start that died between
  manifest and marker is a `Reset` of the contract, because the marker makes the
  index count as absent again.
- `SpacesNeverMix`: the refinement with `ServedFromItsSpace`. Whoever is up finds
  its own manifest, its own index and only vectors of its own space.

For every set of processes, namespaces and configurations and each version of
the extension (`PgPreflightProofs`), with no condition on timing: the locks are
the session's, they do not expire. `AbsentAssumption` says only that "nothing there"
is none of the values a catalog can hold.

- `CatalogInvariant`: the invariant has the catalog's types (`Catalog`), what is
  committed of a namespace (`Intact`: table and manifest fit, a table without
  manifest is legacy), what an open transaction has written and with which values
  (`Wrote`), and what its process has read (`Path`). Only the holder of the global
  lock has writes that are not committed, so a commit changes what nobody else relies
  on. `StaysWithP` discharges every step that commits nothing.
- From it `WritersExclude` and `LargeIsServed`, and `RefinesStore`: for an arbitrary
  namespace, COMMIT is the moment of creation or adoption. `SpacesNeverMix` as on
  Redis.
- `NothingIsHalfDone`: `NothingHalfDone`. What a store lacks of manifest row, table and
  indexes is in `lacking`. The part that can go wrong is COMMIT (`CommitAccounted`):
  it takes from `lacking` every part the transaction wrote, so it must have
  written them whole, which `Wrote` says, and must leave nothing out beside them, which `Path` says.
  `OperatorAccounted` shows that operators are charged with what they remove.

For every set of pages, issues, slots and attempts (`GithubFetchProofs`):

- `NobodyForgotten`: `Spec => []SomebodyWakesThem`. With the types (`Types`) and
  the fact that the page loop and its comment tasks take turns (`Phases`) it is
  inductive: whoever clears the event sleeps or has raised, and only the one
  that wakes leaves that set, setting the event as it does.
- `OnlyExplainedLosses`: `LossesExplained` alone says nothing before the end.
  `LossInv` adds: an issue of a page still to come was not touched (`Fresh`), an
  issue of the current batch not delivered (`Waiting`), a finished request
  without all comments is exhausted (`Explained`), and a wanted issue of a page
  left behind is delivered (`Complete`).
- `IssuesAccountedFor`: `Spec => Stream!Spec`, from `LossInv`. The lemma
  `RequestMoves` describes what any step of a request does to the rest, so that
  each invariant treats the nine actions of the client once.

For every site, number of slots and attempts (`ConnectorProofs`):

- `CrawlTypes`: the types, and that never more tasks are past the semaphore than it
  has slots. The count is of a finite set: `SlotsShrink` and `SlotsFinite` reduce
  each step to whether the task that moves was in it.
- `CrawlLosesNothing`: `LossesExplained`. That every wanted URL has a task says
  nothing while sitemaps are read. `ReadSoFar(V)`, for some set `V` of sitemaps,
  says that every URL the sitemaps of `V` list is in `urls` and that every sitemap they
  name is in `V` or still to be called; when no call is left, `V` is closed, and so
  holds every sitemap that can be reached, and the filter keeps what is wanted. `FilteredFacts` says what the filter of
  the patterns keeps, by induction over the length of its list.
- `PagesAccountedFor`: `Spec => Stream!Spec`. The invariant is that a collected
  task is over, so no later step changes what was yielded.
- `NoPageGivenUpEarly`: `Spec => []GivenUpForCause`. The invariant `Attempts`
  relates the two counters: they are equal, except that a sleeping task has one
  failure more than counted tries.

For every number of items (`ConnectorProofs`, the part about `SequentialFetch`):
`Bookkeeping` and `NothingLost`. Beside the types the invariant (`Accounted`) says
that before the loop nothing is accounted for, and from its start on every item is
to come, yielded, passed over or unlisted.

For every finite set of documents, every `TopK` and constant of the scores
(`AnswerProofs`, the part about `Retrieval`):

- The invariant (`ReadInv`) is small: a list a query returned is a ranking of what
  had been `seen` by then, and the answer is the fusion of the two lists. Between the
  queries anything may be added or removed; `seen` only grows, so the first list
  stays a ranking of it (`RankingsGrow`). The rest is about the fusion of *any* two
  rankings.
- `SharesFall`: the later place scores strictly less. `Unit` is a product defined by
  recursion; by induction every denominator divides it (`UnitDivisible`), so the
  integer divisions are exact and keep the order of the fractions.
- `OneOrder`: scores, and among equals the place where the dict met a document
  (`FirstMetIs`), order the hits totally: the stable sort has one outcome.
- `FusionIs`: the number of hits before a hit (`Rank`) tells the hits apart and is
  below their number, so each number is taken once (`AllTaken`). The `CHOOSE` in
  `Fusion` therefore has exactly one candidate, and every hit of a rank below
  `TopK` is answered at that rank.
- `FoundOnce` (`ResultsWereFound`) follows from this and the invariant.
  `FusionKeepsOrder` (`AgreedOrder`): what is before in both lists weighs more in
  each (`WeighsMore`), so it has the smaller rank. `FirstHitAnswered`
  (`FirstHitKept`): only a document of both lists can be before the first semantic
  hit (`BeforeFirst`), and fewer than `TopK` others are in the semantic list.

For every set of sources, number of messages, turns and calls, and every history
limit that is a natural number (`AnswerProofs`, the part about `ChatLoop`):

- The invariant (`ChatInv`) has, beside types, `Answering`: what has been answered,
  followed by the calls still to be executed, is the list of calls made.
  `CallsAnswered` alone speaks of the moment the model is asked, when nothing is
  left to execute; the invariant says what holds between two calls of one message.
  `Remembers` keeps what was said while input is added, and `ListedAtOnce` says that
  on PostgreSQL nothing is looked up after the list.
- From it `NoCallLeftOpen`, `NewestMessagesSent` and `NotFoundOnlyEarly`. `WindowIs`
  says what the two slices of the code keep, message by message.
- What the entries of a kind carry (`Carried`) is defined by recursion over the
  input; `CarriedOneMore` and `CarriedAlike` say what adding an entry, or a row of
  entries of one kind, does to it.

Induction appears where a definition is recursive: `Filtered` of the crawl, `Unit`
of the fusion, `Carried` of the chat. The library's induction rules take an
operator as a parameter, which the provers cannot instantiate; `AllNaturals` states
the rule for a *set* of naturals instead and follows from well-foundedness. With it
`KeptExists`, `ProductExists` and `CarriesExists` show that those recursive
functions exist, and later lemmas what they compute.

With this, every invariant, action property and refinement the passing runs check is
also a theorem. Only model-checked are the liveness properties (`EveryTaskSettles`,
`LockIsFreed`, `AbandonedLockExpires`, `EveryStartEnds`, `EveryFetchEnds`,
`EveryCrawlEnds`, `EveryChatEnds`): they need fairness and `ENABLED`, which the
prover does not reach. The theorems rest on the named assumptions on constants of
the modules they extend, and say so where they need more (`Timely`,
`LeaseCanLapse = FALSE`, `LockCanLapse = FALSE`).

## 6. Where code and text disagree

- **Half a source (run `lifecycle_half`).** On Redis, `update_metadata` tests
  EXISTS and calls HSET later (`sources/metadata/redis/store.py:114, 131`). A
  DELETE in between leaves a hash with only the updated fields: the deleted
  source exists again and every list or get of it fails.

Met while modelling, without a run of their own:

- On Redis two concurrent creations of one name both succeed
  (`sources/metadata/redis/store.py:60, 64`); PostgreSQL has its constraint.
- With a start-up lock that expires under its owner (`LockCanLapse = TRUE`) and
  two configurations, `index.create()` (`document_store/preflight.py:798`),
  which no ownership check precedes, can put the index of one under the
  manifest of the other. With one configuration the store stays consistent.
- `GitHubClient.request` waits for the rate-limit event before the semaphore
  (`connectors/common/github_client.py:70-71`): queued callers send while
  another sleeps, and the first sleeper to wake opens the gate for all.
- In a chat with Redis metadata the list of sources made for a missing one
  (`chat/service.py:134`) reads keys, then hashes; a deletion in between ends
  the request with 404 after all. `NotFoundEarly` excludes exactly this case.
- A source whose name is an ending of `sources` or of the namespace (`sources`,
  `rces`; with the default namespace also `store`): `_extract_real_doc_id`
  (`document_store/redis/store.py:70`) splits the key at the wrong place, `get_document_ids` returns one wrong id, and a sync
  adds everything again and removes nothing that is stale. The names are valid
  (`sources/schemas.py:14`). The models take the id of a key as given.
- A sitemap page answered with a status below 400 other than 200 is asked for
  again at once, as long as it is answered so
  (`connectors/sitemap/crawler.py:159`); see section 4.
- The tree of a large repository comes truncated
  (`connectors/github_pdf/fetcher.py:77`): PDFs it does not name are not fetched
  and their documents deleted. The docstring at line 32 says "Traverse the
  entire repository tree". They are `unlisted` in the model, and excused.
- "Try as a tag or commit" (`connectors/github_pdf/fetcher.py:55`) is reached
  only when the request for the branch used up its attempts: for a tag GitHub
  answers 404, which raises in the client. A `ref` that is a tag ends the sync
  with an error.
- A listing on Redis that meets a removal between keys and hashes is answered
  500 (`document_store/redis/store.py:125`); it never shows what is gone.
- The fusion keeps the first hit of the semantic query (`FirstHitKept`); that of
  the full-text query can be cut off by documents both queries found, since ties
  go to the semantic list.
- Issues are listed by last update (`connectors/github_issues/fetcher.py:75`), so an
  edit or a comment during a run moves an issue to a page already read, and
  the sync deletes its documents (section 2).
- Listings have an OFFSET and no ORDER BY (`document_store/postgres/store.py:85`),
  and SCAN has no order either: pages of one listing may overlap or miss
  documents. `Retrieval` models one page.
- `delete_source` looks at the lock and does not take it
  (`sources/service.py:136`). A sync that starts after the look, or was queued
  before the deletion and runs after it, adds documents and fails at the first
  count update: documents without a source. `NoOrphans` does not exclude it; it says that this is
  the only way, and that no sync at work when the deletion looked, no crash and no
  other deletion leaves any.
- On Redis a creation that lost a race writes over the source, with a count of 0 under
  a running sync. `NoInterference` excludes it for PostgreSQL and admits
  it for Redis.
- Properties that admit what the code does, so that they say what else cannot
  happen: a reset that forgot keys excuses every refusal (`FailsForACause`); a request
  for a page of issues that used up its attempts excuses the pages after it
  (`LossesExplained`), although the sync then deletes their documents; a
  disturbed sync promises nothing (`SyncIsExact`).

## 7. What is not modelled

Chunkers (text splitting by a library), the PostgreSQL engine singleton (only
the API's shutdown disposes of it; a caller that reads the global after that
gets `None`, `common/postgres.py:21`), health check, configuration, and of the
API's wiring everything but the preflight before serving and the exceptions as
answers. In `SourceLifecycle` a connector is any producer of documents that may
fail, an LLM client returns or raises. Also left out: contents, vectors, how a
server ranks and escapes a query, descriptions, timestamps, wording, pagination of
task lists, expiry of task results.

## 8. Plan

Written first, because the rest relies on them: lock, life of a source,
start-up validation; then the connectors and retrieval; then the theorems, about
the streams and the life of a source first, about the two start-up protocols
and the crawl of sitemaps after them, about the answers last. What could still be
added:

1. Liveness as theorems, when a prover for `ENABLED` and fairness is at hand.
2. The fusion in floating point: the models use exact fractions (section 2).
3. Redis ids as strings, to state what `_extract_real_doc_id` does to the names of
   section 6, and the start-up lock's clock, to state by how much 60 s must exceed
   the slowest command.
