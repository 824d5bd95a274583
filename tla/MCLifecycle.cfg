\* PostgreSQL metadata over a Redis document store, every kind of request, fair
\* workers, leases that hold.
CONSTANTS
    NoTask = NoTask
    NoMeta = NoMeta
    Requests = {r1, r2}
    Ops = {"create", "update", "sync", "delete"}
    Tasks = {t1, t2}
    Docs = {d1, d2}
    BatchSize = 2
    MetaBackend = "postgres"
    DocBackend = "redis"
    LeaseCanLapse = FALSE
    HostsDie = FALSE
SPECIFICATION FairSpec
INVARIANTS SyncIsExact NoOrphans
PROPERTIES NoInterference KeepsLease EveryTaskSettles LockIsFreed
ACTION_CONSTRAINT MCOwnTask
