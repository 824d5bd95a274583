\* Redis metadata over a PostgreSQL document store, deletions, leases that may
\* lapse under a running task.
CONSTANTS
    NoTask = NoTask
    NoMeta = NoMeta
    Requests = {r1, r2}
    Ops = {"create", "sync", "delete"}
    Tasks = {t1, t2}
    Docs = {d1, d2}
    BatchSize = 1
    MetaBackend = "redis"
    DocBackend = "postgres"
    LeaseCanLapse = TRUE
    HostsDie = FALSE
SPECIFICATION Spec
SYMMETRY MCSymmetry
INVARIANTS SyncIsExact SyncKeepsDocuments
