\* Deletion racing with an update, Redis metadata.
CONSTANTS
    NoTask = NoTask
    NoMeta = NoMeta
    Requests = {r1, r2}
    Ops = {"sync", "delete"}
    Tasks = {t1, t2}
    Docs = {d1}
    BatchSize = 1
    MetaBackend = "redis"
    DocBackend = "redis"
    LeaseCanLapse = FALSE
    HostsDie = FALSE
SPECIFICATION Spec
SYMMETRY MCSymmetry
INVARIANTS NoHalfSource
