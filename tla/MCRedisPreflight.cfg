\* Processes with different configurations, crashes, resets, a lock that holds.
CONSTANTS
    small = small
    other = other
    large = large
    s1536 = s1536
    s3072 = s3072
    None = None
    Abandoned = Abandoned
    Procs = {p1, p2}
    Configs = {small, other, large}
    Shapes = {s1536, s3072}
    ShapeOf <- MCShapeOf
    Adoptable = {small}
    Leftovers = TRUE
    LockCanLapse = FALSE
SPECIFICATION FairSpec
PROPERTIES FailsForACause EveryStartEnds ImplementsStore
