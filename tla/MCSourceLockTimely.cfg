\* Timing as the defaults justify it: RenewalInterval + 3 * MaxStretch < LockTimeout.
CONSTANTS
    s1 = s1
    s2 = s2
    t1 = t1
    t2 = t2
    t3 = t3
    NoTask = NoTask
    Sources = {s1, s2}
    Tasks = {t1, t2, t3}
    SourceOf <- MCSourceOfTwo
    LockTimeout = 6
    ExtendTime = 4
    RenewalInterval = 2
    MaxStretch = 1
    MaxTtl = 8
    RedisErrors = FALSE
SPECIFICATION Spec
INVARIANTS TypeOK LockCoversSync OneSyncPerSource LeaseInv
PROPERTIES ImplementsLease
