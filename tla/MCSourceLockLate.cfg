\* A stretch may outlast the lease and Redis calls may fail.
CONSTANTS
    s1 = s1
    s2 = s2
    t1 = t1
    t2 = t2
    t3 = t3
    NoTask = NoTask
    Sources = {s1}
    Tasks = {t1, t2, t3}
    SourceOf <- MCSourceOfThree
    LockTimeout = 2
    ExtendTime = 2
    RenewalInterval = 1
    MaxStretch = 2
    MaxTtl = 3
    RedisErrors = TRUE
SPECIFICATION FairSpec
PROPERTIES NoForeignRelease LostLeaseStaysLost AbandonedLockExpires
