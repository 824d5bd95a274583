\* Four sites, five URLs, two slots, two attempts, robots.txt read or not.
CONSTANTS
    root = root
    blog = blog
    guide = guide
    u1 = u1
    u2 = u2
    u3 = u3
    u4 = u4
    u5 = u5
    Root = root
    Sitemaps = {root, blog, guide}
    Urls = {u1, u2, u3, u4, u5}
    Sites <- MCSites
    Wanted = {u1, u2, u3, u4}
    Disallowed = {u4}
    Concurrency = 2
    MaxAttempts = 2
    MaxDepth = 5
    MaxTasks = 4
SPECIFICATION FairSpec
INVARIANTS CrawlTypeOK LossesExplained
PROPERTIES ImplementsStream EveryCrawlEnds
CHECK_DEADLOCK FALSE
