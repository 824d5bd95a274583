\* Three comment tasks, two slots, two attempts, every kind of answer.
CONSTANTS
    i1 = i1
    i2 = i2
    i3 = i3
    i4 = i4
    pr = pr
    Main = Main
    Pages <- MCPages
    Wanted = {i1, i2, i3, i4}
    CommentPages <- MCCommentPages
    MaxAttempts = 2
    Concurrency = 2
SPECIFICATION FairSpec
INVARIANTS LossesExplained SomebodyWakesThem
PROPERTIES EveryFetchEnds ImplementsStream
CHECK_DEADLOCK FALSE
