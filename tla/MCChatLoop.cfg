\* Both APIs of the model and both metadata back ends, sources that come and go.
CONSTANTS
    Malformed = Malformed
    Sources = {s1, s2}
    MaxMessages = 3
    HistoryLimit = 2
    MaxIterations = 3
    MaxCalls = 2
SPECIFICATION ChatFairSpec
INVARIANTS CallsAnswered RecentMessages
PROPERTIES NotFoundEarly EveryChatEnds
CHECK_DEADLOCK FALSE
