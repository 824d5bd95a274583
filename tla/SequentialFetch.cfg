\* Up to five items; the three connectors are initial states.
CONSTANT MaxItems = 5
SPECIFICATION FetchSpec
INVARIANT FetchTypeOK
PROPERTY FetchImplementsStream
CHECK_DEADLOCK FALSE
