\* One client more than there are slots.
SPECIFICATION FairSpec
CONSTANTS
    c1 = c1
    c2 = c2
    c3 = c3
    Client = {c1, c2, c3}
    MaxConnections = 2
    MaxEvents = 3
INVARIANTS
    TypeOK
    SlotsAreStreams
    FeedIsContiguous
PROPERTY
    SlotsComeBack
\* The feed is idle once every client has left and every event is delivered.
CHECK_DEADLOCK FALSE
