\* Two workers, one line of each kind and one that is cut, two rotations, one
\* truncation; every line reaches a follower's file whole.
SPECIFICATION FairLogSpec
CONSTANTS
    Writer = {w1, w2}
    MaxLines = 4
    Long = {2, 3, 4}
    Malformed = {2}
    MaxFiles = 2
    MaxTruncations = 1
    Readers = {"follow", "page", "export"}
    TornFor = {"page", "export"}
    TailLimit = 1
    Limit = 2
    Chunk = 2
INVARIANTS
    LogTypeOK
    ReadersAreExact
    PagesWalkTheFile
PROPERTY
    SurvivesRotation
\* The bound on the lines ends the behaviour.
CHECK_DEADLOCK FALSE
