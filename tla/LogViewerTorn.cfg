\* One worker whose long lines reach the file in two writes; no rotation.
SPECIFICATION LogSpec
CONSTANTS
    Writer = {w1}
    MaxLines = 3
    Long = {2}
    Malformed = {}
    MaxFiles = 1
    MaxTruncations = 0
    Readers = {"follow"}
    TornFor = {"follow"}
    TailLimit = 1
    Limit = 1
    Chunk = 2
INVARIANT
    HistoryNotReplayed
\* The bound on the lines ends the behaviour.
CHECK_DEADLOCK FALSE
