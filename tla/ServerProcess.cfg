\* Two servers and one --stop, with two faults.
SPECIFICATION FairSpec
CONSTANTS
    p1 = p1
    p2 = p2
    c1 = c1
    c2 = c2
    None = None
    Empty = Empty
    Pid = {p1, p2}
    Command = {c1}
    AuthFiles = 2
    MediaFiles = 1
    MaxFaults = 2
INVARIANTS
    TypeOK
    MigratedOnce
    OneAtATime
PROPERTY
    EveryStartEnds
\* The system is idle once every command is over and every server serves or is gone.
CHECK_DEADLOCK FALSE
