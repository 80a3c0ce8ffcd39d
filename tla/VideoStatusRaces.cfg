\* Two live consumers and a cancel request, deletes, one fault.
SPECIFICATION Spec
CONSTANTS
    v1 = v1
    v2 = v2
    Video = {v1, v2}
    Streams <- Mixed
    Consumer = {c1, c2}
    Canceller = {r1}
    Workers = 2
    Batch = 2
    None = None
    MaxFaults = 1
SYMMETRY ConsumerSymmetry
INVARIANTS
    TypeOK
    AckedIsSettled
PROPERTIES
    DeleteIsFinal
    Lifecycle
\* The system stops once every worker is dead.
CHECK_DEADLOCK FALSE
