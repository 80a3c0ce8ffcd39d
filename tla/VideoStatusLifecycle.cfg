\* One live consumer, replaced when it dies, deletes, two faults; no cancel.
SPECIFICATION FairSpec
CONSTANTS
    v1 = v1
    v2 = v2
    Video = {v1}
    Streams <- Varied
    Consumer = {c1, c2, c3}
    Canceller = {}
    Workers = 1
    Batch = 2
    None = None
    MaxFaults = 2
INVARIANTS
    AppliedInOrder
PROPERTY
    EveryEntryIsAcked
\* The system stops once every worker is dead.
CHECK_DEADLOCK FALSE
